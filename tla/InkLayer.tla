------------------------------ MODULE InkLayer ------------------------------
(***************************************************************************)
(* One page of ink (inkread-ink/src/model.rs) as operators on a layer      *)
(* record, for the modules that edit one.  Page space is one axis of       *)
(* 0..Width: the code treats x and y alike and apart.  Coordinates are     *)
(* floating-point numbers with a significand of Bits bits (24 for the      *)
(* code's f32), so a sum is rounded and need not be undone by the          *)
(* difference.  Ids saturate at MaxId as the u32 counter does at its       *)
(* limit.                                                                  *)
(***************************************************************************)
EXTENDS Integers, FiniteSets, SequencesExt

CONSTANTS Width, MaxId, None,
          Bits         \* of a coordinate's significand

-----------------------------------------------------------------------------
(* Strokes and layers *)

Clamp(lo, v, hi) == IF v < lo THEN lo ELSE IF v > hi THEN hi ELSE v

MinOf(S) == CHOOSE v \in S : \A w \in S : v <= w

MaxOf(S) == CHOOSE v \in S : \A w \in S : v >= w

\* The number nearest to v that a coordinate can hold, ties to the even significand.
Round(v) ==
    LET n    == IF v < 0 THEN -v ELSE v
        unit == 2 ^ (CHOOSE k \in 0 .. n : n < 2 ^ (Bits + k) /\ (k = 0 \/ n >= 2 ^ (Bits + k - 1)))
        low  == n \div unit
        up   == 2 * (n % unit) > unit \/ (2 * (n % unit) = unit /\ low % 2 = 1)
        mag  == unit * (IF up THEN low + 1 ELSE low)
    IN  IF v < 0 THEN -mag ELSE mag

\* Both edges of the page are coordinates, as 0.0 and 1.0 are.
LayerAssumption == Width \in Nat /\ MaxId \in Nat /\ Bits \in Nat \ {0} /\ Round(Width) = Width

SaturatingNext(id) == IF id = MaxId THEN MaxId ELSE id + 1

Ids(strokes) == {strokes[i].id : i \in DOMAIN strokes}

FromStrokes(strokes) ==
    [strokes |-> strokes,
     nextId  |-> IF strokes = <<>> THEN 0 ELSE SaturatingNext(MaxOf(Ids(strokes))),
     pending |-> None, undo |-> <<>>, redo |-> <<>>]

EmptyLayer == FromStrokes(<<>>)

Select(strokes, ids) == SelectSeq(strokes, LAMBDA s : s.id \in ids)

Without(strokes, ids) == SelectSeq(strokes, LAMBDA s : s.id \notin ids)

\* Every edit forks the timeline: it goes on the undo stack and clears redo.
Recorded(layer, strokes, edits) ==
    [layer EXCEPT !.strokes = strokes, !.undo = @ \o edits, !.redo = <<>>]

-----------------------------------------------------------------------------
(* Drawing *)

StartStroke(layer, color) ==
    [layer EXCEPT !.pending = [id |-> layer.nextId, color |-> color, points |-> <<>>]]

PushPoint(layer, x) == [layer EXCEPT !.pending.points = Append(@, Clamp(0, x, Width))]

Committed(layer) == layer.pending # None /\ layer.pending.points # <<>>

FinishStroke(layer) ==
    IF Committed(layer)
    THEN [Recorded(layer, Append(layer.strokes, layer.pending),
                   << [kind |-> "Add", stroke |-> layer.pending] >>)
          EXCEPT !.nextId = SaturatingNext(@), !.pending = None]
    ELSE [layer EXCEPT !.pending = None]

CancelStroke(layer) == [layer EXCEPT !.pending = None]

-----------------------------------------------------------------------------
(* Erasing *)

\* Squared distance to a segment, on one axis: inside it, or to its nearer end.
StrokeHit(stroke, x, radius) ==
    LET p == stroke.points
    IN  IF Len(p) = 1
        THEN x \in p[1] - radius .. p[1] + radius
        ELSE \E i \in 1 .. Len(p) - 1 :
                x \in MinOf({p[i], p[i + 1]}) - radius .. MaxOf({p[i], p[i + 1]}) + radius

Hit(layer, x, radius) == {i \in DOMAIN layer.strokes : StrokeHit(layer.strokes[i], x, radius)}

\* The indices H in ascending order.
Ascending(H) == [k \in 1 .. Cardinality(H) |-> CHOOSE i \in H : Cardinality({j \in H : j < i}) = k - 1]

Descending(H) == [k \in 1 .. Cardinality(H) |-> CHOOSE i \in H : Cardinality({j \in H : j > i}) = k - 1]

At(strokes, indices) == [k \in DOMAIN indices |-> strokes[indices[k]]]

\* The strokes at indices H go, the top one first, with one edit for each.
EraseHit(layer, H) ==
    IF H = {} THEN layer
    ELSE LET order == Descending(H)
         IN  Recorded(layer, At(layer.strokes, Ascending(DOMAIN layer.strokes \ H)),
                      [k \in DOMAIN order |->
                         [kind |-> "Erase", index |-> order[k], stroke |-> layer.strokes[order[k]]]])

-----------------------------------------------------------------------------
(* Lasso edits *)

Shifted(points, d) == [i \in DOMAIN points |-> Round(points[i] + d)]

Translate(strokes, ids, d) ==
    [i \in DOMAIN strokes |->
        IF strokes[i].id \in ids THEN [strokes[i] EXCEPT !.points = Shifted(@, d)] ELSE strokes[i]]

RawPointBounds(strokes, ids) == UNION {ToSet(s.points) : s \in ToSet(Select(strokes, ids))}

ClampedDelta(layer, ids, d) ==
    LET P == RawPointBounds(layer.strokes, ids)
    IN  IF P = {} THEN 0 ELSE Clamp(-MinOf(P), d, Round(Width - MaxOf(P)))

\* The undo record keeps the delta that was asked for.
MoveStrokesAsked(layer, ids, d) ==
    LET c == ClampedDelta(layer, ids, d)
    IN  IF c = 0 THEN layer
        ELSE Recorded(layer, Translate(layer.strokes, ids, c),
                      << [kind |-> "Move", ids |-> ids, delta |-> d] >>)

MoveStrokes(layer, ids, d) ==
    LET c == ClampedDelta(layer, ids, d)
    IN  IF c = 0 THEN layer
        ELSE Recorded(layer, Translate(layer.strokes, ids, c),
                      << [kind |-> "Move", ids |-> ids, delta |-> c] >>)

DeleteStrokes(layer, ids) ==
    LET order == Ascending({i \in DOMAIN layer.strokes : layer.strokes[i].id \in ids})
    IN  IF order = <<>> THEN layer
        ELSE Recorded(layer, Without(layer.strokes, ids),
                      << [kind |-> "DeleteMany",
                          removed |-> [k \in DOMAIN order |-> <<order[k], layer.strokes[order[k]]>>]] >>)

RecolorStrokes(layer, ids, color) ==
    LET affected == Select(layer.strokes, ids)
    IN  IF affected = <<>> THEN layer
        ELSE Recorded(layer,
                      [i \in DOMAIN layer.strokes |->
                          IF layer.strokes[i].id \in ids THEN [layer.strokes[i] EXCEPT !.color = color]
                          ELSE layer.strokes[i]],
                      << [kind |-> "Recolor", affected |-> affected, new |-> color] >>)

CopyStrokes(layer, ids) == Select(layer.strokes, ids)

PasteStrokes(layer, clipboard, d) ==
    IF clipboard = <<>> THEN layer
    ELSE LET id[k \in 0 .. Len(clipboard)] == IF k = 0 THEN layer.nextId ELSE SaturatingNext(id[k - 1])
             added == [k \in DOMAIN clipboard |->
                         [clipboard[k] EXCEPT
                            !.id = id[k - 1],
                            !.points = [i \in DOMAIN @ |-> Clamp(0, Round(@[i] + d), Width)]]]
         IN  [Recorded(layer, layer.strokes \o added, << [kind |-> "AddMany", strokes |-> added] >>)
              EXCEPT !.nextId = id[Len(clipboard)]]

-----------------------------------------------------------------------------
(* History *)

Insert(strokes, at, stroke) == InsertAt(strokes, MinOf({at, Len(strokes) + 1}), stroke)

\* What taking an edit back, or applying it again, does to the strokes.
Reverted(strokes, e) ==
    CASE e.kind = "Add"        -> Without(strokes, {e.stroke.id})
      [] e.kind = "Erase"      -> Insert(strokes, e.index, e.stroke)
      [] e.kind = "Move"       -> Translate(strokes, e.ids, -e.delta)
      [] e.kind = "DeleteMany" -> FoldLeft(LAMBDA ss, r : Insert(ss, r[1], r[2]), strokes, e.removed)
      [] e.kind = "Recolor"    ->
            [i \in DOMAIN strokes |->
                IF strokes[i].id \in Ids(e.affected)
                THEN [strokes[i] EXCEPT !.color = Select(e.affected, {strokes[i].id})[1].color]
                ELSE strokes[i]]
      [] e.kind = "AddMany"    -> Without(strokes, Ids(e.strokes))

Reapplied(strokes, e) ==
    CASE e.kind = "Add"        -> Append(strokes, e.stroke)
      [] e.kind = "Erase"      -> RemoveFirstMatch(strokes, LAMBDA s : s.id = e.stroke.id)
      [] e.kind = "Move"       -> Translate(strokes, e.ids, e.delta)
      [] e.kind = "DeleteMany" -> Without(strokes, {e.removed[k][2].id : k \in DOMAIN e.removed})
      [] e.kind = "Recolor"    ->
            [i \in DOMAIN strokes |->
                IF strokes[i].id \in Ids(e.affected) THEN [strokes[i] EXCEPT !.color = e.new] ELSE strokes[i]]
      [] e.kind = "AddMany"    -> strokes \o e.strokes

Undo(layer) ==
    IF layer.undo = <<>> THEN layer
    ELSE LET e == Last(layer.undo)
         IN  [layer EXCEPT !.strokes = Reverted(@, e), !.undo = Front(@), !.redo = Append(@, e)]

Redo(layer) ==
    IF layer.redo = <<>> THEN layer
    ELSE LET e == Last(layer.redo)
         IN  [layer EXCEPT !.strokes = Reapplied(@, e), !.redo = Front(@), !.undo = Append(@, e)]

-----------------------------------------------------------------------------
(* The .inkbin file holds the strokes and nothing else; decoding refuses a *)
(* blob with the same id twice or a stroke without a point, and clamps the *)
(* points of the others into the page.                                     *)

Decodes(strokes) ==
    /\ \A i, j \in DOMAIN strokes : strokes[i].id = strokes[j].id => i = j
    /\ \A i \in DOMAIN strokes : strokes[i].points # <<>>

Decoded(strokes) ==
    FromStrokes([i \in DOMAIN strokes |->
        [strokes[i] EXCEPT !.points = [k \in DOMAIN @ |-> Clamp(0, @[k], Width)]]])
=============================================================================
