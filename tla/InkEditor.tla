------------------------------ MODULE InkEditor ------------------------------
(***************************************************************************)
(* The public calls of one InkLayer, in any order a caller may make them:  *)
(* strokes, eraser, lasso edits, clipboard, undo and redo, and a page that *)
(* is written and read back.                                               *)
(***************************************************************************)
EXTENDS InkLayer

CONSTANTS Colors, Radius,
          Samples,         \* raw coordinates the digitizer gives
          Deltas,          \* distances a selection is moved or pasted at
          MaxStrokes,      \* bound on strokes on the page and in the clipboard
          MaxHistory,      \* bound on undo plus redo, and on the moves of a page since it was loaded
          MaxPoints,       \* bound on the points of one stroke
          MaxCopied,       \* bound on the strokes copied at once
          PasteMidStroke   \* may a paste come between the start and the end of a stroke?

EditorAssumption ==
    /\ MaxStrokes \in Nat /\ MaxHistory \in Nat /\ MaxPoints \in Nat /\ MaxCopied \in Nat
    /\ Radius \in Nat /\ PasteMidStroke \in BOOLEAN
    /\ \A v \in Samples \cup Deltas : Round(v) = v

VARIABLES layer,      \* the page being edited
          clipboard,  \* detached strokes, held by the session
          line,       \* the page as it was first shown at each place of its timeline
          moves       \* the strokes of each move since the page was loaded

vars == <<layer, clipboard, line, moves>>

\* What rounding may add up to in moving a stroke there and back, whatever else is undone and redone.
Slack(id) == Cardinality({k \in DOMAIN moves : id \in moves[k]}) * (Width \div 2 ^ Bits)

Stroke == [id : 0 .. MaxId, color : Colors, points : Seq(-Width .. 2 * Width)]

\* A page holds strokes with points, each on the page up to the rounding of its moves.
TypeOK ==
    /\ \A s \in ToSet(layer.strokes) : ToSet(s.points) \subseteq -Slack(s.id) .. Width + Slack(s.id)
    /\ \A s \in ToSet(layer.strokes) \cup ToSet(clipboard) : s \in Stroke /\ s.points # <<>>
    /\ layer.pending # None => layer.pending \in Stroke /\ ToSet(layer.pending.points) \subseteq 0 .. Width
    /\ layer.nextId \in 0 .. MaxId

Init == layer = EmptyLayer /\ clipboard = <<>> /\ line = << <<>> >> /\ moves = <<>>

Room == Len(layer.undo) + Len(layer.redo) < MaxHistory

Sets == (SUBSET Ids(layer.strokes)) \ {{}}

\* A recorded edit gives up the pages ahead on the timeline; the pages it leads to follow.
Shown(pages) ==
    line' = IF layer'.undo = layer.undo THEN line
            ELSE SubSeq(line, 1, Len(layer.undo) + 1) \o pages

Begin(color) == layer' = StartStroke(layer, color) /\ UNCHANGED <<clipboard, line, moves>>

Point(x) ==
    /\ layer.pending # None
    /\ Len(layer.pending.points) < MaxPoints
    /\ layer' = PushPoint(layer, x)
    /\ UNCHANGED <<clipboard, line, moves>>

Finish ==
    /\ layer.pending # None /\ Room
    /\ Len(layer.strokes) < MaxStrokes /\ layer.nextId < MaxId
    /\ layer' = FinishStroke(layer)
    /\ Shown(<<layer'.strokes>>) /\ UNCHANGED <<clipboard, moves>>

Cancel == layer.pending # None /\ layer' = CancelStroke(layer) /\ UNCHANGED <<clipboard, line, moves>>

\* Each stroke the eraser takes, the top one first, is an edit to come back to.
Erase(x) ==
    LET H == Hit(layer, x, Radius)
        Top(k) == {i \in H : Cardinality({j \in H : j > i}) < k}
    IN  /\ Room /\ Len(layer.undo) + Cardinality(H) <= MaxHistory
        /\ layer' = EraseHit(layer, H)
        /\ Shown([k \in 1 .. Cardinality(H) |->
                    At(layer.strokes, Ascending(DOMAIN layer.strokes \ Top(k)))])
        /\ UNCHANGED <<clipboard, moves>>

Move(ids, d) ==
    /\ Room /\ Len(moves) < MaxHistory
    /\ layer' = MoveStrokes(layer, ids, d)
    /\ moves' = IF layer'.undo = layer.undo THEN moves ELSE Append(moves, ids)
    /\ Shown(<<layer'.strokes>>) /\ UNCHANGED clipboard

Delete(ids) ==
    /\ Room /\ layer' = DeleteStrokes(layer, ids)
    /\ Shown(<<layer'.strokes>>) /\ UNCHANGED <<clipboard, moves>>

Recolor(ids, color) ==
    /\ Room /\ layer' = RecolorStrokes(layer, ids, color)
    /\ Shown(<<layer'.strokes>>) /\ UNCHANGED <<clipboard, moves>>

Copy(ids) ==
    /\ Cardinality(ids) <= MaxCopied
    /\ clipboard' = CopyStrokes(layer, ids)
    /\ UNCHANGED <<layer, line, moves>>

Paste(d) ==
    /\ Room /\ clipboard # <<>>
    /\ Len(layer.strokes) + Len(clipboard) <= MaxStrokes
    /\ layer.nextId + Len(clipboard) <= MaxId
    /\ PasteMidStroke \/ layer.pending = None
    /\ layer' = PasteStrokes(layer, clipboard, d)
    /\ Shown(<<layer'.strokes>>) /\ UNCHANGED <<clipboard, moves>>

UndoEdit == layer.undo # <<>> /\ layer' = Undo(layer) /\ UNCHANGED <<clipboard, line, moves>>

RedoEdit == layer.redo # <<>> /\ layer' = Redo(layer) /\ UNCHANGED <<clipboard, line, moves>>

\* The page is saved and loaded again: only its strokes come back.
Reload ==
    /\ Decodes(layer.strokes)
    /\ layer' = Decoded(layer.strokes)
    /\ line' = <<layer'.strokes>> /\ moves' = <<>>
    /\ UNCHANGED clipboard

Next ==
    \/ \E c \in Colors : Begin(c)
    \/ \E x \in Samples : Point(x)
    \/ \E x \in RawPointBounds(layer.strokes, Ids(layer.strokes)) : Erase(x)   \* on some ink
    \/ Finish \/ Cancel \/ UndoEdit \/ RedoEdit \/ Reload
    \/ \E ids \in Sets :
          \/ Delete(ids) \/ Copy(ids)
          \/ \E d \in Deltas : Move(ids, d)
          \/ \E c \in Colors : Recolor(ids, c)
    \/ \E d \in Deltas : Paste(d)

Spec == Init /\ [][Next]_vars

-----------------------------------------------------------------------------
(* Properties *)

\* The same stroke, each point where it was, up to the rounding of its moves.
Near(s, t) ==
    /\ s.id = t.id /\ s.color = t.color /\ DOMAIN s.points = DOMAIN t.points
    /\ \A k \in DOMAIN s.points : s.points[k] \in t.points[k] - Slack(s.id) .. t.points[k] + Slack(s.id)

\* Undo and redo walk one line of pages, through erasures, moves clamped at
\* the edge, deletions from the middle and pastes: at each place the strokes,
\* their paint order and their colours are those first shown there, strokes
\* that were not moved exactly, moved ones up to rounding (model.rs undo, redo
\* and every edit they must invert).  Undoing everything gives the page as it
\* was loaded.
UndoLine ==
    /\ Len(line) = Len(layer.undo) + Len(layer.redo) + 1
    /\ LET seen == line[Len(layer.undo) + 1]
       IN  /\ DOMAIN layer.strokes = DOMAIN seen
           /\ \A i \in DOMAIN seen : Near(layer.strokes[i], seen[i])

\* Stroke ids stay unique, so the page can be read back: decode_layer
\* refuses a file with the same id twice and the session puts it aside.
Readable == Decodes(layer.strokes)
=============================================================================
