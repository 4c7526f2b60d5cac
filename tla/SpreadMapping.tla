---------------------------- MODULE SpreadMapping ---------------------------
(***************************************************************************)
(* The geometry of a virtual spread (convert/virtual_spread.rs and         *)
(* affine.rs): which half of which spread shows a source page, the affine  *)
(* transform that puts it there, and the two ways between a canonical      *)
(* annotation point and the spread.  A producer outside the repository     *)
(* writes the manifest; parse_virtual_spread_manifest decides about it.    *)
(* Lengths are integers, canonical coordinates are multiples of 1/Grid,    *)
(* and the scales that occur are whole.                                    *)
(***************************************************************************)
EXTENDS Integers, FiniteSets, Sequences, SequencesExt, TLC

CONSTANTS MaxPages,      \* pages of the original
          Boxes,         \* source boxes <<left, bottom, right, top>>
          Sheets,        \* spread sizes and gutters [w, h, gutter]
          Grid           \* canonical coordinates are 0 .. Grid

SpreadMappingAssumption == MaxPages \in Nat \ {0} /\ Grid \in Nat \ {0}

VARIABLES m,             \* the manifest
          verdict        \* "made", "sent", or what the parser says

vars == <<m, verdict>>

Rotations == {0, 90, 180, 270}
Sides == {"left", "right"}
Ceil(n) == (n + 1) \div 2
Size(box) == <<box[3] - box[1], box[4] - box[2]>>

-----------------------------------------------------------------------------
(* Placement *)

\* mapping_placement_matches
Placement(page, cover) ==
    LET first == IF cover THEN 1 ELSE 0 IN
    IF cover /\ page = 0 THEN <<0, "right">>
    ELSE <<first + (page - first) \div 2, IF (page - first) % 2 = 0 THEN "right" ELSE "left">>

\* validate_spreads: the number of spreads
SpreadCount(n, cover) == IF cover THEN 1 + Ceil(n - 1) ELSE Ceil(n)

\* validate_spreads: the page a half shows, 0 when it is empty (pages are numbered from 1 here)
Shown(pages, v, side) ==
    LET here == {i \in DOMAIN pages : pages[i].virtual = v /\ pages[i].side = side} IN
    IF here = {} THEN 0 ELSE CHOOSE i \in here : \A j \in here : i <= j

\* validate_spreads
SpreadsFit(w) ==
    /\ Len(w.spreads) = SpreadCount(Len(w.pages), w.cover)
    /\ \A v \in DOMAIN w.spreads : \A s \in Sides : w.spreads[v][s] = Shown(w.pages, v - 1, s)

-----------------------------------------------------------------------------
(* Geometry of one page *)

\* validate_slot_and_destination: the half of the sheet
Slot(side, g) ==
    LET width == (g.w - g.gutter) \div 2 IN
    IF side = "left" THEN <<0, 0, width, g.h>> ELSE <<width + g.gutter, 0, g.w, g.h>>

\* validate_source_dimensions
Turned(box, rotation) == IF rotation \in {0, 180} THEN Size(box) ELSE <<Size(box)[2], Size(box)[1]>>

\* validate_slot_and_destination: the scale is the smaller of the two fits
ScaleFits(scale, size, g) ==
    LET width == (g.w - g.gutter) \div 2 IN
    scale * size[1] <= width /\ scale * size[2] <= g.h /\ (scale * size[1] = width \/ scale * size[2] = g.h)

\* validate_slot_and_destination: centred in the slot
Destination(slot, size, scale) ==
    LET x == (slot[3] - slot[1] - scale * size[1]) \div 2
        y == (slot[4] - slot[2] - scale * size[2]) \div 2
    IN <<slot[1] + x, slot[2] + y, slot[3] - x, slot[4] - y>>

\* validate_linear_orientation
Linear(rotation, s) ==
    CASE rotation = 0 -> <<s, 0, 0, s>> [] rotation = 90 -> <<0, -s, s, 0>>
      [] rotation = 180 -> <<-s, 0, 0, -s>> [] rotation = 270 -> <<0, s, -s, 0>>

\* AffineTransform::apply
Apply(t, p) == <<t[1] * p[1] + t[3] * p[2] + t[5], t[2] * p[1] + t[4] * p[2] + t[6]>>

\* AffineTransform::inverse, applied
Unapply(t, p) ==
    LET det == t[1] * t[4] - t[2] * t[3]
        x == p[1] - t[5]
        y == p[2] - t[6]
    IN <<(t[4] * x - t[3] * y) \div det, (t[1] * y - t[2] * x) \div det>>

Least(S) == CHOOSE x \in S : \A y \in S : x <= y
Greatest(S) == CHOOSE x \in S : \A y \in S : y <= x

\* validate_transformed_bounds: the box around the four corners
Bounds(t, box) ==
    LET corners == {Apply(t, <<x, y>>) : x \in {box[1], box[3]}, y \in {box[2], box[4]}}
    IN <<Least({c[1] : c \in corners}), Least({c[2] : c \in corners}),
         Greatest({c[1] : c \in corners}), Greatest({c[2] : c \in corners})>>

-----------------------------------------------------------------------------
(* Annotation points *)

\* canonical_to_original
ToOriginal(p, c) ==
    LET b == p.box
        Along(k) == (c[k] * Size(b)[1]) \div Grid
        Down(k) == (c[k] * Size(b)[2]) \div Grid
    IN CASE p.rotation = 0 -> <<b[1] + Along(1), b[4] - Down(2)>>
         [] p.rotation = 90 -> <<b[1] + Along(2), b[2] + Down(1)>>
         [] p.rotation = 180 -> <<b[3] - Along(1), b[2] + Down(2)>>
         [] p.rotation = 270 -> <<b[3] - Along(2), b[4] - Down(1)>>

ToCanonicalUnflipped(p, o) ==
    LET b == p.box IN <<((o[1] - b[1]) * Grid) \div Size(b)[1], ((o[2] - b[2]) * Grid) \div Size(b)[2]>>

\* original_to_canonical
ToCanonical(p, o) ==
    LET b == p.box
        X(d) == (d * Grid) \div Size(b)[1]
        Y(d) == (d * Grid) \div Size(b)[2]
    IN CASE p.rotation = 0 -> <<X(o[1] - b[1]), Y(b[4] - o[2])>>
         [] p.rotation = 90 -> <<Y(o[2] - b[2]), X(o[1] - b[1])>>
         [] p.rotation = 180 -> <<X(b[3] - o[1]), Y(o[2] - b[2])>>
         [] p.rotation = 270 -> <<Y(b[4] - o[2]), X(b[3] - o[1])>>

\* canonical_to_spread
CanonicalToSpread(p, c) == Apply(p.transform, ToOriginal(p, c))

\* spread_to_canonical; <<>> is the refusal of a point whose image does not come back
SpreadToCanonical(p, s) ==
    LET c == ToCanonical(p, Unapply(p.transform, s)) IN
    IF c[1] \in 0 .. Grid /\ c[2] \in 0 .. Grid /\ CanonicalToSpread(p, c) = s THEN c ELSE <<>>

-----------------------------------------------------------------------------
(* parse_virtual_spread_manifest *)

\* validate_mapping; the round trip it tries at its sample points is RoundTrip below
MappingFits(p, w) ==
    /\ <<p.virtual, p.side>> = Placement(p.source, w.cover)
    /\ LET size == Turned(p.box, p.rotation) IN
       /\ p.slot = Slot(p.side, w.sheet)
       /\ ScaleFits(p.scale, size, w.sheet)
       /\ p.destination = Destination(p.slot, size, p.scale)
    /\ SubSeq(p.transform, 1, 4) = Linear(p.rotation, p.scale)
    /\ Bounds(p.transform, p.box) = p.destination

\* validate_links
LinkFits(l, w) == l.source < Len(w.pages) /\ l.output < Len(w.spreads) /\ l.target < Len(w.pages)

\* canonical_mapping_record, mapping_authority, compute_view_id: what the identity of the view is made from
ViewId(w) == <<w.original, w.cover, w.sheet, w.pages>>

\* validate_wire
Accepts(w, original) ==
    /\ w.original = original /\ w.document = original
    /\ Len(w.pages) > 0 /\ Len(w.pages) = w.pageCount /\ Len(w.spreads) > 0
    /\ LinkFits(w.link, w)
    /\ \A i \in DOMAIN w.pages : w.pages[i].source = i - 1 /\ MappingFits(w.pages[i], w)
    /\ SpreadsFit(w)
    /\ w.view = ViewId(w)

-----------------------------------------------------------------------------
(* The producer, and what may have happened to its manifest *)

\* a page laid out as it should be: the producer's own arithmetic, written from the picture it draws
Laid(i, cover, sheet, rotation, box) ==
    LET place == Placement(i - 1, cover)
        size == Turned(box, rotation)
        scale == CHOOSE s \in 1 .. sheet.w : ScaleFits(s, size, sheet)
        dest == Destination(Slot(place[2], sheet), size, scale)
        l == Linear(rotation, scale)
        \* the corner of the source that must land on the lower left of the destination
        corner == CASE rotation = 0 -> <<box[1], box[2]>> [] rotation = 90 -> <<box[3], box[2]>>
                    [] rotation = 180 -> <<box[3], box[4]>> [] rotation = 270 -> <<box[1], box[4]>>
        at == Apply(l \o <<0, 0>>, corner)
    IN [source |-> i - 1, virtual |-> place[1], side |-> place[2], rotation |-> rotation, box |-> box,
        slot |-> Slot(place[2], sheet), destination |-> dest, scale |-> scale,
        transform |-> l \o <<dest[1] - at[1], dest[2] - at[2]>>]

Whole(box, rotation, sheet) == \E s \in 1 .. sheet.w : ScaleFits(s, Turned(box, rotation), sheet)

Made(n, cover, sheet, turns, boxes) ==
    LET pages == [i \in 1 .. n |-> Laid(i, cover, sheet, turns[i], boxes[i])]
        bare == [original |-> "pdf", document |-> "pdf", cover |-> cover, sheet |-> sheet, pages |-> pages, pageCount |-> n,
                 spreads |-> [v \in 1 .. SpreadCount(n, cover) |-> [s \in Sides |-> Shown(pages, v - 1, s)]],
                 link |-> [source |-> 0, output |-> 0, target |-> n - 1]]
    IN bare @@ [view |-> ViewId(bare)]

Init ==
    /\ \E n \in 1 .. MaxPages, cover \in BOOLEAN, sheet \in Sheets :
         \E turns \in [1 .. n -> Rotations], boxes \in [1 .. n -> Boxes] :
            /\ \A i \in 1 .. n : Whole(boxes[i], turns[i], sheet)
            /\ m = Made(n, cover, sheet, turns, boxes)
    /\ verdict = "made"

\* one page's fields, altered
Altered(p) ==
    {[p EXCEPT !.side = IF @ = "left" THEN "right" ELSE "left"], [p EXCEPT !.virtual = @ + 1],
     [p EXCEPT !.scale = @ + 1], [p EXCEPT !.source = @ + 1]}
    \cup {[p EXCEPT !.rotation = r] : r \in Rotations}
    \cup {[p EXCEPT !.transform = Linear(r, p.scale) \o SubSeq(@, 5, 6)] : r \in Rotations}
    \cup {[p EXCEPT !.transform[k] = @ + d] : k \in {5, 6}, d \in {-1, 1}}
    \cup {[p EXCEPT !.destination = [k \in 1 .. 4 |-> @[k] + (IF k \in {1, 3} THEN d ELSE 0)]] : d \in {-1, 1}}
    \cup {[p EXCEPT !.slot[k] = @ + d] : k \in {1, 3}, d \in {-1, 1}}

Sealed(w) == [w EXCEPT !.view = ViewId(w)]

\* another producer, or another version of it: one page, one half or one count is wrong
Damage ==
    /\ verdict = "made"
    /\ \/ \E i \in DOMAIN m.pages : \E p \in Altered(m.pages[i]) : m' = Sealed([m EXCEPT !.pages[i] = p])
       \/ \E v \in DOMAIN m.spreads, s \in Sides, i \in 0 .. Len(m.pages) : m' = [m EXCEPT !.spreads[v][s] = i]
       \/ m' = Sealed([m EXCEPT !.cover = ~@])
       \/ \E g \in Sheets : m' = [m EXCEPT !.sheet = g]
       \/ m' = Sealed([m EXCEPT !.pages = Front(@), !.pageCount = @ - 1])
       \/ m' = [m EXCEPT !.spreads = Front(@)]
       \/ m' = [m EXCEPT !.link.target = Len(m.pages)]
       \/ m' = Sealed([m EXCEPT !.original = "other"])
    /\ verdict' = "sent"

Deliver == verdict = "made" /\ verdict' = "sent" /\ UNCHANGED m

\* parse_virtual_spread_manifest
Parse ==
    /\ verdict = "sent"
    /\ verdict' = IF Accepts(m, "pdf") THEN "accepted" ELSE "refused"
    /\ UNCHANGED m

Done == verdict \in {"accepted", "refused"} /\ UNCHANGED vars

Next == Damage \/ Deliver \/ Parse \/ Done

Spec == Init /\ [][Next]_vars

-----------------------------------------------------------------------------
(* Properties *)

TypeOK ==
    /\ verdict \in {"made", "sent", "accepted", "refused"}
    /\ DOMAIN m.pages = 1 .. Len(m.pages)
    /\ \A i \in DOMAIN m.pages : m.pages[i].rotation \in Rotations /\ m.pages[i].side \in Sides

Accepted == verdict = "accepted"
Grids == (0 .. Grid) \X (0 .. Grid)

\* Every page of the original is on exactly one half of one spread, no spread is blank, and going
\* through the spreads right half first, as a right-to-left reader does, gives the pages in order.
EveryPageOnceInOrder ==
    Accepted =>
        LET halves == FlattenSeq([v \in DOMAIN m.spreads |-> <<m.spreads[v]["right"], m.spreads[v]["left"]>>])
            shown == SelectSeq(halves, LAMBDA i : i # 0)
        IN /\ shown = [i \in 1 .. m.pageCount |-> i]
           /\ \A v \in DOMAIN m.spreads : m.spreads[v] # [s \in Sides |-> 0]

\* A page reads upright on its spread whatever its rotation: the canonical corners, with y down the
\* page, are the corners of the destination.
Upright ==
    Accepted => \A i \in DOMAIN m.pages :
        LET p == m.pages[i]
            d == p.destination
        IN /\ CanonicalToSpread(p, <<0, 0>>) = <<d[1], d[4]>>
           /\ CanonicalToSpread(p, <<Grid, 0>>) = <<d[3], d[4]>>
           /\ CanonicalToSpread(p, <<0, Grid>>) = <<d[1], d[2]>>

\* An annotation written on the spread comes back to the point of the page it was drawn at.
RoundTrip ==
    Accepted => \A i \in DOMAIN m.pages, c \in Grids :
        SpreadToCanonical(m.pages[i], CanonicalToSpread(m.pages[i], c)) = c

\* Two pages of one spread stay inside the sheet and a gutter apart, so that a stroke belongs to one of them.
PagesApart ==
    Accepted =>
        LET Drawn(i) == {CanonicalToSpread(m.pages[i], c) : c \in Grids} IN
        \A i, j \in DOMAIN m.pages :
            /\ \A a \in Drawn(i) : a[1] \in 0 .. m.sheet.w /\ a[2] \in 0 .. m.sheet.h
            /\ m.pages[i].virtual = m.pages[j].virtual /\ m.pages[i].side = "left" /\ m.pages[j].side = "right" =>
                 \A a \in Drawn(i), b \in Drawn(j) : b[1] - a[1] >= m.sheet.gutter

\* What the producer laid out correctly is accepted: the checks do not contradict each other.
MadeAcceptedStep ==
    /\ verdict = "sent"
    /\ \A i \in DOMAIN m.pages : Whole(m.pages[i].box, m.pages[i].rotation, m.sheet)
    /\ m \in {Made(m.pageCount, m.cover, m.sheet, [i \in 1 .. m.pageCount |-> m.pages[i].rotation],
                  [i \in 1 .. m.pageCount |-> m.pages[i].box])}
    => verdict' = "accepted"
MadeAccepted == [][MadeAcceptedStep]_vars
=============================================================================
