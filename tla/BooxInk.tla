------------------------------- MODULE BooxInk ------------------------------
(***************************************************************************)
(* A stroke's journey through the BOOX: the broker writes the canonical    *)
(* strokes into a PDF (pdf_view.rs), NeoReader edits the PDF, the          *)
(* converter reads it back and compares it with a baseline (convert:       *)
(* pdf.rs, lib.rs, baseline.rs), and the broker checks and applies the     *)
(* operations (broker.rs, boox_snapshot.rs).  With Compact the companion   *)
(* records the baseline from the PDF it received and sends operations;     *)
(* without it the broker compares the returned PDF with its own state.     *)
(* The PDF shows a stroke's place, width and grey; layer and pen ("pen")   *)
(* and pressure ("press") are "own" or what the PDF makes of them.         *)
(***************************************************************************)
EXTENDS Integers, FiniteSets, TLC

CONSTANTS Compact,
          Ids,               \* stroke identities
          FreshIds,          \* those NeoReader may give to a new stroke
          None,
          Pages,             \* 0 .. n-1
          Rotation,          \* of each page
          Box,               \* of each page: [left, bottom, w, h], sides a multiple of Grid
          Points,            \* where a stroke may be: normalized coordinates in 0 .. Grid
          Grid,
          Thicknesses, Colors,
          OriginalSets,      \* annotations the immutable original may have
          MaxEdits, MaxRounds

BooxInkAssumption ==
    /\ None \notin Ids /\ FreshIds \subseteq Ids /\ Compact \in BOOLEAN
    /\ Points \subseteq (0 .. Grid) \X (0 .. Grid) /\ MaxEdits \in Nat /\ MaxRounds \in Nat

VARIABLES
    canon,         \* canonical strokes: None or [dead, snap]
    original,      \* the annotations of the immutable original
    pdf,           \* the annotations of the PDF on the BOOX
    baseline,      \* compact: [strokes, immutable], recorded before NeoReader opens the PDF
    view,          \* history: the canonical strokes the PDF was written from
    fresh,         \* history: the PDF as it was written
    operations,    \* what the converter made of the edited PDF
    phase, edits, rounds

vars == <<canon, original, pdf, baseline, view, fresh, operations, phase, edits, rounds>>

Other(page) == CHOOSE p \in Pages : p # page
Live(s) == canon[s] # None /\ ~canon[s].dead
Within(x, low, high) == IF x < low THEN low ELSE IF x > high THEN high ELSE x

-----------------------------------------------------------------------------
(* The PDF view: pdf_view.rs *)

\* PageGeometry::denormalize
Denormalize(page, at) ==
    LET b == Box[page]
        u == CASE Rotation[page] = 90 -> <<at[2], Grid - at[1]>>
               [] Rotation[page] = 180 -> <<Grid - at[1], Grid - at[2]>>
               [] Rotation[page] = 270 -> <<Grid - at[2], at[1]>>
               [] OTHER -> at
    IN <<b.left + (u[1] * b.w) \div Grid, b.bottom + ((Grid - u[2]) * b.h) \div Grid>>

\* make_ink_annotation: the width, in the thickness it will be read back as (86 .. 4000)
Width(thick) == Within(thick, 86, 4000)

\* make_ink_annotation
InkAnnotation(s, snap) ==
    [id |-> s, page |-> snap.page, at |-> Denormalize(snap.page, snap.at), thick |-> Width(snap.thick),
     color |-> snap.color, kind |-> "ink", owned |-> TRUE, shape |-> "ok"]

\* strip_canonical_ink_annotations: an identified stroke the canonical state knows, live or deleted, is its own
Retained(annots) == {a \in annots : a.id = None \/ canon[a.id] = None}

\* write_loaded_boox_view
WriteView ==
    /\ phase = "canonical"
    /\ pdf' = Retained(original) \cup {InkAnnotation(s, canon[s].snap) : s \in {t \in Ids : Live(t)}}
    /\ view' = canon /\ fresh' = pdf' /\ phase' = "written"
    /\ UNCHANGED <<canon, original, baseline, operations, edits, rounds>>

-----------------------------------------------------------------------------
(* Reading a PDF: convert/pdf.rs *)

\* PageGeometry::normalize
Normalize(page, p) ==
    LET b == Box[page]
        x == Within(((p[1] - b.left) * Grid) \div b.w, 0, Grid)
        y == Within(Grid - ((p[2] - b.bottom) * Grid) \div b.h, 0, Grid)
    IN CASE Rotation[page] = 90 -> <<Grid - y, x>>
         [] Rotation[page] = 180 -> <<Grid - x, Grid - y>>
         [] Rotation[page] = 270 -> <<y, Grid - x>>
         [] OTHER -> <<x, y>>

\* inkbridge_deletion_marker: only the broker's own annotations, in the shape NeoReader's eraser leaves
Marker(a) == a.kind = "ink" /\ a.owned /\ a.shape = "gone" /\ a.id # None

\* annotation_source_uuid: a stroke without an identity cannot be read
Extractable(a) == a.shape = "ok" /\ a.id # None

\* extract_standard_ink
InkStroke(a) ==
    [id |-> a.id, page |-> a.page, at |-> Normalize(a.page, a.at), thick |-> a.thick, color |-> a.color,
     pen |-> "pdf", press |-> "pdf", origin |-> "pdf"]

\* extract_onyx_stroke: NeoReader's own strokes carry a pressure at every point
OnyxStroke(a) == [InkStroke(a) EXCEPT !.pen = "own", !.press = "own", !.origin = "boox"]

\* extract_annotation
Stroke(a) == IF a.kind = "ink" THEN InkStroke(a) ELSE OnyxStroke(a)

\* extract_pdf_strokes: what could not be read but still says who it is
Failed(annots) == {a \in annots : ~Marker(a) /\ ~Extractable(a) /\ a.id # None}

\* extract_pdf_strokes
Extraction(annots) ==
    [strokes |-> {Stroke(a) : a \in {b \in annots : Extractable(b)}},
     incomplete |-> {a.page : a \in Failed(annots)}, failed |-> {a.id : a \in Failed(annots)},
     tombstoned |-> {a.id : a \in {b \in annots : Marker(b)}},
     brokerOwned |-> {a.id : a \in {b \in annots : Extractable(b) /\ b.owned}}]

-----------------------------------------------------------------------------
(* The compact baseline: build_document_baseline *)

\* partition_document_baseline_strokes
Partition(x) ==
    [strokes |-> {k \in x.strokes : k.id \in x.brokerOwned}, immutable |-> {k.id : k \in {j \in x.strokes : j.id \notin x.brokerOwned}}]

\* DocumentBaseline::validate, the part that can fail here
BaselineFits(b) ==
    /\ \A j, k \in b.strokes : j.id = k.id => j = k
    /\ \A k \in b.strokes : k.id \notin b.immutable

\* build_document_baseline; the BOOX cannot send operations without one
RecordBaseline ==
    /\ phase = "written" /\ Compact
    /\ LET x == Extraction(pdf) IN
       /\ baseline' = Partition(x)
       /\ phase' = IF x.failed = {} /\ BaselineFits(baseline') THEN "open" ELSE "no baseline"
    /\ UNCHANGED <<canon, original, pdf, view, fresh, operations, edits, rounds>>

\* without a baseline of its own the device sends the PDF back
OpenPdf ==
    /\ phase = "written" /\ ~Compact
    /\ phase' = "open"
    /\ UNCHANGED <<canon, original, pdf, baseline, view, fresh, operations, edits, rounds>>

-----------------------------------------------------------------------------
(* NeoReader *)

Replace(a, b) == pdf' = (pdf \ {a}) \cup {b}

Edit(a) ==
    \/ \E at \in Points \ {Normalize(a.page, a.at)} : Replace(a, [a EXCEPT !.at = Denormalize(a.page, at)])
    \/ Replace(a, [a EXCEPT !.page = Other(@), !.at = Denormalize(Other(a.page), Normalize(a.page, a.at))])
    \/ \E t \in {Width(t) : t \in Thicknesses} \ {a.thick} : Replace(a, [a EXCEPT !.thick = t])
    \/ \E c \in Colors \ {a.color} : Replace(a, [a EXCEPT !.color = c])
    \/ pdf' = pdf \ {a}
    \/ a.kind = "ink" /\ Replace(a, [a EXCEPT !.shape = "gone"])
    \/ Replace(a, [a EXCEPT !.shape = "damaged"])
    \/ Replace(a, [a EXCEPT !.shape = "damaged", !.id = None])
    \/ pdf' = pdf \cup {[a EXCEPT !.page = Other(@), !.at = Denormalize(Other(a.page), Normalize(a.page, a.at))]}

Draw ==
    \E s \in FreshIds : \E p \in Pages, at \in Points :
        /\ canon[s] = None /\ \A a \in pdf : a.id # s
        /\ pdf' = pdf \cup {[id |-> s, page |-> p, at |-> Denormalize(p, at), thick |-> 400, color |-> 0,
                             kind |-> "onyx", owned |-> FALSE, shape |-> "ok"]}

\* the owner edits the PDF: moves, restyles, erases, draws, copies; or the file comes back damaged
NeoReader ==
    /\ phase = "open" /\ edits < MaxEdits /\ edits' = edits + 1
    /\ Draw \/ \E a \in pdf : a.shape = "ok" /\ Edit(a)
    /\ UNCHANGED <<canon, original, baseline, view, fresh, operations, phase, rounds>>

-----------------------------------------------------------------------------
(* The differences: convert/lib.rs *)

Fingerprint(k) == <<k.at, k.thick, k.color, k.pen, k.press>>

\* diff_strokes, preserve_pressure_profile: what a PDF cannot hold is taken from the baseline
Adopted(after, before) ==
    IF after.origin # "pdf" THEN after
    ELSE [after EXCEPT !.pen = before.pen, !.press = IF after.thick = before.thick THEN before.press ELSE @]

\* should_infer_deletion
InferDeletion(before, active, incomplete) == before.page \notin incomplete /\ before.id \notin active

\* diff_strokes: a move to another page is a deletion and an insertion
Diff(x, base) ==
    LET Before(s) == CHOOSE k \in base : k.id = s
        known == {k.id : k \in base}
        active == x.failed \cup {k.id : k \in x.strokes}
        new == {[id |-> k.id, before |-> None, after |-> k] : k \in {j \in x.strokes : j.id \notin known}}
        changed ==
            {[id |-> k.id, before |-> Before(k.id), after |-> Adopted(k, Before(k.id))] : k \in {j \in x.strokes : j.id \in known}}
        moved == {o \in changed : o.after.page # o.before.page}
    IN [upserts |-> new \cup {[o EXCEPT !.before = None] : o \in moved}
                        \cup {o \in changed \ moved : Fingerprint(o.after) # Fingerprint(o.before)},
        deletes |-> {o.before : o \in moved}
                    \cup {k \in base : k.id \notin active /\ (k.id \in x.tombstoned \/ InferDeletion(k, active, x.incomplete))}]

\* exclude_immutable_original_annotations
Excluding(x, ids) ==
    [x EXCEPT !.strokes = {k \in @ : k.id \notin ids}, !.failed = @ \ ids, !.tombstoned = @ \ ids]

\* write_baselines: the live canonical strokes, under the origin every baseline is read back with
CanonicalBaseline == {[id |-> s] @@ [canon[s].snap EXCEPT !.origin = "supernote"] : s \in {t \in Ids : Live(t)}}

\* build_manifest_from_document_baseline, build_manifest
Convert ==
    /\ phase = "open"
    /\ operations' = IF Compact THEN Diff(Excluding(Extraction(pdf), baseline.immutable), baseline.strokes)
                     ELSE Diff(Extraction(pdf), CanonicalBaseline)
    /\ phase' = "sent"
    /\ UNCHANGED <<canon, original, pdf, baseline, view, fresh, edits, rounds>>

-----------------------------------------------------------------------------
(* The broker: broker.rs, boox_snapshot.rs *)

\* normalize_supernote_pen_color
Grey(color) == IF color = 0 THEN 0 ELSE 157
Greyed(k) == [k EXCEPT !.color = Grey(@)]

Snapshot(s) == [id |-> s] @@ Greyed(canon[s].snap)

\* boox_pdf_view_matches: the stroke as the PDF shows it
MatchesView(c, k) ==
    /\ k.origin = "pdf" /\ k.pen = "pdf" /\ c.page = k.page
    /\ k.thick = Width(c.thick) /\ k.color = Grey(c.color) /\ c.at = k.at

Matches(c, k) == c = k \/ MatchesView(c, k)

\* validate_boox_manifest: what each identity may ask for
Fits(s, ops) ==
    LET ups == {o \in ops.upserts : o.id = s}
        dels == {k \in ops.deletes : k.id = s}
        up == CHOOSE o \in ups : TRUE
        del == CHOOSE k \in dels : TRUE
    IN /\ Cardinality(ups) <= 1 /\ Cardinality(dels) <= 1
       /\ \/ ups = {} /\ dels = {}
          \/ ups = {} /\ dels # {} /\ Live(s) /\ Matches(Snapshot(s), Greyed(del))
          \/ /\ ups # {} /\ dels = {}
             /\ \/ up.before # None /\ Live(s) /\ Matches(Snapshot(s), Greyed(up.before)) /\ up.after.page = canon[s].snap.page
                \/ up.before = None /\ canon[s] = None
          \/ /\ ups # {} /\ dels # {} /\ up.before = None /\ Live(s)
             /\ Matches(Snapshot(s), Greyed(del)) /\ up.after.page # canon[s].snap.page

\* restore_native_metadata
Restored(c, before, after) ==
    [after EXCEPT !.origin = c.origin,
                  !.pen = IF @ = before.pen THEN c.pen ELSE @,
                  !.color = IF @ = before.color THEN c.color ELSE @,
                  !.thick = IF @ = before.thick THEN c.thick ELSE @,
                  !.press = IF after.thick = before.thick THEN c.press ELSE @]

\* validate_boox_manifest: the operations as they will be applied
Prepared(ops) ==
    LET Observed(o) == IF o.before # None THEN Greyed(o.before) ELSE Greyed(CHOOSE k \in ops.deletes : k.id = o.id)
        Known(o) == Live(o.id) /\ MatchesView(Snapshot(o.id), Observed(o))
    IN [ops EXCEPT !.upserts =
           {[o EXCEPT !.after = IF Known(o) THEN Restored(Snapshot(o.id), Observed(o), Greyed(@)) ELSE Greyed(@)] : o \in @}]

ApplyInOrder(ops) ==
    canon' = [s \in Ids |->
        LET ups == {o \in ops.upserts : o.id = s}
            dels == {k \in ops.deletes : k.id = s}
        IN IF dels # {} THEN [dead |-> TRUE, snap |-> IF canon[s] = None THEN CHOOSE k \in dels : TRUE ELSE canon[s].snap]
           ELSE IF ups # {} THEN [dead |-> FALSE, snap |-> LET a == (CHOOSE o \in ups : TRUE).after IN [f \in DOMAIN a \ {"id"} |-> a[f]]]
           ELSE canon[s]]

\* apply_manifest: deletions that no insertion follows, then the insertions
ApplyOps(ops) ==
    \E pick \in [{o.id : o \in ops.upserts} -> ops.upserts] :
        /\ \A s \in DOMAIN pick : pick[s].id = s
        /\ canon' = [s \in Ids |->
               IF s \in DOMAIN pick THEN [dead |-> FALSE, snap |-> [f \in DOMAIN pick[s].after \ {"id"} |-> pick[s].after[f]]]
               ELSE IF \E k \in ops.deletes : k.id = s THEN [canon[s] EXCEPT !.dead = TRUE]
               ELSE canon[s]]

\* BrokerService::process_event
Accept ==
    /\ phase = "sent" /\ (Compact => \A s \in Ids : Fits(s, operations))
    /\ ApplyOps(IF Compact THEN Prepared(operations) ELSE operations)
    /\ phase' = "applied"
    /\ UNCHANGED <<original, pdf, baseline, view, fresh, operations, edits, rounds>>

Refuse ==
    /\ phase = "sent" /\ Compact /\ \E s \in Ids : ~Fits(s, operations)
    /\ phase' = "refused"
    /\ UNCHANGED <<canon, original, pdf, baseline, view, fresh, operations, edits, rounds>>

\* the next view is written from the new state
NextRound ==
    /\ phase \in {"applied", "refused"} /\ rounds < MaxRounds /\ rounds' = rounds + 1
    /\ phase' = "canonical" /\ edits' = 0
    /\ UNCHANGED <<canon, original, pdf, baseline, view, fresh, operations>>

Done == phase \in {"applied", "refused", "no baseline"} /\ UNCHANGED vars

-----------------------------------------------------------------------------
NativeStrokes ==
    {[page |-> p, at |-> at, thick |-> t, color |-> c, pen |-> "own", press |-> "own", origin |-> "supernote"] :
        p \in Pages, at \in Points, t \in Thicknesses, c \in Colors}

Init ==
    /\ canon \in [Ids -> {None} \cup [dead : BOOLEAN, snap : NativeStrokes]]
    /\ \A s \in FreshIds : canon[s] = None
    /\ original \in OriginalSets
    /\ pdf = {} /\ view = canon /\ fresh = {} /\ baseline = [strokes |-> {}, immutable |-> {}]
    /\ operations = [upserts |-> {}, deletes |-> {}]
    /\ phase = "canonical" /\ edits = 0 /\ rounds = 1

Next == WriteView \/ RecordBaseline \/ OpenPdf \/ NeoReader \/ Convert \/ Accept \/ Refuse \/ NextRound \/ Done

Spec == Init /\ [][Next]_vars

-----------------------------------------------------------------------------
(* Properties *)

TypeOK ==
    /\ canon \in [Ids -> {None} \cup [dead : BOOLEAN, snap : [page : Pages, at : (0 .. Grid) \X (0 .. Grid), thick : Nat, color : Colors \cup {0, 157},
                                                              pen : {"own", "pdf"}, press : {"own", "pdf"}, origin : {"supernote", "boox", "pdf"}]]]
    /\ phase \in {"canonical", "written", "open", "no baseline", "sent", "applied", "refused"}
    /\ \A a \in pdf : a.page \in Pages /\ a.shape \in {"ok", "gone", "damaged"}

Here(s) == {a \in pdf : a.id = s}
WasLive(s) == view[s] # None /\ ~view[s].dead
Intact(s) == \E a \in pdf : Here(s) = {a} /\ a.shape = "ok"
TheOne(s) == CHOOSE a \in pdf : Here(s) = {a}

\* A stroke that comes back readable is where and how NeoReader shows it.
EditsArrive ==
    phase = "applied" => \A s \in Ids : Intact(s) /\ (Compact => s \notin baseline.immutable) =>
        LET a == TheOne(s) IN
        /\ Live(s) /\ canon[s].snap.page = a.page /\ canon[s].snap.at = Normalize(a.page, a.at)
        /\ Width(canon[s].snap.thick) = a.thick /\ Grey(canon[s].snap.color) = Grey(a.color)

\* What a PDF cannot hold survives the journey: layer and pen always, pressure unless the width
\* was changed on the BOOX.
NativeSurvives ==
    phase = "applied" => \A s \in Ids : WasLive(s) /\ Intact(s) =>
        /\ canon[s].snap.pen = view[s].snap.pen
        /\ TheOne(s).thick = Width(view[s].snap.thick) => canon[s].snap.press = view[s].snap.press /\ canon[s].snap.thick = view[s].snap.thick

\* A stroke whose damaged or duplicated annotation still names it is not deleted.
NamedIsNeverDeleted ==
    phase = "applied" => \A s \in Ids : WasLive(s) /\ (\E a \in Here(s) : a.shape # "gone") => Live(s)

\* A stroke erased in NeoReader is deleted, unless its page could not be read; erased with the
\* marker it is deleted even then.
ErasedIsDeleted ==
    phase = "applied" => \A s \in Ids : WasLive(s) =>
        /\ Here(s) # {} /\ (\A a \in Here(s) : a.shape = "gone") => ~Live(s)
        /\ Here(s) = {} /\ (\A a \in pdf : a.page = view[s].snap.page => a.shape = "ok") => ~Live(s)

\* Opening and closing the document changes nothing.
NoPhantomEdits == phase = "sent" /\ pdf = fresh => operations = [upserts |-> {}, deletes |-> {}]

\* The original's own annotations never become canonical strokes.
OriginalStaysOut ==
    Compact => \A a \in original : a.id # None /\ view[a.id] = None => canon[a.id] = None

\* The broker refuses a companion's operations only when the PDF names a stroke twice.
RefusedOnlyIfAmbiguous == phase = "refused" => \E s \in Ids : Cardinality({a \in Here(s) : a.shape = "ok"}) > 1
=============================================================================
