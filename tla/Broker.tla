------------------------------- MODULE Broker -------------------------------
(***************************************************************************)
(* The broker core of one registered document: Broker::process and         *)
(* Broker::resolve_conflict over the canonical state, the at-least-once    *)
(* unordered event delivery in front of them, and the two devices whose    *)
(* exports they reconcile.                                                 *)
(*   inkbridge-broker/src/{broker,conflict,model}.rs                       *)
(*   inkbridge-cloud-runtime/src/runtime.rs (acknowledgements)             *)
(*                                                                         *)
(* One action is one committed broker call: module Outbox shows that every *)
(* commit extends exactly the state it was computed from.  A stroke        *)
(* snapshot is the number of the export that drew it, 0 where the stroke   *)
(* is absent; a stroke stays on one page, so that a manifest holds at most *)
(* one operation per stroke.  Uploads are immutable objects, hence always  *)
(* readable at their generation.                                           *)
(***************************************************************************)
EXTENDS Integers, Sequences, FiniteSets

CONSTANTS
    Strokes,
    PageOf,         \* stroke -> its page
    BooxKind,       \* "view" (full PDF) or "manifest" (compact operations)
    Pipelined,      \* a device exports again before its last export settles
    Retries,        \* the exports after which a device may crash before its checkpoint
    MaxUploads,     \* bound on exports
    None

Boox == "boox"
Supernote == "supernote"
Sides == {Boox, Supernote}
Other(side) == IF side = Boox THEN Supernote ELSE Boox
Strategies == {"keep_current", "accept_incoming", "merge_preserving_current"}

Ids == 1..MaxUploads
Contents == [Strokes -> 0..MaxUploads]
RevisionPairs == [Sides -> Nat]
StorageEvents == [source : Sides, rev : Nat, basedOn : RevisionPairs,
                  base : Contents, content : Contents]
CanonicalStrokes == [snapshot : Ids, by : Sides, revs : RevisionPairs, dead : BOOLEAN]
ResolutionRecords == [id : Ids, strategy : Strategies, superseded : BOOLEAN,
                      result : RevisionPairs, preserved : SUBSET Strokes]
Documents == [rev : RevisionPairs,                    \* device frontiers
              accepted : [Sides -> 0..MaxUploads],    \* export behind content_sha256
              strokes : [Strokes -> CanonicalStrokes \cup {None}],
              processed : SUBSET Ids, conflicts : SUBSET Ids,
              resolved : SUBSET ResolutionRecords, stateRev : Nat]
Devices == [own : Nat, peer : Nat, base : Contents, local : Contents, synced : BOOLEAN]
Analyses == [stateRev : Nat, revs : RevisionPairs, safe : SUBSET Strokes]

BrokerAssumption ==
    /\ IsFiniteSet(Strokes)
    /\ BooxKind \in {"view", "manifest"}
    /\ Pipelined \in BOOLEAN /\ Retries \subseteq Nat
    /\ MaxUploads \in Nat
    /\ None \notin CanonicalStrokes \cup Analyses \cup (0..MaxUploads)

VARIABLES
    doc,         \* CanonicalDocumentState
    uploads,     \* device exports; an export's event id is its index
    unacked,     \* events Eventarc will still deliver
    echoes,      \* events raised by the broker's own outputs, undelivered
    dev,         \* the devices: own and peer revision, exported and local strokes,
                 \* whether the outputs since the last export are installed
    analysis,    \* conflict -> its last analysis in an operator's hands
    consumed     \* history: exports whose revision the frontier took over

vars == <<doc, uploads, unacked, echoes, dev, analysis, consumed>>

-----------------------------------------------------------------------------
(* Reading the canonical state. *)

Active(strokes) ==
    [s \in Strokes |-> IF strokes[s] = None THEN 0
                       ELSE IF strokes[s].dead THEN 0 ELSE strokes[s].snapshot]
Empty == [s \in Strokes |-> 0]
Zero == [side \in Sides |-> 0]

Incremental(e) == e.source = Supernote \/ BooxKind = "manifest"

(* A Supernote export replaces the pages it covers. *)
Changed(e) == {s \in Strokes : e.base[s] # e.content[s]}
OnPages(e) == {s \in Strokes : \E t \in Changed(e) : PageOf[s] = PageOf[t]}

(* What content_sha256 tells apart. *)
Bytes(e) ==
    CASE e.source = Supernote -> [s \in OnPages(e) |-> e.content[s]]
      [] e.source = Boox /\ BooxKind = "view" -> e.content
      [] OTHER -> [s \in Changed(e) |-> <<e.base[s], e.content[s]>>]

(* The before-image of a proposed operation: recorded in a compact manifest,
   otherwise read from the canonical state the payload is compared with. *)
Before(e, strokes) ==
    IF e.source = Boox /\ BooxKind = "manifest" THEN e.base ELSE Active(strokes)

(* The strokes a payload proposes to change. *)
Proposed(e, strokes) ==
    CASE e.source = Supernote ->
           {s \in OnPages(e) : Active(strokes)[s] # e.content[s]}
      [] e.source = Boox /\ BooxKind = "view" ->
           {s \in Strokes : Active(strokes)[s] # e.content[s]}
      [] OTHER -> Changed(e)

(* apply_manifest and apply_supernote_export: tombstone or insert. *)
ApplyOperations(strokes, ops, content, source, revs) ==
    [s \in Strokes |->
        IF s \notin ops THEN strokes[s]
        ELSE [snapshot |-> IF content[s] = 0 THEN strokes[s].snapshot ELSE content[s],
              by |-> source, revs |-> revs, dead |-> content[s] = 0]]

(* An applied Supernote export re-inserts the unchanged strokes of its pages. *)
Applied(e, strokes) ==
    IF e.source = Supernote
    THEN {s \in OnPages(e) : e.content[s] # 0 \/ Active(strokes)[s] # 0}
    ELSE Proposed(e, strokes)

(* validate_boox_manifest: every operation matches the active canonical
   stroke, and an added stroke is new to the document. *)
ValidInput(e) ==
    (e.source = Boox /\ BooxKind = "manifest") =>
        \A s \in Changed(e) :
            IF e.base[s] = 0 THEN doc.strokes[s] = None
            ELSE Active(doc.strokes)[s] = e.base[s]

(* validate_conflict_boox_manifest: a preserved manifest may disagree with the
   canonical strokes but not name one the document has never had. *)
ValidProposal(e) ==
    (e.source = Boox /\ BooxKind = "manifest") =>
        \A s \in Changed(e) : e.base[s] # 0 => doc.strokes[s] # None

-----------------------------------------------------------------------------
Init ==
    /\ doc = [rev |-> Zero, accepted |-> Zero, strokes |-> [s \in Strokes |-> None], processed |-> {},
              conflicts |-> {}, resolved |-> {}, stateRev |-> 0]
    /\ uploads = <<>> /\ unacked = {} /\ echoes = 0
    /\ dev = [side \in Sides |-> [own |-> 0, peer |-> 0, base |-> Empty, local |-> Empty,
                               synced |-> TRUE]]
    /\ analysis = [n \in Ids |-> None] /\ consumed = {}

-----------------------------------------------------------------------------
(* The devices. *)

Exports(side) == {n \in DOMAIN uploads : uploads[n].source = side}
Unrecorded(side) == {n \in Exports(side) : uploads[n].rev > dev[side].own}
ActiveConflicts(side) == {n \in doc.conflicts : uploads[n].source = side}

(* Everything the device exported is part of the frontier it sees. *)
Settled(side) ==
    /\ Unrecorded(side) = {}
    /\ doc.rev[side] = dev[side].own
    /\ Exports(side) \cap unacked = {}
    /\ ActiveConflicts(side) = {}

(* A device edits some of its strokes, uploads the result under the revision
   after its last checkpointed one and checkpoints the upload, unless it dies in
   between.  A stroke id is new or already on the device.  Without edits the
   upload repeats the bytes of the one that was not checkpointed. *)
Export(side, edited, erased, dies) ==
    LET id == Len(uploads) + 1
        d == dev[side]
        content == [s \in Strokes |-> IF s \in erased THEN 0
                                      ELSE IF s \in edited THEN id ELSE d.local[s]]
        basedOn == [x \in Sides |-> IF x = side THEN d.own ELSE d.peer]
    IN  /\ Len(uploads) < MaxUploads
        /\ \/ Pipelined \/ Unrecorded(side) # {}
           \/ d.synced /\ Settled(side) /\ doc.conflicts = {}
        /\ dies => id \in Retries
        /\ \A s \in erased : d.local[s] # 0
        /\ \A s \in edited : d.local[s] # 0 \/ \A n \in DOMAIN uploads : uploads[n].content[s] = 0
        /\ edited = {} => Unrecorded(side) # {}
        /\ content # d.base
        /\ uploads' = Append(uploads, [source |-> side, rev |-> d.own + 1,
                                       basedOn |-> basedOn, base |-> d.base,
                                       content |-> content])
        /\ unacked' = unacked \cup {id}
        /\ dev' = [dev EXCEPT ![side] =
                     IF dies THEN [d EXCEPT !.local = content]
                     ELSE [d EXCEPT !.own = @ + 1, !.base = content, !.local = content,
                                    !.synced = FALSE]]
        /\ UNCHANGED <<doc, echoes, analysis, consumed>>

(* The retry finds its object in place and checkpoints it. *)
Record(side) ==
    /\ Unrecorded(side) # {}
    /\ dev' = [dev EXCEPT ![side] = [dev[side] EXCEPT !.own = @ + 1, !.base = dev[side].local,
                                                      !.synced = FALSE]]
    /\ UNCHANGED <<doc, uploads, unacked, echoes, analysis, consumed>>

(* The device installs the broker's outputs.  How they travel is the folder
   transport's business; a device whose exports have all settled ends up with
   the active canonical strokes. *)
Sync(side) ==
    /\ Settled(side)
    /\ dev' = [dev EXCEPT ![side].peer = doc.rev[Other(side)],
                          ![side].base = Active(doc.strokes),
                          ![side].local = Active(doc.strokes),
                          ![side].synced = TRUE]
    /\ UNCHANGED <<doc, uploads, unacked, echoes, analysis, consumed>>

-----------------------------------------------------------------------------
(* Broker::process. *)

Late(e) == e.rev <= doc.rev[e.source]
SameBytes(e) == Bytes(e) = Bytes(uploads[doc.accepted[e.source]])

FollowsPreserved(e) ==
    /\ e.rev > doc.rev[e.source] + 1
    /\ e.basedOn[e.source] = e.rev - 1
    /\ \E m \in ActiveConflicts(e.source) : uploads[m].rev = e.rev - 1

InOrder(e) == e.rev = doc.rev[e.source] + 1 \/ FollowsPreserved(e)

(* Eventarc delivers an event until it sees a 2xx response, which may get lost. *)
Deliver(n) == n \in unacked
Acknowledge(n) == unacked' \in {unacked, unacked \ {n}}
Fresh(n) == Deliver(n) /\ n \notin doc.processed

Duplicate(n) ==
    /\ Deliver(n) /\ n \in doc.processed
    /\ Acknowledge(n)
    /\ UNCHANGED <<doc, uploads, echoes, dev, analysis, consumed>>

(* Mutant: a late export is ignored whatever its bytes. *)
IgnoreStale_AnyBytes(n) ==
    /\ Fresh(n) /\ Late(uploads[n])
    /\ doc' = [doc EXCEPT !.processed = @ \cup {n}, !.stateRev = @ + 1]
    /\ Acknowledge(n)
    /\ UNCHANGED <<uploads, echoes, dev, analysis, consumed>>

(* mark_event_only: the bytes of the accepted revision again. *)
IgnoreStale(n) ==
    /\ Fresh(n) /\ Late(uploads[n]) /\ SameBytes(uploads[n])
    /\ doc' = [doc EXCEPT !.processed = @ \cup {n}, !.stateRev = @ + 1]
    /\ Acknowledge(n)
    /\ UNCHANGED <<uploads, echoes, dev, analysis, consumed>>

(* preserve_conflict: a late export with other bytes, or one that did not see
   the current frontier. *)
PreserveConflict(n) ==
    LET e == uploads[n]
    IN  /\ Fresh(n)
        /\ IF Late(e) THEN ~SameBytes(e) ELSE InOrder(e) /\ e.basedOn # doc.rev
        /\ doc' = [doc EXCEPT !.conflicts = @ \cup {n}, !.processed = @ \cup {n},
                              !.stateRev = @ + 1]
        /\ Acknowledge(n)
        /\ UNCHANGED <<uploads, echoes, dev, analysis, consumed>>

(* Mutant: only the source's own frontier is compared. *)
Apply_OwnFrontier(n) ==
    LET e == uploads[n]
        revs == [doc.rev EXCEPT ![e.source] = e.rev]
    IN  /\ Fresh(n)
        /\ ~Late(e) /\ InOrder(e) /\ e.basedOn[e.source] = doc.rev[e.source] /\ ValidInput(e)
        /\ doc' = [doc EXCEPT
             !.strokes = ApplyOperations(@, Applied(e, @), e.content, e.source, revs),
             !.rev = revs, !.accepted = [@ EXCEPT ![e.source] = n],
             !.processed = @ \cup {n}, !.stateRev = @ + 1]
        /\ consumed' = consumed \cup {n}
        /\ echoes' = echoes + 1
        /\ Acknowledge(n)
        /\ UNCHANGED <<uploads, dev, analysis>>

Apply(n) ==
    LET e == uploads[n]
        revs == [doc.rev EXCEPT ![e.source] = e.rev]
    IN  /\ Fresh(n)
        /\ ~Late(e) /\ InOrder(e) /\ e.basedOn = doc.rev /\ ValidInput(e)
        /\ doc' = [doc EXCEPT
             !.strokes = ApplyOperations(@, Applied(e, @), e.content, e.source, revs),
             !.rev = revs, !.accepted = [@ EXCEPT ![e.source] = n],
             !.processed = @ \cup {n}, !.stateRev = @ + 1]
        /\ consumed' = consumed \cup {n}
        /\ echoes' = echoes + 1
        /\ Acknowledge(n)
        /\ UNCHANGED <<uploads, dev, analysis>>

(* InvalidEvent: the runtime logs a permanent rejection and answers 200. *)
Reject(n) ==
    LET e == uploads[n]
    IN  /\ Fresh(n)
        /\ ~Late(e) /\ (~InOrder(e) \/ (e.basedOn = doc.rev /\ ~ValidInput(e)))
        /\ Acknowledge(n)
        /\ UNCHANGED <<doc, uploads, echoes, dev, analysis, consumed>>

(* An event raised by one of the broker's own outputs: recorded, not applied. *)
IgnoreBrokerOutput ==
    /\ echoes > 0
    /\ echoes' = echoes - 1
    /\ doc' = [doc EXCEPT !.stateRev = @ + 1]
    /\ UNCHANGED <<uploads, unacked, dev, analysis, consumed>>

-----------------------------------------------------------------------------
(* Conflict resolution. *)

ChangedAfter(revs, base) == \E side \in Sides : revs[side] > base[side]

(* Mutant: earlier decisions are forgotten. *)
InheritedRejectedChange_Forgotten(e, s) == FALSE

(* A stroke on which an earlier resolution turned this device down, and which
   has not changed since. *)
InheritedRejectedChange(e, s) ==
    \E r \in doc.resolved :
        /\ uploads[r.id].source = e.source
        /\ r.result[e.source] <= e.basedOn[e.source]
        /\ doc.strokes[s] # None => doc.strokes[s].revs[e.source] <= r.result[e.source]
        /\ s \in r.preserved

(* classify_operations: the stroke has not changed since the export's base, and
   the operation starts from its current value. *)
SafeChange(e, s) ==
    LET before == Before(e, doc.strokes)[s]
        stroke == doc.strokes[s]
    IN  /\ IF before = 0 THEN stroke = None
           ELSE stroke # None /\ ~stroke.dead /\ ~ChangedAfter(stroke.revs, e.basedOn)
        /\ ~InheritedRejectedChange(e, s)
        /\ IF stroke = None THEN before = 0 ELSE before = stroke.snapshot

SafeChanges(e) == {s \in Proposed(e, doc.strokes) : SafeChange(e, s)}

(* Mutant: conflicts may be resolved in any order. *)
ResolutionOrder_Any(n) == TRUE

(* ensure_incremental_conflict_resolution_order *)
ResolutionOrder(n) ==
    LET e == uploads[n]
    IN  Incremental(e) =>
          /\ \A m \in ActiveConflicts(e.source) : uploads[m].rev >= e.rev
          /\ e.rev > doc.rev[e.source] => doc.rev[e.source] = e.basedOn[e.source]

(* list_conflicts and inspect_conflict: the preconditions of a decision and,
   where the payload can be analysed, its safe changes. *)
Inspect(n) ==
    /\ n \in doc.conflicts
    /\ analysis' = [analysis EXCEPT ![n] =
         [stateRev |-> doc.stateRev, revs |-> doc.rev,
          safe |-> IF ValidProposal(uploads[n]) THEN SafeChanges(uploads[n]) ELSE {}]]
    /\ UNCHANGED <<doc, uploads, unacked, echoes, dev, consumed>>

(* Mutant: the state revision is not compared, nor the frontier. *)
Current_AnyRevision(n) == n \in doc.conflicts /\ analysis[n] # None

(* The operator's decision still refers to the state it was made for. *)
Current(n) ==
    /\ n \in doc.conflicts /\ analysis[n] # None
    /\ analysis[n].stateRev = doc.stateRev /\ analysis[n].revs = doc.rev

Selected(e, strategy) ==
    CASE strategy = "keep_current" -> {}
      [] strategy = "accept_incoming" -> Proposed(e, doc.strokes)
      [] OTHER -> SafeChanges(e)

(* The Supernote manifest of a resolution: from what the canonical state or the
   conflicting export says the device holds to the resulting strokes. *)
Corrections(e, strokes) ==
    {s \in Strokes :
        (IF e.source = Supernote /\ s \in OnPages(e) THEN e.content[s]
         ELSE Active(doc.strokes)[s]) # Active(strokes)[s]}

(* resolve_conflict: apply the selected operations on top of the current state
   and let the frontier consume the preserved revision.  The analysis of a
   decided conflict is of no further use. *)
ResolveConflict(n, strategy) ==
    LET e == uploads[n]
        advances == e.rev > doc.rev[e.source]
        selected == Selected(e, strategy)
        revs == [doc.rev EXCEPT ![e.source] = e.rev]
        strokes == ApplyOperations(doc.strokes, selected, e.content, e.source, revs)
    IN  /\ Current(n)
        /\ e.rev >= doc.rev[e.source]
        /\ advances \/ strategy = "keep_current"
        /\ ResolutionOrder(n) /\ ValidProposal(e)
        /\ doc' = [doc EXCEPT
             !.strokes = strokes,
             !.rev = revs,
             !.accepted = IF advances THEN [@ EXCEPT ![e.source] = n] ELSE @,
             !.conflicts = @ \ {n},
             !.resolved = @ \cup {[id |-> n, strategy |-> strategy, superseded |-> FALSE,
                                   result |-> revs,
                                   preserved |-> Proposed(e, doc.strokes) \ selected]},
             !.stateRev = @ + 1]
        /\ consumed' = IF advances THEN consumed \cup {n} ELSE consumed
        /\ echoes' = echoes + IF Corrections(e, strokes) = {} THEN 1 ELSE 2
        /\ analysis' = [analysis EXCEPT ![n] = None]
        /\ UNCHANGED <<uploads, unacked, dev>>

(* supersede_conflict: the frontier has moved past the preserved revision. *)
SupersedeConflict(n, strategy) ==
    LET e == uploads[n]
    IN  /\ Current(n)
        /\ e.rev < doc.rev[e.source]
        /\ doc' = [doc EXCEPT
             !.conflicts = @ \ {n},
             !.resolved = @ \cup {[id |-> n, strategy |-> strategy, superseded |-> TRUE,
                                   result |-> doc.rev, preserved |-> {}]},
             !.stateRev = @ + 1]
        /\ analysis' = [analysis EXCEPT ![n] = None]
        /\ UNCHANGED <<uploads, unacked, echoes, dev, consumed>>

Process(n) ==
    \/ Duplicate(n) \/ IgnoreStale(n) \/ PreserveConflict(n) \/ Apply(n) \/ Reject(n)

Next ==
    \/ \E side \in Sides, edited \in SUBSET Strokes :
         \E erased \in SUBSET edited, dies \in BOOLEAN : Export(side, edited, erased, dies)
    \/ \E side \in Sides : Record(side) \/ Sync(side)
    \/ \E n \in DOMAIN uploads : Process(n) \/ Inspect(n)
    \/ IgnoreBrokerOutput
    \/ \E n \in DOMAIN uploads, strategy \in Strategies :
         ResolveConflict(n, strategy) \/ SupersedeConflict(n, strategy)

Spec == Init /\ [][Next]_vars

-----------------------------------------------------------------------------
(* Type invariant. *)
TypeOK ==
    /\ doc \in Documents
    /\ uploads \in Seq(StorageEvents) /\ Len(uploads) <= MaxUploads
    /\ unacked \subseteq DOMAIN uploads
    /\ echoes \in Nat
    /\ dev \in [Sides -> Devices]
    /\ analysis \in [Ids -> Analyses \cup {None}]
    /\ consumed \subseteq DOMAIN uploads

(* "It preserves both inputs": whatever is redelivered, delayed or resolved, a
   processed export became canonical, is an active or decided conflict, or
   repeats the bytes of an export that became canonical. *)
EvidenceAccounted ==
    \A n \in doc.processed :
        \/ n \in consumed \cup doc.conflicts
        \/ \E r \in doc.resolved : r.id = n
        \/ \E m \in consumed : /\ uploads[m].source = uploads[n].source
                               /\ Bytes(uploads[m]) = Bytes(uploads[n])

(* A conflict is decided once: a redelivered event never reopens it and a second
   decision never replaces the first. *)
DecidedOnce ==
    /\ \A r \in doc.resolved : r.id \notin doc.conflicts
    /\ \A r, q \in doc.resolved : r.id = q.id => r = q

(* Both at once: an export Eventarc may still redeliver is neither lost nor decided
   a second time. *)
NothingLost == EvidenceAccounted /\ DecidedOnce

(* "preventing a later page or operation delta from silently superseding an
   earlier one": every revision below the frontier of an incremental source
   became canonical through its own export. *)
NoRevisionSkipped ==
    \A side \in Sides : (side = Supernote \/ BooxKind = "manifest") =>
        \A r \in 1..doc.rev[side] :
            \E n \in consumed : uploads[n].source = side /\ uploads[n].rev = r

(* Export m started from the stroke as it is now, knowing the other device's
   revision that made it so. *)
Saw(m, s) ==
    LET other == Other(uploads[m].source)
    IN  /\ uploads[m].base[s] = Active(doc.strokes)[s]
        /\ doc.strokes[s].revs[other] <= uploads[m].basedOn[other]

(* The stroke is what the other device made of it, and the device behind export n
   had not seen that when it made n or any export before. *)
Unseen(n, s) ==
    /\ doc.strokes[s] # None /\ doc.strokes[s].by # uploads[n].source
    /\ \A m \in 1..n : uploads[m].source = uploads[n].source => ~Saw(m, s)

MergedBy(n) ==
    \E r \in doc'.resolved : r.id = n /\ r.strategy = "merge_preserving_current"

(* Neither an accepted export nor merge_preserving_current overwrites, erases or
   brings back a stroke whose current state its device had not seen. *)
NoUnseenOverwriteStep ==
    \A n \in consumed' \ consumed : (n \in doc.conflicts => MergedBy(n)) =>
       \A s \in Strokes : Unseen(n, s) =>
          Active(doc'.strokes)[s] = Active(doc.strokes)[s]

(* An earlier decision on this device's input kept the stroke as it is, no later
   revision of the device has been accepted on it, and the device behind e had
   not seen that. *)
TurnedDown(e, s) ==
    /\ Active(doc.strokes)[s] # e.base[s]
    /\ \E r \in doc.resolved :
          /\ uploads[r.id].source = e.source
          /\ uploads[r.id].rev < e.rev
          /\ doc.strokes[s] # None => doc.strokes[s].revs[e.source] <= uploads[r.id].rev
          /\ s \in r.preserved

(* "later same page Supernote conflict does not reintroduce rejected ink": a
   merge leaves alone the strokes an earlier decision turned down. *)
NoRejectedRevivalStep ==
    \A n \in consumed' \ consumed : (n \in doc.conflicts /\ MergedBy(n)) =>
       \A s \in Strokes : TurnedDown(uploads[n], s) =>
          Active(doc'.strokes)[s] = Active(doc.strokes)[s]

(* What is accepted overwrites no stroke change its device had not seen, and ink
   an operator rejected does not come back through a later link of its chain. *)
UnseenInkStands == [][NoUnseenOverwriteStep /\ NoRejectedRevivalStep]_vars

(* "a later update cannot be overwritten using stale analysis": a merge changes
   exactly the strokes the operator was shown as safe. *)
MergesAsAnalysedStep ==
    \A r \in doc'.resolved \ doc.resolved :
       (r.strategy = "merge_preserving_current" /\ ~r.superseded) =>
          {s \in Strokes : doc'.strokes[s] # doc.strokes[s]} =
          analysis[r.id].safe
MergesAsAnalysed == [][MergesAsAnalysedStep]_vars

(* Conflicts never wait for each other: some active conflict can always be
   decided, at least by keep_current. *)
SomeConflictResolvable ==
    doc.conflicts # {} =>
        \E n \in doc.conflicts :
            \/ uploads[n].rev < doc.rev[uploads[n].source]
            \/ ValidProposal(uploads[n]) /\ ResolutionOrder(n)

(* An export whose event has been acknowledged has been processed. *)
AckedIsProcessed == \A n \in DOMAIN uploads : n \in doc.processed \cup unacked
=============================================================================
