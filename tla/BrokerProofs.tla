---------------------------- MODULE BrokerProofs ----------------------------
(***************************************************************************)
(* Machine-checked theorems about Broker, for any strokes, pages, number   *)
(* of exports and either kind of BOOX payload: type correctness, that no   *)
(* processed export is lost and no conflict decided twice                  *)
(* (EvidenceAccounted, DecidedOnce), that an incremental frontier skips no *)
(* revision (NoRevisionSkipped), and that a merge changes exactly what the *)
(* operator was shown (MergesAsAnalysed), and that no decision overwrites  *)
(* a stroke its device had not started from (UnseenInkStands).             *)
(*                                                                         *)
(* The inductive invariant IInv adds what these rest on: an export is the  *)
(* successor of its own device's base revision, a frontier that has moved  *)
(* names the export behind it, no stroke is newer than the frontier, and   *)
(* an analysis of the current state revision is an analysis of the current *)
(* state.                                                                  *)
(***************************************************************************)
EXTENDS Broker, TLAPS

(* An export continues the revision its own device had checkpointed. *)
UploadsOK ==
    \A n \in DOMAIN uploads :
        /\ uploads[n].rev >= 1
        /\ uploads[n].basedOn[uploads[n].source] = uploads[n].rev - 1

(* Only received exports are processed, preserved or decided. *)
ProcessedOK ==
    /\ doc.processed \subseteq DOMAIN uploads
    /\ doc.conflicts \subseteq doc.processed
    /\ \A r \in doc.resolved : r.id \in doc.processed

(* A frontier that has moved names the export it took over. *)
AcceptedOK ==
    \A side \in Sides : doc.rev[side] > 0 =>
        /\ doc.accepted[side] \in consumed
        /\ uploads[doc.accepted[side]].source = side

(* No stroke is newer than the frontier. *)
StrokesOK ==
    \A s \in Strokes : doc.strokes[s] # None =>
        \A side \in Sides : doc.strokes[s].revs[side] <= doc.rev[side]

(* inspect_conflict on the current state. *)
Safe(n) == IF ValidProposal(uploads[n]) THEN SafeChanges(uploads[n]) ELSE {}

(* An analysis that carries the current state revision is of the current state. *)
AnalysesOK ==
    \A n \in Ids : analysis[n] # None =>
        /\ n \in DOMAIN uploads
        /\ analysis[n].stateRev <= doc.stateRev
        /\ analysis[n].stateRev = doc.stateRev => analysis[n].safe = Safe(n)

IInv ==
    /\ TypeOK
    /\ UploadsOK /\ ProcessedOK /\ AcceptedOK /\ StrokesOK /\ AnalysesOK
    /\ EvidenceAccounted /\ DecidedOnce /\ NoRevisionSkipped

-----------------------------------------------------------------------------
(* Types of the operators. *)

(* The fields of a stored document. *)
LEMMA DocType ==
    ASSUME TypeOK
    PROVE  /\ doc.rev \in [Sides -> Nat] /\ doc.accepted \in [Sides -> 0..MaxUploads]
           /\ doc.strokes \in [Strokes -> CanonicalStrokes \cup {None}]
           /\ doc.processed \subseteq Ids /\ doc.conflicts \subseteq Ids
           /\ doc.resolved \subseteq ResolutionRecords /\ doc.stateRev \in Nat
  BY DEF TypeOK, Documents, RevisionPairs

(* The fields of an export, and its place. *)
LEMMA UploadType ==
    ASSUME BrokerAssumption, TypeOK, NEW n \in DOMAIN uploads
    PROVE  /\ uploads[n] \in StorageEvents /\ n \in Ids /\ n \in 1..Len(uploads)
           /\ uploads[n].source \in Sides /\ uploads[n].rev \in Nat
           /\ uploads[n].basedOn \in [Sides -> Nat]
           /\ uploads[n].base \in [Strokes -> 0..MaxUploads]
           /\ uploads[n].content \in [Strokes -> 0..MaxUploads]
<1>1. n \in 1..Len(uploads) /\ Len(uploads) \in Nat /\ Len(uploads) <= MaxUploads /\ MaxUploads \in Nat
  BY DEF TypeOK, BrokerAssumption
<1>2. n \in Ids
  BY <1>1 DEF Ids
<1>3. uploads[n] \in StorageEvents
  BY <1>1 DEF TypeOK
<1> QED
  BY <1>1, <1>2, <1>3 DEF StorageEvents, RevisionPairs, Contents

(* The active strokes are a content. *)
LEMMA ActiveType ==
    ASSUME BrokerAssumption, NEW strokes \in [Strokes -> CanonicalStrokes \cup {None}]
    PROVE  /\ Active(strokes) \in Contents
           /\ \A s \in Strokes : Active(strokes)[s] # 0 => strokes[s] # None
  BY DEF Active, Contents, CanonicalStrokes, Ids, BrokerAssumption

(* The operations erase only strokes the document has. *)
Erasable(strokes, ops, content) ==
    \A s \in Strokes : s \in ops /\ content[s] = 0 => strokes[s] # None

(* Exactly the strokes of ops are new, and they carry revs. *)
Rewritten(result, strokes, ops, revs) ==
    /\ result \in [Strokes -> CanonicalStrokes \cup {None}]
    /\ \A s \in Strokes : s \in ops => result[s] \in CanonicalStrokes /\ result[s].revs = revs
    /\ \A s \in Strokes : s \notin ops => result[s] = strokes[s]

(* Applying such operations. *)
LEMMA ApplyType ==
    ASSUME BrokerAssumption, NEW strokes \in [Strokes -> CanonicalStrokes \cup {None}],
           NEW ops, NEW content \in [Strokes -> 0..MaxUploads], NEW source \in Sides,
           NEW revs \in RevisionPairs, Erasable(strokes, ops, content)
    PROVE  Rewritten(ApplyOperations(strokes, ops, content, source, revs), strokes, ops, revs)
<1> DEFINE new(s) == [snapshot |-> IF content[s] = 0 THEN strokes[s].snapshot ELSE content[s],
                      by |-> source, revs |-> revs, dead |-> content[s] = 0]
           result == ApplyOperations(strokes, ops, content, source, revs)
<1>1. ASSUME NEW s \in Strokes, s \in ops PROVE new(s) \in CanonicalStrokes /\ new(s).revs = revs
  <2>1. content[s] = 0 => strokes[s].snapshot \in Ids
    BY <1>1 DEF CanonicalStrokes, Erasable
  <2>2. content[s] # 0 => content[s] \in Ids
    BY DEF Ids, BrokerAssumption
  <2>3. (content[s] = 0) \in BOOLEAN
    OBVIOUS
  <2> QED
    BY <2>1, <2>2, <2>3 DEF CanonicalStrokes
<1>2. result = [s \in Strokes |-> IF s \notin ops THEN strokes[s] ELSE new(s)]
  BY DEF ApplyOperations
<1> HIDE DEF new, result
<1>3. \A s \in Strokes : result[s] = IF s \notin ops THEN strokes[s] ELSE new(s)
  BY <1>2
<1>4. result \in [Strokes -> CanonicalStrokes \cup {None}]
  BY <1>1, <1>2
<1>5. Rewritten(result, strokes, ops, revs)
  BY <1>1, <1>3, <1>4 DEF Rewritten
<1> QED
  BY <1>5 DEF result

(* An applied or selected operation erases only a stroke the document has. *)
LEMMA ErasesKnown ==
    ASSUME BrokerAssumption, TypeOK, NEW n \in DOMAIN uploads,
           ValidInput(uploads[n]) \/ ValidProposal(uploads[n]),
           NEW s \in Strokes, uploads[n].content[s] = 0,
           s \in Applied(uploads[n], doc.strokes) \cup Proposed(uploads[n], doc.strokes)
    PROVE  doc.strokes[s] # None
<1> DEFINE e == uploads[n]
<1>1. doc.strokes \in [Strokes -> CanonicalStrokes \cup {None}]
  BY DocType
<1>2. e.base \in [Strokes -> 0..MaxUploads] /\ e.source \in Sides
  BY UploadType
<1>3. Active(doc.strokes)[s] # 0 => doc.strokes[s] # None
  BY <1>1, ActiveType
<1>4. CASE e.source = Supernote
  BY <1>3, <1>4 DEF Applied, Proposed
<1>5. CASE e.source = Boox /\ BooxKind = "view"
  BY <1>3, <1>5 DEF Applied, Proposed, Boox, Supernote
<1>6. CASE e.source = Boox /\ BooxKind # "view"
  <2>1. BooxKind = "manifest" /\ e.source # Supernote
    BY <1>6 DEF BrokerAssumption, Boox, Supernote
  <2>2. s \in Changed(e)
    BY <1>6, <2>1 DEF Applied, Proposed
  <2>3. e.base[s] # 0
    BY <2>2 DEF Changed
  <2> QED
    BY <1>3, <1>6, <2>1, <2>2, <2>3 DEF ValidInput, ValidProposal
<1> QED
  BY <1>2, <1>4, <1>5, <1>6 DEF Sides

-----------------------------------------------------------------------------
(* The devices. *)

(* What is known of the canonical state survives another export. *)
LEMMA ExportKeeps ==
    ASSUME BrokerAssumption, IInv, NEW e \in StorageEvents, uploads' = Append(uploads, e),
           UNCHANGED <<doc, analysis, consumed>>
    PROVE  /\ DOMAIN uploads' = 1..(Len(uploads) + 1) /\ Len(uploads) \in Nat
           /\ \A n \in DOMAIN uploads : n \in DOMAIN uploads' /\ uploads'[n] = uploads[n]
           /\ uploads'[Len(uploads) + 1] = e
           /\ ProcessedOK' /\ AcceptedOK' /\ StrokesOK' /\ EvidenceAccounted' /\ DecidedOnce'
           /\ NoRevisionSkipped'
           /\ \A n \in DOMAIN uploads : Safe(n)' = Safe(n)
<1>1. uploads \in Seq(StorageEvents) /\ consumed \subseteq DOMAIN uploads
  BY DEF IInv, TypeOK
<1>2. /\ DOMAIN uploads' = 1..(Len(uploads) + 1) /\ Len(uploads) \in Nat
      /\ uploads'[Len(uploads) + 1] = e
      /\ \A n \in DOMAIN uploads : n \in DOMAIN uploads' /\ uploads'[n] = uploads[n]
  BY <1>1
<1>3. doc.processed \subseteq DOMAIN uploads /\ \A r \in doc.resolved : r.id \in DOMAIN uploads
  BY DEF IInv, ProcessedOK
<1>4. ProcessedOK' /\ StrokesOK' /\ DecidedOnce'
  BY <1>2 DEF IInv, ProcessedOK, StrokesOK, DecidedOnce
<1>5. AcceptedOK' /\ NoRevisionSkipped'
  BY <1>1, <1>2 DEF IInv, AcceptedOK, NoRevisionSkipped
<1>6. EvidenceAccounted'
  BY <1>1, <1>2, <1>3 DEF IInv, EvidenceAccounted
<1>7. ASSUME NEW n \in DOMAIN uploads PROVE Safe(n)' = Safe(n)
  <2>1. uploads'[n] = uploads[n]
    BY <1>2
  <2>2. \A x, s : InheritedRejectedChange(x, s)' <=> InheritedRejectedChange(x, s)
    BY <1>2, <1>3 DEF InheritedRejectedChange
  <2>3. \A x, s : SafeChange(x, s)' <=> SafeChange(x, s)
    BY <2>2 DEF SafeChange
  <2>4. \A x : SafeChanges(x)' = SafeChanges(x) /\ (ValidProposal(x)' <=> ValidProposal(x))
    BY <2>3 DEF SafeChanges, ValidProposal
  <2> QED
    BY <2>1, <2>4 DEF Safe
<1> QED
  BY <1>2, <1>4, <1>5, <1>6, <1>7

(* A device that checkpoints, or only edits. *)
LEMMA DeviceType ==
    ASSUME NEW d \in Devices, NEW c \in Contents
    PROVE  /\ [d EXCEPT !.local = c] \in Devices
           /\ [d EXCEPT !.own = @ + 1, !.base = c, !.local = c, !.synced = FALSE] \in Devices
           /\ [d EXCEPT !.own = @ + 1, !.base = c, !.synced = FALSE] \in Devices
<1> DEFINE k == d.own + 1
<1>1. k \in Nat
  BY DEF Devices
<1> HIDE DEF k
<1>2. /\ [d EXCEPT !.local = c] \in Devices
      /\ [d EXCEPT !.own = k, !.base = c, !.local = c, !.synced = FALSE] \in Devices
      /\ [d EXCEPT !.own = k, !.base = c, !.synced = FALSE] \in Devices
  BY <1>1 DEF Devices
<1> QED
  BY <1>2 DEF k

(* Export: an edit or a repeated upload. *)
LEMMA ExportIInv ==
    ASSUME BrokerAssumption, IInv, NEW side \in Sides, NEW edited \in SUBSET Strokes,
           NEW erased \in SUBSET edited, NEW dies \in BOOLEAN, Export(side, edited, erased, dies)
    PROVE  IInv'
<1> DEFINE id == Len(uploads) + 1
           d == dev[side]
           content == [s \in Strokes |-> IF s \in erased THEN 0
                                         ELSE IF s \in edited THEN id ELSE d.local[s]]
           basedOn == [x \in Sides |-> IF x = side THEN d.own ELSE d.peer]
           e == [source |-> side, rev |-> d.own + 1, basedOn |-> basedOn, base |-> d.base,
                 content |-> content]
           moved == IF dies THEN [d EXCEPT !.local = content]
                    ELSE [d EXCEPT !.own = @ + 1, !.base = content, !.local = content, !.synced = FALSE]
<1>1. d \in Devices /\ uploads \in Seq(StorageEvents) /\ Len(uploads) \in Nat /\ MaxUploads \in Nat
      /\ Len(uploads) < MaxUploads
  BY DEF IInv, TypeOK, BrokerAssumption, Export
<1>2. id \in Ids /\ id \in 0..MaxUploads
  BY <1>1 DEF Ids
<1>3. /\ uploads' = Append(uploads, e) /\ unacked' = unacked \cup {id}
      /\ dev' = [dev EXCEPT ![side] = moved]
      /\ UNCHANGED <<doc, echoes, analysis, consumed>>
  BY DEF Export
<1> HIDE DEF id
<1>4. content \in Contents
  BY <1>1, <1>2 DEF Contents, Devices
<1> HIDE DEF content
<1>5. basedOn \in RevisionPairs /\ basedOn[side] = d.own
  BY <1>1 DEF RevisionPairs, Devices
<1> HIDE DEF basedOn
<1>6. d.own \in Nat /\ d.base \in Contents
  BY <1>1 DEF Devices
<1>7. e \in StorageEvents /\ e.rev = d.own + 1 /\ e.basedOn[e.source] = d.own
  BY <1>4, <1>5, <1>6 DEF StorageEvents
<1>8. moved \in Devices
  <2>1. d \in Devices
    BY <1>1
  <2> HIDE DEF d
  <2> QED
    BY <1>4, <2>1, DeviceType
<1> HIDE DEF e, moved, d
<1>9. /\ DOMAIN uploads' = 1..(Len(uploads) + 1) /\ Len(uploads) \in Nat
      /\ \A n \in DOMAIN uploads : n \in DOMAIN uploads' /\ uploads'[n] = uploads[n]
      /\ uploads'[Len(uploads) + 1] = e
      /\ ProcessedOK' /\ AcceptedOK' /\ StrokesOK' /\ EvidenceAccounted' /\ DecidedOnce'
      /\ NoRevisionSkipped'
      /\ \A n \in DOMAIN uploads : Safe(n)' = Safe(n)
  BY <1>3, <1>7, ExportKeeps
<1>10. TypeOK'
  <2>1. uploads' \in Seq(StorageEvents) /\ Len(uploads') <= MaxUploads
    BY <1>1, <1>3, <1>7
  <2>2. unacked' \subseteq DOMAIN uploads' /\ consumed' \subseteq DOMAIN uploads'
    BY <1>3, <1>9 DEF IInv, TypeOK, id
  <2>3. dev' \in [Sides -> Devices]
    BY <1>3, <1>8 DEF IInv, TypeOK
  <2> QED
    BY <1>3, <2>1, <2>2, <2>3 DEF IInv, TypeOK
<1>11. UploadsOK'
  <2> SUFFICES ASSUME NEW n \in DOMAIN uploads'
               PROVE  uploads'[n].rev >= 1 /\ uploads'[n].basedOn[uploads'[n].source] = uploads'[n].rev - 1
    BY DEF UploadsOK
  <2>1. CASE n = Len(uploads) + 1
    BY <1>6, <1>7, <1>9, <2>1
  <2>2. CASE n \in DOMAIN uploads
    BY <1>9, <2>2 DEF IInv, UploadsOK
  <2> QED
    BY <1>1, <1>9, <2>1, <2>2
<1>12. AnalysesOK'
  <2> SUFFICES ASSUME NEW n \in Ids, analysis[n] # None
               PROVE  /\ n \in DOMAIN uploads' /\ analysis[n].stateRev <= doc.stateRev
                      /\ analysis[n].stateRev = doc.stateRev => analysis[n].safe = Safe(n)'
    BY <1>3 DEF AnalysesOK
  <2> QED
    BY <1>9 DEF IInv, AnalysesOK
<1> QED
  BY <1>9, <1>10, <1>11, <1>12 DEF IInv

(* What the analysis of a conflict depends on. *)
LEMMA SafeFrame == ASSUME UNCHANGED <<doc, uploads>> PROVE \A n : Safe(n)' = Safe(n)
<1>1. \A x, s : InheritedRejectedChange(x, s)' <=> InheritedRejectedChange(x, s)
  BY DEF InheritedRejectedChange
<1>2. \A x, s : SafeChange(x, s)' <=> SafeChange(x, s)
  BY <1>1 DEF SafeChange
<1>3. \A x : SafeChanges(x)' = SafeChanges(x) /\ (ValidProposal(x)' <=> ValidProposal(x))
  BY <1>2 DEF SafeChanges, ValidProposal
<1> QED
  BY <1>3 DEF Safe

(* A step that leaves the canonical state, the exports and the analyses alone. *)
LEMMA OutsideIInv ==
    ASSUME IInv, TypeOK', UNCHANGED <<doc, uploads, analysis, consumed>> PROVE IInv'
<1>1. UploadsOK' /\ ProcessedOK' /\ AcceptedOK' /\ StrokesOK'
  BY DEF IInv, UploadsOK, ProcessedOK, AcceptedOK, StrokesOK
<1>2. EvidenceAccounted' /\ DecidedOnce' /\ NoRevisionSkipped'
  BY DEF IInv, EvidenceAccounted, DecidedOnce, NoRevisionSkipped
<1>3. \A n : Safe(n)' = Safe(n)
  BY SafeFrame
<1>4. AnalysesOK'
  BY <1>3 DEF IInv, AnalysesOK
<1> QED
  BY <1>1, <1>2, <1>4 DEF IInv

(* Checkpointing and installing change the devices only. *)
LEMMA DeviceIInv ==
    ASSUME BrokerAssumption, IInv, NEW side \in Sides, Record(side) \/ Sync(side) PROVE IInv'
<1>1. dev \in [Sides -> Devices] /\ dev[side] \in Devices /\ Other(side) \in Sides
  BY DEF IInv, TypeOK, Other, Sides
<1>2. dev' \in [Sides -> Devices]
  <2>1. CASE Record(side)
    <3> DEFINE d == dev[side]
               moved == [d EXCEPT !.own = @ + 1, !.base = d.local, !.synced = FALSE]
    <3>1. d.local \in Contents
      BY <1>1 DEF Devices
    <3>2. moved \in Devices
      BY <1>1, <3>1, DeviceType
    <3>3. dev' = [dev EXCEPT ![side] = moved]
      BY <1>1, <2>1 DEF Record
    <3> HIDE DEF moved
    <3> QED
      BY <1>1, <3>2, <3>3
  <2>2. CASE Sync(side)
    <3>1. Active(doc.strokes) \in Contents /\ doc.rev[Other(side)] \in Nat
      BY <1>1, ActiveType, DocType DEF IInv
    <3> DEFINE d == [dev[side] EXCEPT !.peer = doc.rev[Other(side)], !.base = Active(doc.strokes),
                                      !.local = Active(doc.strokes), !.synced = TRUE]
    <3>2. d \in Devices
      BY <1>1, <3>1 DEF Devices
    <3>3. dev' = [dev EXCEPT ![side] = d]
      BY <1>1, <2>2 DEF Sync
    <3> QED
      BY <1>1, <3>2, <3>3
  <2> QED
    BY <2>1, <2>2
<1>3. UNCHANGED <<doc, uploads, unacked, echoes, analysis, consumed>>
  BY DEF Record, Sync
<1>4. TypeOK'
  BY <1>2, <1>3 DEF IInv, TypeOK
<1> QED
  BY <1>3, <1>4, OutsideIInv

(* A rejected or repeated event changes nothing but its acknowledgement. *)
LEMMA AckIInv ==
    ASSUME BrokerAssumption, IInv, NEW n \in DOMAIN uploads, Duplicate(n) \/ Reject(n) PROVE IInv'
<1>1. unacked' \subseteq DOMAIN uploads
  BY DEF Duplicate, Reject, Acknowledge, IInv, TypeOK
<1>2. UNCHANGED <<doc, uploads, echoes, dev, analysis, consumed>>
  BY DEF Duplicate, Reject
<1>3. TypeOK'
  BY <1>1, <1>2 DEF IInv, TypeOK
<1> QED
  BY <1>2, <1>3, OutsideIInv

-----------------------------------------------------------------------------
(* Broker::process. *)

(* A step that changes the document makes every earlier analysis stale. *)
LEMMA AnalysesAfter ==
    ASSUME BrokerAssumption, IInv, doc'.stateRev = doc.stateRev + 1, UNCHANGED uploads,
           \A n \in Ids : analysis'[n] \in {analysis[n], None}
    PROVE  AnalysesOK'
<1>1. doc.stateRev \in Nat /\ analysis \in [Ids -> Analyses \cup {None}]
  BY DocType DEF IInv, TypeOK
<1> SUFFICES ASSUME NEW n \in Ids, analysis'[n] # None
             PROVE  /\ n \in DOMAIN uploads /\ analysis'[n].stateRev <= doc.stateRev + 1
                    /\ analysis'[n].stateRev # doc.stateRev + 1
  BY DEF AnalysesOK
<1>2. analysis'[n] = analysis[n] /\ analysis[n] \in Analyses
  BY <1>1
<1>3. analysis[n].stateRev \in Nat /\ analysis[n].stateRev <= doc.stateRev /\ n \in DOMAIN uploads
  BY <1>2 DEF IInv, AnalysesOK, Analyses
<1> QED
  BY <1>1, <1>2, <1>3

(* A step of the broker that takes over no revision: it may mark events as
   processed, preserve them, and decide preserved ones. *)
LEMMA KeepFrontier ==
    ASSUME BrokerAssumption, IInv, TypeOK', UNCHANGED <<uploads, consumed>>,
           doc'.stateRev = doc.stateRev + 1,
           doc'.rev = doc.rev, doc'.accepted = doc.accepted, doc'.strokes = doc.strokes,
           \A n \in Ids : analysis'[n] \in {analysis[n], None},
           ProcessedOK', EvidenceAccounted', DecidedOnce'
    PROVE  IInv'
<1>1. AnalysesOK'
  BY AnalysesAfter
<1>2. UploadsOK' /\ AcceptedOK' /\ StrokesOK' /\ NoRevisionSkipped'
  BY DEF IInv, UploadsOK, AcceptedOK, StrokesOK, NoRevisionSkipped
<1> QED
  BY <1>1, <1>2 DEF IInv

(* IgnoreStale: the accepted bytes again. *)
LEMMA IgnoreStaleIInv ==
    ASSUME BrokerAssumption, IInv, NEW n \in DOMAIN uploads, IgnoreStale(n) PROVE IInv'
<1> DEFINE e == uploads[n]
<1>1. TypeOK /\ n \in Ids /\ e.source \in Sides /\ e.rev \in Nat /\ e.rev >= 1
  BY UploadType DEF IInv, UploadsOK
<1>2. /\ doc' \in Documents
      /\ doc'.rev = doc.rev /\ doc'.accepted = doc.accepted /\ doc'.strokes = doc.strokes
      /\ doc'.processed = doc.processed \cup {n} /\ doc'.conflicts = doc.conflicts
      /\ doc'.resolved = doc.resolved /\ doc'.stateRev = doc.stateRev + 1
  <2> DEFINE k == doc.stateRev + 1
             ps == doc.processed \cup {n}
  <2>1. doc' = [doc EXCEPT !.processed = ps, !.stateRev = k]
    BY DEF IgnoreStale
  <2>2. doc \in Documents /\ k \in Nat /\ ps \in SUBSET Ids
    BY <1>1, DocType DEF TypeOK
  <2> HIDE DEF k, ps
  <2>3. /\ doc' \in Documents
        /\ doc'.rev = doc.rev /\ doc'.accepted = doc.accepted /\ doc'.strokes = doc.strokes
        /\ doc'.processed = ps /\ doc'.conflicts = doc.conflicts
        /\ doc'.resolved = doc.resolved /\ doc'.stateRev = k
    BY <2>1, <2>2 DEF Documents
  <2> QED
    BY <2>3 DEF k, ps
<1>3. UNCHANGED <<uploads, echoes, dev, analysis, consumed>> /\ unacked' \subseteq DOMAIN uploads
  BY DEF IgnoreStale, Acknowledge, IInv, TypeOK
<1>4. TypeOK'
  BY <1>2, <1>3 DEF IInv, TypeOK
<1>5. doc.rev[e.source] \in Nat /\ e.rev <= doc.rev[e.source]
  BY <1>1, DocType DEF IgnoreStale, Late
<1>6. /\ doc.accepted[e.source] \in consumed
      /\ uploads[doc.accepted[e.source]].source = e.source
      /\ Bytes(uploads[doc.accepted[e.source]]) = Bytes(e)
  <2>1. doc.rev[e.source] > 0
    BY <1>1, <1>5
  <2> QED
    BY <1>1, <2>1 DEF IInv, AcceptedOK, IgnoreStale, SameBytes
<1>7. EvidenceAccounted'
  <2> SUFFICES ASSUME NEW m \in doc'.processed
               PROVE  \/ m \in consumed \cup doc.conflicts
                      \/ \E r \in doc.resolved : r.id = m
                      \/ \E k \in consumed : /\ uploads[k].source = uploads[m].source
                                             /\ Bytes(uploads[k]) = Bytes(uploads[m])
    BY <1>2, <1>3 DEF EvidenceAccounted
  <2>1. CASE m = n
    BY <1>6, <2>1
  <2>2. CASE m \in doc.processed
    BY <2>2 DEF IInv, EvidenceAccounted
  <2> QED
    BY <1>2, <2>1, <2>2
<1>8. ProcessedOK' /\ DecidedOnce'
  BY <1>2, <1>3 DEF IInv, ProcessedOK, DecidedOnce
<1> QED
  BY <1>2, <1>3, <1>4, <1>7, <1>8, KeepFrontier

(* preserve_conflict: a fresh event was never decided. *)
LEMMA PreserveIInv ==
    ASSUME BrokerAssumption, IInv, NEW n \in DOMAIN uploads, PreserveConflict(n) PROVE IInv'
<1>1. TypeOK /\ n \in Ids /\ n \notin doc.processed
  BY UploadType DEF IInv, PreserveConflict, Fresh
<1>2. /\ doc' \in Documents
      /\ doc'.rev = doc.rev /\ doc'.accepted = doc.accepted /\ doc'.strokes = doc.strokes
      /\ doc'.processed = doc.processed \cup {n} /\ doc'.conflicts = doc.conflicts \cup {n}
      /\ doc'.resolved = doc.resolved /\ doc'.stateRev = doc.stateRev + 1
  <2> DEFINE k == doc.stateRev + 1
             ps == doc.processed \cup {n}
             cs == doc.conflicts \cup {n}
  <2>1. doc' = [doc EXCEPT !.conflicts = cs, !.processed = ps, !.stateRev = k]
    BY DEF PreserveConflict
  <2>2. doc \in Documents /\ k \in Nat /\ ps \in SUBSET Ids /\ cs \in SUBSET Ids
    BY <1>1, DocType DEF TypeOK
  <2> HIDE DEF k, ps, cs
  <2>3. /\ doc' \in Documents
        /\ doc'.rev = doc.rev /\ doc'.accepted = doc.accepted /\ doc'.strokes = doc.strokes
        /\ doc'.processed = ps /\ doc'.conflicts = cs
        /\ doc'.resolved = doc.resolved /\ doc'.stateRev = k
    BY <2>1, <2>2 DEF Documents
  <2> QED
    BY <2>3 DEF k, ps, cs
<1>3. UNCHANGED <<uploads, echoes, dev, analysis, consumed>> /\ unacked' \subseteq DOMAIN uploads
  BY DEF PreserveConflict, Acknowledge, IInv, TypeOK
<1>4. TypeOK'
  BY <1>2, <1>3 DEF IInv, TypeOK
<1>5. EvidenceAccounted'
  BY <1>2, <1>3 DEF IInv, EvidenceAccounted
<1>6. ProcessedOK' /\ DecidedOnce'
  BY <1>1, <1>2, <1>3 DEF IInv, ProcessedOK, DecidedOnce
<1> QED
  BY <1>2, <1>3, <1>4, <1>5, <1>6, KeepFrontier

(* An event of the broker's own output. *)
LEMMA EchoIInv == ASSUME BrokerAssumption, IInv, IgnoreBrokerOutput PROVE IInv'
<1>1. /\ doc' \in Documents
      /\ doc'.rev = doc.rev /\ doc'.accepted = doc.accepted /\ doc'.strokes = doc.strokes
      /\ doc'.processed = doc.processed /\ doc'.conflicts = doc.conflicts
      /\ doc'.resolved = doc.resolved /\ doc'.stateRev = doc.stateRev + 1
  <2> DEFINE k == doc.stateRev + 1
  <2>1. doc' = [doc EXCEPT !.stateRev = k]
    BY DEF IgnoreBrokerOutput
  <2>2. doc \in Documents /\ k \in Nat
    BY DocType DEF IInv, TypeOK
  <2> HIDE DEF k
  <2>3. /\ doc' \in Documents
        /\ doc'.rev = doc.rev /\ doc'.accepted = doc.accepted /\ doc'.strokes = doc.strokes
        /\ doc'.processed = doc.processed /\ doc'.conflicts = doc.conflicts
        /\ doc'.resolved = doc.resolved /\ doc'.stateRev = k
    BY <2>1, <2>2 DEF Documents
  <2> QED
    BY <2>3 DEF k
<1>2. UNCHANGED <<uploads, unacked, dev, analysis, consumed>> /\ echoes' \in Nat
  BY DEF IgnoreBrokerOutput, IInv, TypeOK
<1>3. TypeOK'
  BY <1>1, <1>2 DEF IInv, TypeOK
<1>4. EvidenceAccounted' /\ ProcessedOK' /\ DecidedOnce'
  BY <1>1, <1>2 DEF IInv, EvidenceAccounted, ProcessedOK, DecidedOnce
<1> QED
  BY <1>1, <1>2, <1>3, <1>4, KeepFrontier

(* supersede_conflict: decided, and no longer active. *)
LEMMA SupersedeIInv ==
    ASSUME BrokerAssumption, IInv, NEW n \in DOMAIN uploads, NEW strategy \in Strategies,
           SupersedeConflict(n, strategy)
    PROVE  IInv'
<1> DEFINE r == [id |-> n, strategy |-> strategy, superseded |-> TRUE, result |-> doc.rev, preserved |-> {}]
<1>1. TypeOK /\ n \in Ids /\ n \in doc.conflicts /\ doc.rev \in RevisionPairs
  BY UploadType, DocType DEF IInv, SupersedeConflict, Current, RevisionPairs
<1>2. r \in ResolutionRecords /\ r.id = n
  BY <1>1 DEF ResolutionRecords
<1>3. /\ doc' = [doc EXCEPT !.conflicts = @ \ {n}, !.resolved = @ \cup {r}, !.stateRev = @ + 1]
      /\ analysis' = [analysis EXCEPT ![n] = None]
      /\ UNCHANGED <<uploads, unacked, echoes, dev, consumed>>
  BY DEF SupersedeConflict
<1> HIDE DEF r
<1>4. /\ doc' \in Documents
      /\ doc'.rev = doc.rev /\ doc'.accepted = doc.accepted /\ doc'.strokes = doc.strokes
      /\ doc'.processed = doc.processed /\ doc'.conflicts = doc.conflicts \ {n}
      /\ doc'.resolved = doc.resolved \cup {r} /\ doc'.stateRev = doc.stateRev + 1
  <2> DEFINE k == doc.stateRev + 1
             cs == doc.conflicts \ {n}
             rs == doc.resolved \cup {r}
  <2>1. doc' = [doc EXCEPT !.conflicts = cs, !.resolved = rs, !.stateRev = k]
    BY <1>3
  <2>2. doc \in Documents /\ k \in Nat /\ cs \in SUBSET Ids /\ rs \in SUBSET ResolutionRecords
    BY <1>1, <1>2, DocType DEF TypeOK
  <2> HIDE DEF k, cs, rs
  <2>3. /\ doc' \in Documents
        /\ doc'.rev = doc.rev /\ doc'.accepted = doc.accepted /\ doc'.strokes = doc.strokes
        /\ doc'.processed = doc.processed /\ doc'.conflicts = cs
        /\ doc'.resolved = rs /\ doc'.stateRev = k
    BY <2>1, <2>2 DEF Documents
  <2> QED
    BY <2>3 DEF k, cs, rs
<1>5. analysis' \in [Ids -> Analyses \cup {None}] /\ \A m \in Ids : analysis'[m] \in {analysis[m], None}
  BY <1>1, <1>3 DEF IInv, TypeOK
<1>6. TypeOK'
  BY <1>3, <1>4, <1>5 DEF IInv, TypeOK
<1>7. EvidenceAccounted'
  BY <1>2, <1>3, <1>4 DEF IInv, EvidenceAccounted
<1>8. ProcessedOK' /\ DecidedOnce'
  BY <1>1, <1>2, <1>3, <1>4 DEF IInv, ProcessedOK, DecidedOnce
<1> QED
  BY <1>3, <1>4, <1>5, <1>6, <1>7, <1>8, KeepFrontier

(* inspect_conflict reads the current state. *)
LEMMA InspectIInv ==
    ASSUME BrokerAssumption, IInv, NEW n \in DOMAIN uploads, Inspect(n) PROVE IInv'
<1> DEFINE a == [stateRev |-> doc.stateRev, revs |-> doc.rev, safe |-> Safe(n)]
<1>1. TypeOK /\ n \in Ids /\ doc.rev \in RevisionPairs /\ doc.stateRev \in Nat
  BY UploadType, DocType DEF IInv, RevisionPairs
<1>2. Safe(n) \in SUBSET Strokes
  <2>1. SafeChanges(uploads[n]) \subseteq Strokes
    <3>1. Proposed(uploads[n], doc.strokes) \subseteq Strokes
      BY DEF Proposed, OnPages, Changed
    <3> QED
      BY <3>1 DEF SafeChanges
  <2> QED
    BY <2>1 DEF Safe
<1>3. analysis' = [analysis EXCEPT ![n] = a]
  BY DEF Inspect, Safe
<1>4. UNCHANGED <<doc, uploads, unacked, echoes, dev, consumed>>
  BY DEF Inspect
<1>5. a \in Analyses /\ a.stateRev = doc.stateRev /\ a.safe = Safe(n)
  BY <1>1, <1>2 DEF Analyses
<1> HIDE DEF a
<1>6. TypeOK'
  BY <1>1, <1>3, <1>4, <1>5 DEF TypeOK
<1>7. UploadsOK' /\ ProcessedOK' /\ AcceptedOK' /\ StrokesOK'
  BY <1>4 DEF IInv, UploadsOK, ProcessedOK, AcceptedOK, StrokesOK
<1>8. EvidenceAccounted' /\ DecidedOnce' /\ NoRevisionSkipped'
  BY <1>4 DEF IInv, EvidenceAccounted, DecidedOnce, NoRevisionSkipped
<1>9. \A m : Safe(m)' = Safe(m)
  BY <1>4, SafeFrame
<1>10. AnalysesOK'
  BY <1>1, <1>3, <1>4, <1>5, <1>9 DEF IInv, AnalysesOK, TypeOK
<1> QED
  BY <1>6, <1>7, <1>8, <1>10 DEF IInv

-----------------------------------------------------------------------------
(* Taking over a revision. *)

(* The frontier takes over the export's revision, its next one where the source
   is incremental, and the changed strokes carry the new frontier. *)
LEMMA TakeOver ==
    ASSUME BrokerAssumption, IInv, NEW n \in DOMAIN uploads, NEW ops, NEW revs, NEW strokes,
           uploads[n].rev > doc.rev[uploads[n].source],
           Incremental(uploads[n]) => uploads[n].rev = doc.rev[uploads[n].source] + 1,
           revs = [doc.rev EXCEPT ![uploads[n].source] = uploads[n].rev],
           strokes = ApplyOperations(doc.strokes, ops, uploads[n].content, uploads[n].source, revs),
           Erasable(doc.strokes, ops, uploads[n].content),
           doc'.rev = revs, doc'.strokes = strokes,
           doc'.accepted = [doc.accepted EXCEPT ![uploads[n].source] = n],
           consumed' = consumed \cup {n}, UNCHANGED uploads
    PROVE  /\ revs \in RevisionPairs
           /\ strokes \in [Strokes -> CanonicalStrokes \cup {None}]
           /\ doc'.accepted \in [Sides -> 0..MaxUploads]
           /\ consumed' \subseteq DOMAIN uploads
           /\ AcceptedOK' /\ StrokesOK' /\ NoRevisionSkipped'
<1> DEFINE e == uploads[n]
<1>1. /\ e.source \in Sides /\ e.rev \in Nat /\ n \in Ids /\ e.content \in [Strokes -> 0..MaxUploads]
      /\ MaxUploads \in Nat
  BY UploadType DEF IInv, BrokerAssumption
<1>2. /\ doc.rev \in [Sides -> Nat] /\ doc.accepted \in [Sides -> 0..MaxUploads]
      /\ doc.strokes \in [Strokes -> CanonicalStrokes \cup {None}]
  BY DocType DEF IInv
<1> HIDE DEF e
<1>3. /\ revs \in [Sides -> Nat] /\ revs[e.source] = e.rev /\ e.rev > doc.rev[e.source]
      /\ \A side \in Sides : side # e.source => revs[side] = doc.rev[side]
  BY <1>1, <1>2 DEF e
<1>4. \A side \in Sides : doc.rev[side] <= revs[side]
  BY <1>1, <1>2, <1>3
<1>5. /\ doc'.accepted \in [Sides -> 0..MaxUploads] /\ doc'.accepted[e.source] = n
      /\ \A side \in Sides : side # e.source => doc'.accepted[side] = doc.accepted[side]
  BY <1>1, <1>2 DEF e, Ids
<1>6. revs \in RevisionPairs
  BY <1>3 DEF RevisionPairs
<1>7. /\ strokes \in [Strokes -> CanonicalStrokes \cup {None}]
      /\ \A s \in Strokes : s \in ops => strokes[s].revs = revs
      /\ \A s \in Strokes : s \notin ops => strokes[s] = doc.strokes[s]
  <2> DEFINE content == e.content
             source == e.source
  <2>1. content \in [Strokes -> 0..MaxUploads] /\ source \in Sides
    BY <1>1
  <2>2. /\ strokes = ApplyOperations(doc.strokes, ops, content, source, revs)
        /\ Erasable(doc.strokes, ops, content)
    BY DEF e
  <2> HIDE DEF content, source
  <2>3. Rewritten(ApplyOperations(doc.strokes, ops, content, source, revs), doc.strokes, ops, revs)
    BY <1>2, <1>6, <2>1, <2>2, ApplyType
  <2> QED
    BY <2>2, <2>3 DEF Rewritten
<1>8. consumed' \subseteq DOMAIN uploads
  BY DEF IInv, TypeOK
<1>9. AcceptedOK'
  <2> SUFFICES ASSUME NEW side \in Sides, revs[side] > 0
               PROVE  doc'.accepted[side] \in consumed' /\ uploads[doc'.accepted[side]].source = side
    BY DEF AcceptedOK
  <2>1. CASE side = e.source
    BY <1>5, <2>1 DEF e
  <2>2. CASE side # e.source
    BY <1>3, <1>5, <2>2 DEF IInv, AcceptedOK
  <2> QED
    BY <2>1, <2>2
<1>10. StrokesOK'
  <2> SUFFICES ASSUME NEW s \in Strokes, strokes[s] # None, NEW side \in Sides
               PROVE  strokes[s].revs[side] <= revs[side]
    BY DEF StrokesOK
  <2>1. CASE s \in ops
    BY <1>3, <1>7, <2>1
  <2>2. CASE s \notin ops
    <3>1. strokes[s] = doc.strokes[s] /\ doc.strokes[s] \in CanonicalStrokes
      BY <1>2, <1>7, <2>2
    <3>2. doc.strokes[s].revs[side] \in Nat
      BY <3>1 DEF CanonicalStrokes, RevisionPairs
    <3>3. doc.strokes[s].revs[side] <= doc.rev[side]
      BY <3>1 DEF IInv, StrokesOK
    <3> QED
      BY <1>2, <1>3, <1>4, <3>1, <3>2, <3>3
  <2> QED
    BY <2>1, <2>2
<1>11. NoRevisionSkipped'
  <2> SUFFICES ASSUME NEW side \in Sides, side = Supernote \/ BooxKind = "manifest",
                      NEW r \in 1..revs[side]
               PROVE  \E m \in consumed' : uploads[m].source = side /\ uploads[m].rev = r
    BY DEF NoRevisionSkipped
  <2>1. CASE r \in 1..doc.rev[side]
    BY <2>1 DEF IInv, NoRevisionSkipped
  <2>2. CASE r \notin 1..doc.rev[side]
    <3>1. side = e.source
      BY <1>3, <2>2
    <3>2. Incremental(e)
      BY <3>1 DEF Incremental
    <3>3. e.rev = doc.rev[e.source] + 1
      BY <3>2 DEF e
    <3>4. r = e.rev
      BY <1>1, <1>2, <1>3, <2>2, <3>1, <3>3
    <3> QED
      BY <3>1, <3>4 DEF e
  <2> QED
    BY <2>1, <2>2
<1> QED
  BY <1>5, <1>6, <1>7, <1>8, <1>9, <1>10, <1>11

(* Apply: an export of the current frontier. *)
LEMMA ApplyIInv ==
    ASSUME BrokerAssumption, IInv, NEW n \in DOMAIN uploads, Apply(n) PROVE IInv'
<1> DEFINE e == uploads[n]
           revs == [doc.rev EXCEPT ![e.source] = e.rev]
           ops == Applied(e, doc.strokes)
           strokes == ApplyOperations(doc.strokes, ops, e.content, e.source, revs)
           ac == [doc.accepted EXCEPT ![e.source] = n]
           ps == doc.processed \cup {n}
           k == doc.stateRev + 1
<1>1. /\ TypeOK /\ n \in Ids /\ e.source \in Sides /\ e.rev \in Nat /\ e.rev >= 1
      /\ e.basedOn[e.source] = e.rev - 1
  BY UploadType DEF IInv, UploadsOK
<1>2. /\ doc \in Documents /\ doc.rev \in [Sides -> Nat] /\ k \in Nat /\ ps \in SUBSET Ids
  BY <1>1, DocType DEF TypeOK
<1>3. e.rev = doc.rev[e.source] + 1 /\ e.rev > doc.rev[e.source]
  <2>1. e.basedOn = doc.rev
    BY DEF Apply
  <2> QED
    BY <1>1, <1>2, <2>1
<1>4. doc' = [doc EXCEPT !.strokes = strokes, !.rev = revs, !.accepted = ac, !.processed = ps,
                         !.stateRev = k]
  BY DEF Apply
<1>5. /\ consumed' = consumed \cup {n} /\ echoes' = echoes + 1
      /\ unacked' \subseteq DOMAIN uploads /\ UNCHANGED <<uploads, dev, analysis>>
  BY DEF Apply, Acknowledge, IInv, TypeOK
<1>6. Erasable(doc.strokes, ops, e.content)
  <2>1. ValidInput(e)
    BY DEF Apply
  <2> QED
    BY <1>1, <2>1, ErasesKnown DEF Erasable
<1> HIDE DEF k, ps
<1>7. /\ doc'.rev = revs /\ doc'.accepted = ac /\ doc'.strokes = strokes
      /\ doc'.processed = ps /\ doc'.conflicts = doc.conflicts /\ doc'.resolved = doc.resolved
      /\ doc'.stateRev = k
  <2> HIDE DEF e, revs, ops, strokes, ac
  <2> QED
    BY <1>2, <1>4 DEF Documents
<1>8. /\ revs \in RevisionPairs /\ strokes \in [Strokes -> CanonicalStrokes \cup {None}]
      /\ doc'.accepted \in [Sides -> 0..MaxUploads] /\ consumed' \subseteq DOMAIN uploads
      /\ AcceptedOK' /\ StrokesOK' /\ NoRevisionSkipped'
  BY <1>3, <1>5, <1>6, <1>7, TakeOver
<1> HIDE DEF e, revs, ops, strokes, ac
<1>9. TypeOK'
  <2>1. doc' \in Documents
    BY <1>2, <1>4, <1>7, <1>8 DEF Documents
  <2> QED
    BY <1>1, <1>5, <1>8, <2>1 DEF TypeOK
<1>10. AnalysesOK'
  BY <1>5, <1>7, AnalysesAfter DEF k
<1>11. UploadsOK' /\ ProcessedOK' /\ DecidedOnce'
  BY <1>5, <1>7 DEF IInv, UploadsOK, ProcessedOK, DecidedOnce, ps
<1>12. EvidenceAccounted'
  <2> SUFFICES ASSUME NEW m \in ps
               PROVE  \/ m \in consumed' \cup doc.conflicts
                      \/ \E r \in doc.resolved : r.id = m
                      \/ \E j \in consumed' : /\ uploads[j].source = uploads[m].source
                                              /\ Bytes(uploads[j]) = Bytes(uploads[m])
    BY <1>5, <1>7 DEF EvidenceAccounted
  <2>1. CASE m = n
    BY <1>5, <2>1
  <2>2. CASE m \in doc.processed
    BY <1>5, <2>2 DEF IInv, EvidenceAccounted
  <2> QED
    BY <2>1, <2>2 DEF ps
<1> QED
  BY <1>8, <1>9, <1>10, <1>11, <1>12 DEF IInv

(* What a decision selects is among what the export proposes. *)
LEMMA SelectedProposed ==
    ASSUME NEW n \in DOMAIN uploads, NEW strategy \in Strategies
    PROVE  /\ Selected(uploads[n], strategy) \subseteq Proposed(uploads[n], doc.strokes)
           /\ Proposed(uploads[n], doc.strokes) \subseteq Strokes
<1>1. Proposed(uploads[n], doc.strokes) \subseteq Strokes
  BY DEF Proposed, OnPages, Changed
<1>2. SafeChanges(uploads[n]) \subseteq Proposed(uploads[n], doc.strokes)
  BY DEF SafeChanges
<1> QED
  BY <1>1, <1>2 DEF Selected

(* Where the frontier stays, nothing was selected and nothing changes. *)
LEMMA KeepsStrokes ==
    ASSUME BrokerAssumption, TypeOK, NEW content, NEW source, NEW revs
    PROVE  ApplyOperations(doc.strokes, {}, content, source, revs) = doc.strokes
<1>1. doc.strokes \in [Strokes -> CanonicalStrokes \cup {None}]
  BY DocType
<1>2. ApplyOperations(doc.strokes, {}, content, source, revs) = [s \in Strokes |-> doc.strokes[s]]
  BY DEF ApplyOperations
<1> QED
  BY <1>1, <1>2

(* resolve_conflict: the frontier takes over the preserved revision, or keeps it. *)
LEMMA ResolveIInv ==
    ASSUME BrokerAssumption, IInv, NEW n \in DOMAIN uploads, NEW strategy \in Strategies,
           ResolveConflict(n, strategy)
    PROVE  IInv'
<1> DEFINE e == uploads[n]
           advances == e.rev > doc.rev[e.source]
           ops == Selected(e, strategy)
           revs == [doc.rev EXCEPT ![e.source] = e.rev]
           strokes == ApplyOperations(doc.strokes, ops, e.content, e.source, revs)
           ac == IF advances THEN [doc.accepted EXCEPT ![e.source] = n] ELSE doc.accepted
           cs == doc.conflicts \ {n}
           r == [id |-> n, strategy |-> strategy, superseded |-> FALSE, result |-> revs,
                 preserved |-> Proposed(e, doc.strokes) \ ops]
           rs == doc.resolved \cup {r}
           k == doc.stateRev + 1
<1>1. /\ TypeOK /\ n \in Ids /\ e.source \in Sides /\ e.rev \in Nat /\ e.rev >= 1
      /\ e.basedOn[e.source] = e.rev - 1
  BY UploadType DEF IInv, UploadsOK
<1>2. /\ doc \in Documents /\ doc.rev \in [Sides -> Nat] /\ k \in Nat /\ cs \in SUBSET Ids
      /\ doc.strokes \in [Strokes -> CanonicalStrokes \cup {None}]
      /\ doc.accepted \in [Sides -> 0..MaxUploads] /\ doc.resolved \subseteq ResolutionRecords
  BY <1>1, DocType DEF TypeOK
<1>3. revs \in RevisionPairs
  BY <1>1, <1>2 DEF RevisionPairs
<1>4. r \in ResolutionRecords /\ r.id = n
  <2>1. Proposed(e, doc.strokes) \ ops \in SUBSET Strokes
    BY SelectedProposed
  <2> HIDE DEF e, ops, revs
  <2> QED
    BY <1>1, <1>3, <2>1 DEF ResolutionRecords
<1>5. /\ Current(n) /\ e.rev >= doc.rev[e.source] /\ (advances \/ strategy = "keep_current")
      /\ ResolutionOrder(n) /\ ValidProposal(e)
  BY DEF ResolveConflict
<1>6. doc' = [doc EXCEPT !.strokes = strokes, !.rev = revs, !.accepted = ac, !.conflicts = cs,
                         !.resolved = rs, !.stateRev = k]
  BY DEF ResolveConflict
<1>7. /\ consumed' = IF advances THEN consumed \cup {n} ELSE consumed
      /\ echoes' \in Nat
      /\ analysis' = [analysis EXCEPT ![n] = None]
      /\ UNCHANGED <<uploads, unacked, dev>>
  BY <1>1 DEF ResolveConflict, TypeOK
<1> HIDE DEF k, cs, r, rs
<1>8. /\ doc'.rev = revs /\ doc'.accepted = ac /\ doc'.strokes = strokes
      /\ doc'.processed = doc.processed /\ doc'.conflicts = cs /\ doc'.resolved = rs
      /\ doc'.stateRev = k
  <2> HIDE DEF e, advances, revs, ops, strokes, ac
  <2> QED
    BY <1>2, <1>6 DEF Documents
<1>9. /\ analysis' \in [Ids -> Analyses \cup {None}]
      /\ \A m \in Ids : analysis'[m] \in {analysis[m], None}
  BY <1>1, <1>7 DEF TypeOK
<1>10. n \in doc.conflicts /\ n \in doc.processed
  BY <1>5 DEF Current, IInv, ProcessedOK
<1>11. rs \in SUBSET ResolutionRecords
  BY <1>2, <1>4 DEF rs
<1>12. ProcessedOK' /\ DecidedOnce'
  BY <1>4, <1>7, <1>8, <1>10 DEF IInv, ProcessedOK, DecidedOnce, cs, rs
<1>13. EvidenceAccounted'
  <2> SUFFICES ASSUME NEW m \in doc.processed
               PROVE  \/ m \in consumed' \cup cs
                      \/ \E q \in rs : q.id = m
                      \/ \E j \in consumed' : /\ uploads[j].source = uploads[m].source
                                              /\ Bytes(uploads[j]) = Bytes(uploads[m])
    BY <1>7, <1>8 DEF EvidenceAccounted
  <2>1. CASE m = n
    BY <1>4, <2>1 DEF rs
  <2>2. CASE m # n
    <3>1. consumed \subseteq consumed' /\ doc.resolved \subseteq rs
      BY <1>7 DEF rs
    <3>2. \/ m \in consumed \cup doc.conflicts
          \/ \E q \in doc.resolved : q.id = m
          \/ \E j \in consumed : /\ uploads[j].source = uploads[m].source
                                 /\ Bytes(uploads[j]) = Bytes(uploads[m])
      BY DEF IInv, EvidenceAccounted
    <3> QED
      BY <2>2, <3>1, <3>2 DEF cs
  <2> QED
    BY <2>1, <2>2
<1>14. CASE advances
  <2>1. Incremental(e) => e.rev = doc.rev[e.source] + 1
    <3>1. Incremental(e) => doc.rev[e.source] = e.basedOn[e.source]
      BY <1>5, <1>14 DEF ResolutionOrder
    <3> QED
      BY <1>1, <1>2, <3>1
  <2>2. Erasable(doc.strokes, ops, e.content)
    BY <1>1, <1>5, SelectedProposed, ErasesKnown DEF Erasable
  <2>3. ac = [doc.accepted EXCEPT ![e.source] = n] /\ consumed' = consumed \cup {n}
    BY <1>7, <1>14
  <2>4. /\ revs \in RevisionPairs /\ strokes \in [Strokes -> CanonicalStrokes \cup {None}]
        /\ doc'.accepted \in [Sides -> 0..MaxUploads] /\ consumed' \subseteq DOMAIN uploads
        /\ AcceptedOK' /\ StrokesOK' /\ NoRevisionSkipped'
    BY <1>7, <1>8, <1>14, <2>1, <2>2, <2>3, TakeOver
  <2> HIDE DEF e, advances, revs, ops, strokes, ac
  <2>5. TypeOK'
    <3>1. doc' \in Documents
      BY <1>2, <1>6, <1>8, <1>11, <2>4 DEF Documents
    <3> QED
      BY <1>1, <1>7, <1>9, <2>4, <3>1 DEF TypeOK
  <2>6. AnalysesOK'
    BY <1>7, <1>8, <1>9, AnalysesAfter DEF k
  <2>7. UploadsOK'
    BY <1>7 DEF IInv, UploadsOK
  <2> QED
    BY <1>12, <1>13, <2>4, <2>5, <2>6, <2>7 DEF IInv
<1>15. CASE ~advances
  <2>1. ops = {} /\ ac = doc.accepted /\ consumed' = consumed
    BY <1>5, <1>7, <1>15 DEF Selected
  <2>2. revs = doc.rev
    <3>1. e.rev = doc.rev[e.source]
      BY <1>1, <1>2, <1>5, <1>15
    <3> QED
      BY <1>2, <3>1
  <2>3. strokes = doc.strokes
    BY <1>1, <2>1, KeepsStrokes
  <2> HIDE DEF e, advances, revs, ops, strokes, ac
  <2>4. TypeOK'
    <3>1. doc' \in Documents
      BY <1>2, <1>6, <1>11, <2>1, <2>2, <2>3 DEF Documents
    <3> QED
      BY <1>1, <1>7, <1>9, <2>1, <3>1 DEF TypeOK
  <2> QED
    BY <1>7, <1>8, <1>9, <1>12, <1>13, <2>1, <2>2, <2>3, <2>4, KeepFrontier DEF k
<1> QED
  BY <1>14, <1>15

-----------------------------------------------------------------------------
(* The theorems. *)

LEMMA InitIInv == ASSUME BrokerAssumption, Init PROVE IInv
<1>1. TypeOK
  <2>1. Zero \in RevisionPairs /\ Zero \in [Sides -> 0..MaxUploads] /\ Empty \in Contents
    BY DEF Zero, RevisionPairs, Empty, Contents, BrokerAssumption
  <2>2. [s \in Strokes |-> None] \in [Strokes -> CanonicalStrokes \cup {None}]
    OBVIOUS
  <2>3. doc \in Documents
    BY <2>1, <2>2 DEF Init, Documents
  <2>4. dev \in [Sides -> Devices]
    BY <2>1 DEF Init, Devices
  <2>5. uploads \in Seq(StorageEvents) /\ Len(uploads) <= MaxUploads
    BY DEF Init, BrokerAssumption
  <2> QED
    BY <2>3, <2>4, <2>5 DEF TypeOK, Init
<1>2. doc.rev = Zero /\ doc.strokes = [s \in Strokes |-> None]
  BY DEF Init
<1>3. UploadsOK /\ ProcessedOK /\ StrokesOK
  BY <1>2 DEF Init, UploadsOK, ProcessedOK, StrokesOK
<1>4. AcceptedOK /\ NoRevisionSkipped
  BY <1>2 DEF AcceptedOK, NoRevisionSkipped, Zero
<1>5. AnalysesOK /\ EvidenceAccounted /\ DecidedOnce
  BY DEF Init, AnalysesOK, EvidenceAccounted, DecidedOnce
<1> QED
  BY <1>1, <1>3, <1>4, <1>5 DEF IInv

(* A stuttering step. *)
LEMMA StutterIInv == ASSUME BrokerAssumption, IInv, UNCHANGED vars PROVE IInv'
<1>1. UNCHANGED <<doc, uploads, unacked, echoes, dev, analysis, consumed>>
  BY DEF vars
<1>2. TypeOK'
  BY <1>1 DEF IInv, TypeOK
<1> QED
  BY <1>1, <1>2, OutsideIInv

LEMMA NextIInv == ASSUME BrokerAssumption, IInv, [Next]_vars PROVE IInv'
<1>1. CASE \E side \in Sides, edited \in SUBSET Strokes :
             \E erased \in SUBSET edited, dies \in BOOLEAN : Export(side, edited, erased, dies)
  BY <1>1, ExportIInv
<1>2. CASE \E side \in Sides : Record(side) \/ Sync(side)
  BY <1>2, DeviceIInv
<1>3. ASSUME NEW n \in DOMAIN uploads, Process(n) PROVE IInv'
  BY <1>3, AckIInv, IgnoreStaleIInv, PreserveIInv, ApplyIInv DEF Process
<1>4. ASSUME NEW n \in DOMAIN uploads, Inspect(n) PROVE IInv'
  BY <1>4, InspectIInv
<1>5. CASE IgnoreBrokerOutput
  BY <1>5, EchoIInv
<1>6. ASSUME NEW n \in DOMAIN uploads, NEW strategy \in Strategies,
             ResolveConflict(n, strategy) \/ SupersedeConflict(n, strategy)
      PROVE  IInv'
  BY <1>6, ResolveIInv, SupersedeIInv
<1>7. CASE UNCHANGED vars
  BY <1>7, StutterIInv
<1> QED
  BY <1>1, <1>2, <1>3, <1>4, <1>5, <1>6, <1>7 DEF Next

(* The inductive invariant holds throughout, whatever is exported, redelivered,
   preserved, analysed or decided in whatever order. *)
THEOREM Invariance == ASSUME BrokerAssumption PROVE Spec => []IInv
<1>1. Init => IInv
  BY InitIInv
<1>2. IInv /\ [Next]_vars => IInv'
  BY NextIInv
<1> QED
  BY <1>1, <1>2, PTL DEF Spec

(* Type correctness of the canonical document, the exports and the devices. *)
THEOREM TypeCorrect == ASSUME BrokerAssumption PROVE Spec => []TypeOK
<1>1. IInv => TypeOK
  BY DEF IInv
<1> QED
  BY <1>1, Invariance, PTL

(* "It preserves both inputs": process and resolve_conflict never drop an export
   they have marked as processed, and never decide a conflict twice. *)
THEOREM Kept == ASSUME BrokerAssumption PROVE Spec => []NothingLost
<1>1. IInv => NothingLost
  BY DEF IInv, NothingLost
<1> QED
  BY <1>1, Invariance, PTL

(* ensure_incremental_conflict_resolution_order and the in-order check of process
   together: the frontier of an incremental source passes no revision by. *)
THEOREM NoSkip == ASSUME BrokerAssumption PROVE Spec => []NoRevisionSkipped
<1>1. IInv => NoRevisionSkipped
  BY DEF IInv
<1> QED
  BY <1>1, Invariance, PTL

(* Only a decision adds a record, and its own. *)
LEMMA ResolvedGrows ==
    ASSUME BrokerAssumption, IInv, [Next]_vars, NEW r \in doc'.resolved \ doc.resolved, ~r.superseded
    PROVE  \E n \in DOMAIN uploads : r.id = n /\ ResolveConflict(n, r.strategy)
<1>1. doc \in Documents
  BY DEF IInv, TypeOK
<1>2. ASSUME doc' = doc PROVE FALSE
  BY <1>2
<1>3. ASSUME \/ \E side \in Sides, edited \in SUBSET Strokes :
                \E erased \in SUBSET edited, dies \in BOOLEAN : Export(side, edited, erased, dies)
             \/ \E side \in Sides : Record(side) \/ Sync(side)
             \/ \E n \in DOMAIN uploads : Inspect(n) \/ Duplicate(n) \/ Reject(n)
             \/ UNCHANGED vars
      PROVE  FALSE
  <2>1. ASSUME NEW side \in Sides, NEW edited \in SUBSET Strokes, NEW erased \in SUBSET edited,
               NEW dies \in BOOLEAN, Export(side, edited, erased, dies)
        PROVE  doc' = doc
    BY <2>1 DEF Export
  <2>2. ASSUME NEW side \in Sides, Record(side) PROVE doc' = doc
    BY <2>2 DEF Record
  <2>3. ASSUME NEW side \in Sides, Sync(side) PROVE doc' = doc
    BY <2>3 DEF Sync
  <2>4. ASSUME NEW n \in DOMAIN uploads, Inspect(n) PROVE doc' = doc
    BY <2>4 DEF Inspect
  <2>5. ASSUME NEW n \in DOMAIN uploads, Duplicate(n) PROVE doc' = doc
    BY <2>5 DEF Duplicate
  <2>6. ASSUME NEW n \in DOMAIN uploads, Reject(n) PROVE doc' = doc
    BY <2>6 DEF Reject
  <2>7. CASE UNCHANGED vars
    BY <1>2, <2>7 DEF vars
  <2> QED
    BY <1>2, <1>3, <2>1, <2>2, <2>3, <2>4, <2>5, <2>6, <2>7
<1>4. ASSUME \/ IgnoreBrokerOutput
             \/ \E n \in DOMAIN uploads : IgnoreStale(n) \/ PreserveConflict(n) \/ Apply(n)
      PROVE  FALSE
  <2>1. doc'.resolved = doc.resolved
    <3>1. ASSUME NEW n \in DOMAIN uploads, IgnoreStale(n) PROVE doc'.resolved = doc.resolved
      BY <1>1, <3>1 DEF IgnoreStale, Documents
    <3>2. ASSUME NEW n \in DOMAIN uploads, PreserveConflict(n) PROVE doc'.resolved = doc.resolved
      BY <1>1, <3>2 DEF PreserveConflict, Documents
    <3>3. ASSUME NEW n \in DOMAIN uploads, Apply(n) PROVE doc'.resolved = doc.resolved
      BY <1>1, <3>3 DEF Apply, Documents
    <3>4. CASE IgnoreBrokerOutput
      BY <1>1, <3>4 DEF IgnoreBrokerOutput, Documents
    <3> QED
      BY <1>4, <3>1, <3>2, <3>3, <3>4
  <2> QED
    BY <2>1
<1>5. ASSUME NEW n \in DOMAIN uploads, NEW strategy \in Strategies, SupersedeConflict(n, strategy)
      PROVE  FALSE
  <2> DEFINE q == [id |-> n, strategy |-> strategy, superseded |-> TRUE, result |-> doc.rev,
                   preserved |-> {}]
  <2>1. doc'.resolved = doc.resolved \cup {q}
    BY <1>1, <1>5 DEF SupersedeConflict, Documents
  <2>2. r = q
    BY <2>1
  <2> QED
    BY <2>2
<1>6. ASSUME NEW n \in DOMAIN uploads, NEW strategy \in Strategies, ResolveConflict(n, strategy)
      PROVE  r.id = n /\ r.strategy = strategy
  <2> DEFINE e == uploads[n]
             q == [id |-> n, strategy |-> strategy, superseded |-> FALSE,
                   result |-> [doc.rev EXCEPT ![e.source] = e.rev],
                   preserved |-> Proposed(e, doc.strokes) \ Selected(e, strategy)]
  <2>1. doc'.resolved = doc.resolved \cup {q}
    BY <1>1, <1>6 DEF ResolveConflict, Documents
  <2>2. r = q
    BY <2>1
  <2> QED
    BY <2>2
<1> QED
  BY <1>3, <1>4, <1>5, <1>6 DEF Next, Process

(* "a later update cannot be overwritten using stale analysis": whatever happened
   between inspect_conflict and resolve_conflict, a merge that is carried out
   changes exactly the strokes the operator was shown as safe. *)
THEOREM MergeExact == ASSUME BrokerAssumption PROVE Spec => MergesAsAnalysed
<1>1. ASSUME IInv, [Next]_vars PROVE MergesAsAnalysedStep
  <2> SUFFICES ASSUME NEW r \in doc'.resolved \ doc.resolved,
                      r.strategy = "merge_preserving_current", ~r.superseded
               PROVE  {s \in Strokes : doc'.strokes[s] # doc.strokes[s]} = analysis[r.id].safe
    BY DEF MergesAsAnalysedStep
  <2>1. PICK n \in DOMAIN uploads : r.id = n /\ ResolveConflict(n, r.strategy)
    BY <1>1, ResolvedGrows
  <2> DEFINE e == uploads[n]
             ops == SafeChanges(e)
             revs == [doc.rev EXCEPT ![e.source] = e.rev]
             content == e.content
             source == e.source
             strokes == ApplyOperations(doc.strokes, ops, content, source, revs)
  <2>2. /\ n \in Ids /\ source \in Sides /\ e.rev \in Nat
        /\ content \in [Strokes -> 0..MaxUploads] /\ doc \in Documents
        /\ doc.rev \in [Sides -> Nat] /\ doc.strokes \in [Strokes -> CanonicalStrokes \cup {None}]
    BY <1>1, UploadType, DocType DEF IInv, TypeOK
  <2>3. Current(n) /\ ValidProposal(e) /\ e.rev > doc.rev[source]
    BY <2>1 DEF ResolveConflict
  <2>4. ops \subseteq Strokes /\ Erasable(doc.strokes, ops, content)
    <3>1. ops \subseteq Proposed(e, doc.strokes) /\ Proposed(e, doc.strokes) \subseteq Strokes
      <4>1. "merge_preserving_current" \in Strategies
        BY DEF Strategies
      <4>2. Selected(e, "merge_preserving_current") = ops
        BY DEF Selected
      <4> HIDE DEF e, ops
      <4> QED
        BY <4>1, <4>2, SelectedProposed DEF e
    <3>2. TypeOK
      BY <1>1 DEF IInv
    <3>3. ASSUME NEW s \in Strokes, s \in ops, content[s] = 0
          PROVE  doc.strokes[s] # None
      BY <2>3, <3>1, <3>2, <3>3, ErasesKnown
    <3> QED
      BY <3>1, <3>3 DEF Erasable
  <2>5. doc'.strokes = strokes
    <3>1. Selected(e, r.strategy) = ops
      BY DEF Selected
    <3> QED
      BY <2>1, <2>2, <3>1 DEF ResolveConflict, Documents
  <2>6. revs \in RevisionPairs /\ revs[source] = e.rev
    BY <2>2 DEF RevisionPairs
  <2>7. Rewritten(strokes, doc.strokes, ops, revs)
    <3> HIDE DEF ops, revs, content, source
    <3> QED
      BY <2>2, <2>4, <2>6, ApplyType
  <2>8. analysis[n].safe = ops
    BY <1>1, <2>2, <2>3 DEF Current, IInv, AnalysesOK, Safe
  <2> HIDE DEF strokes, ops, revs, content
  <2>9. ASSUME NEW s \in Strokes PROVE strokes[s] # doc.strokes[s] <=> s \in ops
    <3>1. CASE s \notin ops
      BY <2>7, <3>1 DEF Rewritten
    <3>2. CASE s \in ops
      <4>1. strokes[s] \in CanonicalStrokes /\ strokes[s].revs[source] = e.rev
        BY <2>6, <2>7, <3>2 DEF Rewritten
      <4>2. CASE doc.strokes[s] = None
        BY <3>2, <4>1, <4>2 DEF BrokerAssumption
      <4>3. CASE doc.strokes[s] # None
        <5>1. doc.strokes[s].revs[source] <= doc.rev[source] /\ doc.strokes[s].revs[source] \in Nat
          BY <1>1, <2>2, <4>3 DEF IInv, StrokesOK, CanonicalStrokes, RevisionPairs
        <5>2. doc.strokes[s].revs[source] # e.rev
          BY <2>2, <2>3, <5>1
        <5> QED
          BY <3>2, <4>1, <5>2
      <4> QED
        BY <4>2, <4>3
    <3> QED
      BY <3>1, <3>2
  <2> QED
    BY <2>1, <2>4, <2>5, <2>8, <2>9
<1> QED
  BY <1>1, Invariance, PTL DEF Spec, MergesAsAnalysed
---------------------------------------------------------------------------
(* The frontier of a device is a promise about content: whoever knows the
   other device's revision has started from the strokes it left.  SInv carries
   that promise from the synchronisation of a device through its exports, also
   those whose transport died before the checkpoint, to the moment the broker
   compares frontiers. *)

(* What a device has seen of the other's frontier is behind it. *)
FrontierOK ==
    /\ \A side \in Sides : dev[side].peer <= doc.rev[Other(side)]
    /\ \A n \in DOMAIN uploads :
          uploads[n].basedOn[Other(uploads[n].source)] <= doc.rev[Other(uploads[n].source)]

(* A device is at most one export ahead of its checkpoint, and a transport that
   died left what that export started from as it was. *)
ChainOK ==
    /\ \A n \in DOMAIN uploads : uploads[n].rev <= dev[uploads[n].source].own + 1
    /\ \A side \in Sides : Unrecorded(side) # {} =>
          \E m \in Exports(side) : /\ uploads[m].base = dev[side].base
                                   /\ uploads[m].basedOn[Other(side)] = dev[side].peer

(* The device, or one of its first k exports, started from the stroke as it is. *)
SeenBy(side, k, s) == \E m \in 1..k : m \in Exports(side) /\ Saw(m, s)

(* The stroke is what the other device made of it, at a revision that frontier covers. *)
ForeignAt(side, s, frontier) ==
    /\ doc.strokes[s] # None /\ doc.strokes[s].by # side
    /\ doc.strokes[s].revs[Other(side)] <= frontier

(* Whoever knows the other device's revision knows the strokes it left. *)
SeenOK ==
    /\ \A side \in Sides, s \in Strokes : ForeignAt(side, s, dev[side].peer) =>
          \/ dev[side].base[s] = Active(doc.strokes)[s]
          \/ SeenBy(side, Len(uploads), s)
    /\ \A n \in DOMAIN uploads, s \in Strokes :
          ForeignAt(uploads[n].source, s, uploads[n].basedOn[Other(uploads[n].source)]) =>
             SeenBy(uploads[n].source, n, s)

(* A decision that turned strokes down moved the frontier to its own export. *)
ResultOK ==
    \A r \in doc.resolved : r.preserved # {} =>
        r.result[uploads[r.id].source] = uploads[r.id].rev

SInv == FrontierOK /\ ChainOK /\ SeenOK /\ ResultOK

-----------------------------------------------------------------------------
(* Every device has exactly one other side. *)
LEMMA OtherSide ==
    ASSUME NEW side \in Sides
    PROVE  /\ Other(side) \in Sides /\ Other(side) # side
           /\ \A x \in Sides : x # side => x = Other(side)
  BY DEF Sides, Other, Boox, Supernote

(* What is active of a stroke depends on that stroke alone. *)
LEMMA ActiveSame ==
    ASSUME NEW s \in Strokes, doc'.strokes[s] = doc.strokes[s]
    PROVE  Active(doc'.strokes)[s] = Active(doc.strokes)[s]
  BY DEF Active

-----------------------------------------------------------------------------
(* Steps that touch neither strokes nor frontiers nor devices. *)
LEMMA QuietSInv ==
    ASSUME SInv, UNCHANGED <<uploads, dev>>, doc'.strokes = doc.strokes, doc'.rev = doc.rev,
           \A r \in doc'.resolved \ doc.resolved : r.preserved = {}
    PROVE  SInv'
<1>1. \A side, s, k : ForeignAt(side, s, k)' <=> ForeignAt(side, s, k)
  BY DEF ForeignAt
<1>2. \A side, s, k : SeenBy(side, k, s)' <=> SeenBy(side, k, s)
  BY DEF SeenBy, Saw, Exports
<1>3. FrontierOK'
  BY DEF SInv, FrontierOK
<1>4. ChainOK'
  BY DEF SInv, ChainOK, Unrecorded, Exports
<1>5. SeenOK'
  BY <1>1, <1>2 DEF SInv, SeenOK
<1>6. ResultOK'
  BY DEF SInv, ResultOK
<1> QED
  BY <1>3, <1>4, <1>5, <1>6 DEF SInv

(* An accepted export, or a decided one: the strokes it changes carry its revision,
   which the other device has not seen yet. *)
LEMMA RewriteSInv ==
    ASSUME BrokerAssumption, TypeOK, FrontierOK, ChainOK, SeenOK,
           NEW source \in Sides, NEW ops, NEW k \in Nat,
           k >= doc.rev[source], ops # {} => k > doc.rev[source],
           UNCHANGED <<uploads, dev>>,
           doc'.rev = [doc.rev EXCEPT ![source] = k],
           \A s \in Strokes : s \in ops => doc'.strokes[s].by = source /\ doc'.strokes[s].revs = doc'.rev,
           \A s \in Strokes : s \notin ops => doc'.strokes[s] = doc.strokes[s]
    PROVE  FrontierOK' /\ ChainOK' /\ SeenOK'
<1>1. /\ doc.rev \in [Sides -> Nat] /\ doc'.rev[source] = k
      /\ \A x \in Sides : doc'.rev[x] >= doc.rev[x] /\ doc'.rev[x] \in Nat
  BY DocType
<1>2. \A side \in Sides : dev[side].peer \in Nat
  BY DEF TypeOK, Devices
<1>3. \A n \in DOMAIN uploads : /\ uploads[n].source \in Sides
                                /\ uploads[n].basedOn[Other(uploads[n].source)] \in Nat
  BY UploadType, OtherSide
<1>4. FrontierOK'
  BY <1>1, <1>2, <1>3, OtherSide DEF FrontierOK
<1>5. ChainOK'
  BY DEF ChainOK, Unrecorded, Exports
<1>6. ASSUME NEW side \in Sides, NEW s \in Strokes, NEW f \in Nat, f <= doc.rev[Other(side)],
             ForeignAt(side, s, f)'
      PROVE  s \notin ops /\ ForeignAt(side, s, f)
  <2>1. Other(side) \in Sides
    BY OtherSide
  <2>2. ASSUME s \in ops PROVE FALSE
    <3>1. source = Other(side) /\ doc'.strokes[s].revs[Other(side)] = k
      BY <1>1, <1>6, <2>2, OtherSide DEF ForeignAt
    <3>2. doc'.strokes[s].revs[Other(side)] <= f
      BY <1>6 DEF ForeignAt
    <3> QED
      BY <1>1, <1>6, <2>1, <2>2, <3>1, <3>2
  <2> QED
    BY <1>6, <2>2 DEF ForeignAt
<1>7. ASSUME NEW side \in Sides, NEW s \in Strokes, s \notin ops
      PROVE  /\ (Active(doc.strokes)[s])' = Active(doc.strokes)[s]
             /\ \A j : SeenBy(side, j, s)' <=> SeenBy(side, j, s)
  <2>1. doc'.strokes[s] = doc.strokes[s]
    BY <1>7
  <2>2. Active(doc'.strokes)[s] = Active(doc.strokes)[s]
    BY <2>1, ActiveSame
  <2>3. \A m : Saw(m, s)' <=> Saw(m, s)
    BY <2>1, <2>2 DEF Saw
  <2> QED
    BY <2>2, <2>3 DEF SeenBy, Exports
<1>8. ASSUME NEW side \in Sides, NEW s \in Strokes, ForeignAt(side, s, dev[side].peer)'
      PROVE  dev[side].base[s]' = (Active(doc.strokes)[s])' \/ SeenBy(side, Len(uploads), s)'
  <2> DEFINE f == dev[side].peer
  <2>1. f \in Nat /\ f <= doc.rev[Other(side)]
    BY <1>2 DEF FrontierOK
  <2>2. s \notin ops /\ ForeignAt(side, s, f)
    BY <1>6, <1>8, <2>1 DEF ForeignAt
  <2>3. dev[side].base[s] = Active(doc.strokes)[s] \/ SeenBy(side, Len(uploads), s)
    BY <2>2 DEF SeenOK
  <2>4. (Active(doc.strokes)[s])' = Active(doc.strokes)[s]
    BY <1>7, <2>2
  <2>5. SeenBy(side, Len(uploads), s)' <=> SeenBy(side, Len(uploads), s)
    BY <1>7, <2>2 DEF SeenBy
  <2> QED
    BY <2>3, <2>4, <2>5
<1>9. ASSUME NEW n \in DOMAIN uploads, NEW s \in Strokes,
             ForeignAt(uploads[n].source, s, uploads[n].basedOn[Other(uploads[n].source)])'
      PROVE  SeenBy(uploads[n].source, n, s)'
  <2> DEFINE f == uploads[n].basedOn[Other(uploads[n].source)]
  <2>1. f \in Nat /\ f <= doc.rev[Other(uploads[n].source)] /\ uploads[n].source \in Sides
    BY <1>3 DEF FrontierOK
  <2>2. s \notin ops /\ ForeignAt(uploads[n].source, s, f)
    BY <1>6, <1>9, <2>1 DEF ForeignAt
  <2> QED
    BY <1>7, <2>1, <2>2 DEF SeenOK
<1>10. SeenOK'
  BY <1>8, <1>9 DEF SeenOK
<1> QED
  BY <1>4, <1>5, <1>10

-----------------------------------------------------------------------------
(* The devices. *)

(* Export: the new export saw what the device had, and what the device made of it
   since then takes nothing away. *)
LEMMA ExportSInv ==
    ASSUME BrokerAssumption, IInv, SInv, NEW side \in Sides, NEW edited \in SUBSET Strokes,
           NEW erased \in SUBSET edited, NEW dies \in BOOLEAN, Export(side, edited, erased, dies)
    PROVE  SInv'
<1> DEFINE id == Len(uploads) + 1
           d == dev[side]
           content == [s \in Strokes |-> IF s \in erased THEN 0
                                         ELSE IF s \in edited THEN id ELSE d.local[s]]
           basedOn == [x \in Sides |-> IF x = side THEN d.own ELSE d.peer]
           e == [source |-> side, rev |-> d.own + 1, basedOn |-> basedOn, base |-> d.base,
                 content |-> content]
<1>1. /\ TypeOK /\ d \in Devices /\ uploads \in Seq(StorageEvents) /\ Len(uploads) \in Nat
      /\ dev \in [Sides -> Devices] /\ d.own \in Nat /\ d.peer \in Nat
  BY DEF IInv, TypeOK, Devices
<1>2. uploads' = Append(uploads, e) /\ UNCHANGED <<doc, echoes, analysis, consumed>>
  BY DEF Export
<1>3. /\ \A x \in Sides : x # side => dev'[x] = dev[x]
      /\ dev'[side].peer = d.peer
      /\ dies => dev'[side].own = d.own /\ dev'[side].base = d.base
      /\ ~dies => dev'[side].own = d.own + 1
  <2>1. dev' = [dev EXCEPT ![side] =
                  IF dies THEN [d EXCEPT !.local = content]
                  ELSE [d EXCEPT !.own = @ + 1, !.base = content, !.local = content, !.synced = FALSE]]
    BY DEF Export
  <2> HIDE DEF content
  <2> QED
    BY <1>1, <2>1 DEF Devices
<1>4. /\ e.source = side /\ e.rev = d.own + 1 /\ e.base = d.base /\ e.basedOn[Other(side)] = d.peer
  BY OtherSide
<1>5. /\ DOMAIN uploads' = 1..(Len(uploads) + 1) /\ DOMAIN uploads = 1..Len(uploads)
      /\ Len(uploads') = Len(uploads) + 1 /\ uploads'[id] = e
      /\ \A n \in DOMAIN uploads : uploads'[n] = uploads[n]
  <2> HIDE DEF e
  <2> QED
    BY <1>1, <1>2
<1>6. id \in DOMAIN uploads' /\ id \notin DOMAIN uploads
      /\ \A n \in DOMAIN uploads' : n \in DOMAIN uploads \/ n = id
  BY <1>1, <1>5
<1> HIDE DEF id, e
<1>7. \A n \in DOMAIN uploads : /\ uploads[n].source \in Sides /\ uploads[n].rev \in Nat
                                /\ n \in 1..Len(uploads)
  BY <1>1, UploadType
<1>8. FrontierOK'
  <2>1. \A x \in Sides : dev'[x].peer <= doc.rev[Other(x)]
    BY <1>3 DEF SInv, FrontierOK
  <2>2. \A n \in DOMAIN uploads' :
          uploads'[n].basedOn[Other(uploads'[n].source)] <= doc.rev[Other(uploads'[n].source)]
    BY <1>4, <1>5, <1>6 DEF SInv, FrontierOK
  <2> QED
    BY <1>2, <2>1, <2>2 DEF FrontierOK
<1>9. ChainOK'
  <2>1. ASSUME NEW n \in DOMAIN uploads' PROVE uploads'[n].rev <= dev'[uploads'[n].source].own + 1
    <3>1. CASE n = id
      BY <1>1, <1>3, <1>4, <1>5, <3>1
    <3>2. CASE n \in DOMAIN uploads
      <4>1. uploads[n].rev <= dev[uploads[n].source].own + 1
        BY <3>2 DEF SInv, ChainOK
      <4>2. CASE uploads[n].source = side
        BY <1>1, <1>3, <1>5, <1>7, <3>2, <4>1, <4>2
      <4>3. CASE uploads[n].source # side
        BY <1>3, <1>5, <1>7, <3>2, <4>1, <4>3
      <4> QED
        BY <4>2, <4>3
    <3> QED
      BY <1>6, <3>1, <3>2
  <2>2. ASSUME NEW x \in Sides, x # side, Unrecorded(x)' # {}
        PROVE  \E m \in Exports(x)' : /\ uploads'[m].base = dev'[x].base
                                      /\ uploads'[m].basedOn[Other(x)] = dev'[x].peer
    <3>1. PICK n \in DOMAIN uploads' : uploads'[n].source = x /\ uploads'[n].rev > dev'[x].own
      BY <2>2 DEF Unrecorded, Exports
    <3>2. n \in DOMAIN uploads /\ uploads[n].source = x /\ uploads[n].rev > dev[x].own
      BY <1>3, <1>4, <1>5, <1>6, <2>2, <3>1
    <3>3. PICK m \in Exports(x) : /\ uploads[m].base = dev[x].base
                                  /\ uploads[m].basedOn[Other(x)] = dev[x].peer
      BY <3>2 DEF SInv, ChainOK, Unrecorded, Exports
    <3> QED
      BY <1>3, <1>5, <2>2, <3>3 DEF Exports
  <2>3. ASSUME Unrecorded(side)' # {}
        PROVE  \E m \in Exports(side)' : /\ uploads'[m].base = dev'[side].base
                                         /\ uploads'[m].basedOn[Other(side)] = dev'[side].peer
    <3>1. PICK n \in DOMAIN uploads' : uploads'[n].source = side /\ uploads'[n].rev > dev'[side].own
      BY <2>3 DEF Unrecorded, Exports
    <3>2. uploads'[n].rev <= d.own + 1 /\ uploads'[n].rev \in Nat
      BY <1>1, <1>4, <1>5, <1>6, <1>7, <3>1 DEF SInv, ChainOK
    <3>3. dies
      BY <1>1, <1>3, <3>1, <3>2
    <3>4. id \in Exports(side)'
      BY <1>4, <1>5, <1>6 DEF Exports
    <3> QED
      BY <1>3, <1>4, <1>5, <3>3, <3>4
  <2> QED
    BY <2>1, <2>2, <2>3 DEF ChainOK
<1> DEFINE sees(x, k, s) ==
             \E m \in 1..k : /\ m \in DOMAIN uploads' /\ uploads'[m].source = x
                             /\ uploads'[m].base[s] = Active(doc.strokes)[s]
                             /\ doc.strokes[s].revs[Other(x)] <= uploads'[m].basedOn[Other(x)]
<1>10. ASSUME NEW x \in Sides, NEW s \in Strokes, NEW k \in 0..Len(uploads), SeenBy(x, k, s),
              NEW j \in k..(Len(uploads) + 1)
       PROVE  sees(x, j, s)
  <2>1. PICK m \in 1..k : m \in Exports(x) /\ Saw(m, s)
    BY <1>10 DEF SeenBy
  <2>2. m \in DOMAIN uploads /\ uploads[m].source = x
    BY <2>1 DEF Exports
  <2>3. m \in 1..j
    BY <1>1, <2>1
  <2>4. m \in DOMAIN uploads' /\ uploads'[m] = uploads[m]
    BY <1>5, <2>2
  <2> QED
    BY <2>1, <2>2, <2>3, <2>4 DEF Saw
<1>11. ASSUME NEW s \in Strokes, ForeignAt(side, s, d.peer) PROVE sees(side, id, s)
  <2>1. CASE d.base[s] = Active(doc.strokes)[s]
    <3>1. id \in 1..id
      BY <1>1 DEF id
    <3>2. uploads'[id].source = side /\ uploads'[id].base[s] = Active(doc.strokes)[s]
      BY <1>4, <1>5, <2>1
    <3>3. doc.strokes[s].revs[Other(side)] <= uploads'[id].basedOn[Other(side)]
      BY <1>4, <1>5, <1>11 DEF ForeignAt
    <3> QED
      BY <1>6, <3>1, <3>2, <3>3
  <2>2. CASE SeenBy(side, Len(uploads), s)
    <3>1. Len(uploads) \in 0..Len(uploads) /\ id \in Len(uploads)..(Len(uploads) + 1)
      BY <1>1 DEF id
    <3> HIDE DEF sees
    <3> QED
      BY <1>10, <2>2, <3>1
  <2> QED
    BY <1>11, <2>1, <2>2 DEF SInv, SeenOK
<1>12. ASSUME NEW x \in Sides, NEW s \in Strokes, ForeignAt(x, s, dev[x].peer)
       PROVE  dev'[x].base[s] = Active(doc.strokes)[s] \/ sees(x, Len(uploads) + 1, s)
  <2> HIDE DEF sees
  <2>1. CASE x = side
    BY <1>11, <1>12, <2>1 DEF id
  <2>2. CASE x # side
    <3>1. dev[x].base[s] = Active(doc.strokes)[s] \/ SeenBy(x, Len(uploads), s)
      BY <1>12 DEF SInv, SeenOK
    <3>2. Len(uploads) \in 0..Len(uploads) /\ Len(uploads) + 1 \in Len(uploads)..(Len(uploads) + 1)
      BY <1>1
    <3> QED
      BY <1>3, <1>10, <2>2, <3>1, <3>2
  <2> QED
    BY <2>1, <2>2
<1>13. ASSUME NEW n \in DOMAIN uploads', NEW s \in Strokes,
              ForeignAt(uploads'[n].source, s, uploads'[n].basedOn[Other(uploads'[n].source)])
       PROVE  sees(uploads'[n].source, n, s)
  <2> HIDE DEF sees
  <2>1. CASE n = id
    BY <1>4, <1>5, <1>11, <1>13, <2>1
  <2>2. CASE n \in DOMAIN uploads
    <3>1. uploads'[n] = uploads[n] /\ uploads[n].source \in Sides
      BY <1>5, <1>7, <2>2
    <3>2. SeenBy(uploads[n].source, n, s)
      BY <1>13, <2>2, <3>1 DEF SInv, SeenOK
    <3>3. n \in 0..Len(uploads) /\ n \in n..(Len(uploads) + 1)
      BY <1>1, <1>7, <2>2
    <3> QED
      BY <1>10, <3>1, <3>2, <3>3
  <2> QED
    BY <1>6, <2>1, <2>2
<1>14. (Active(doc.strokes))' = Active(doc.strokes) /\ doc' = doc
  BY <1>2 DEF Active
<1>15. SeenOK'
  <2>1. ASSUME NEW x \in Sides, NEW s \in Strokes, ForeignAt(x, s, dev[x].peer)'
        PROVE  dev'[x].base[s] = (Active(doc.strokes)[s])' \/ SeenBy(x, Len(uploads), s)'
    <3>1. ForeignAt(x, s, dev[x].peer)
      <4>1. dev'[x].peer = dev[x].peer
        BY <1>3
      <4> QED
        BY <1>14, <2>1, <4>1 DEF ForeignAt
    <3>2. CASE dev'[x].base[s] = Active(doc.strokes)[s]
      BY <1>14, <3>2
    <3>3. CASE sees(x, Len(uploads) + 1, s)
      BY <1>5, <1>14, <3>3 DEF SeenBy, Exports, Saw
    <3> QED
      BY <1>12, <3>1, <3>2, <3>3
  <2>2. ASSUME NEW n \in DOMAIN uploads', NEW s \in Strokes,
               ForeignAt(uploads[n].source, s, uploads[n].basedOn[Other(uploads[n].source)])'
        PROVE  SeenBy(uploads[n].source, n, s)'
    <3>1. ForeignAt(uploads'[n].source, s, uploads'[n].basedOn[Other(uploads'[n].source)])
      BY <1>14, <2>2 DEF ForeignAt
    <3>2. sees(uploads'[n].source, n, s)
      BY <1>13, <3>1
    <3> QED
      BY <1>14, <3>2 DEF SeenBy, Exports, Saw
  <2> QED
    BY <2>1, <2>2 DEF SeenOK
<1>16. ResultOK'
  <2>1. \A r \in doc.resolved : r.id \in DOMAIN uploads
    BY DEF IInv, ProcessedOK
  <2> QED
    BY <1>2, <1>5, <2>1 DEF SInv, ResultOK
<1> QED
  BY <1>8, <1>9, <1>15, <1>16 DEF SInv

(* Record: the checkpoint moves past an export that started where the device did. *)
LEMMA RecordSInv ==
    ASSUME BrokerAssumption, IInv, SInv, NEW side \in Sides, Record(side)
    PROVE  SInv'
<1> DEFINE d == dev[side]
<1>1. /\ TypeOK /\ d \in Devices /\ dev \in [Sides -> Devices] /\ d.own \in Nat
  BY DEF IInv, TypeOK, Devices
<1>2. UNCHANGED <<doc, uploads, analysis, consumed>> /\ Unrecorded(side) # {}
  BY DEF Record
<1>3. /\ \A x \in Sides : x # side => dev'[x] = dev[x]
      /\ dev'[side].peer = d.peer /\ dev'[side].own = d.own + 1
  BY <1>1 DEF Record, Devices
<1>4. \A n \in DOMAIN uploads : uploads[n].source \in Sides /\ uploads[n].rev \in Nat
  BY <1>1, UploadType
<1>5. FrontierOK'
  BY <1>2, <1>3 DEF SInv, FrontierOK
<1>6. ChainOK'
  <2>1. ASSUME NEW n \in DOMAIN uploads PROVE uploads[n].rev <= dev'[uploads[n].source].own + 1
    <3>1. uploads[n].rev <= dev[uploads[n].source].own + 1
      BY DEF SInv, ChainOK
    <3> QED
      BY <1>1, <1>3, <1>4, <3>1
  <2>2. Unrecorded(side)' = {}
    <3>1. \A n \in Exports(side) : uploads[n].rev <= d.own + 1 /\ uploads[n].rev \in Nat
      BY <1>4 DEF SInv, ChainOK, Exports
    <3> QED
      BY <1>1, <1>2, <1>3, <3>1 DEF Unrecorded, Exports
  <2>3. \A x \in Sides : x # side => Unrecorded(x)' = Unrecorded(x)
    BY <1>2, <1>3 DEF Unrecorded, Exports
  <2> QED
    BY <1>2, <1>3, <2>1, <2>2, <2>3 DEF SInv, ChainOK, Exports
<1>7. \A x, k, s : SeenBy(x, k, s)' <=> SeenBy(x, k, s)
  BY <1>2 DEF SeenBy, Saw, Exports
<1>8. ASSUME NEW s \in Strokes, ForeignAt(side, s, d.peer)
      PROVE  SeenBy(side, Len(uploads), s)
  <2>1. CASE d.base[s] = Active(doc.strokes)[s]
    <3>1. PICK m \in Exports(side) : uploads[m].base = d.base /\ uploads[m].basedOn[Other(side)] = d.peer
      BY <1>2 DEF SInv, ChainOK
    <3>2. Saw(m, s)
      BY <1>8, <2>1, <3>1 DEF Saw, ForeignAt, Exports
    <3>3. m \in 1..Len(uploads)
      BY <1>1, UploadType DEF Exports
    <3> QED
      BY <3>2, <3>3 DEF SeenBy
  <2> QED
    BY <1>8, <2>1 DEF SInv, SeenOK
<1>9. SeenOK'
  <2>1. ASSUME NEW x \in Sides, NEW s \in Strokes, ForeignAt(x, s, dev[x].peer)'
        PROVE  dev'[x].base[s] = Active(doc.strokes)[s] \/ SeenBy(x, Len(uploads), s)
    <3>1. ForeignAt(x, s, dev[x].peer)
      <4>1. dev'[x].peer = dev[x].peer
        BY <1>3
      <4> QED
        BY <1>2, <2>1, <4>1 DEF ForeignAt
    <3> QED
      BY <1>3, <1>8, <3>1 DEF SInv, SeenOK
  <2>2. ASSUME NEW n \in DOMAIN uploads, NEW s \in Strokes,
               ForeignAt(uploads[n].source, s, uploads[n].basedOn[Other(uploads[n].source)])'
        PROVE  SeenBy(uploads[n].source, n, s)
    BY <1>2, <2>2 DEF SInv, SeenOK, ForeignAt
  <2>3. (Active(doc.strokes))' = Active(doc.strokes)
    BY <1>2 DEF Active
  <2> QED
    BY <1>2, <1>7, <2>1, <2>2, <2>3 DEF SeenOK
<1>10. ResultOK'
  BY <1>2 DEF SInv, ResultOK
<1> QED
  BY <1>5, <1>6, <1>9, <1>10 DEF SInv

(* Sync: the device starts from the active strokes at the current frontier. *)
LEMMA SyncSInv ==
    ASSUME BrokerAssumption, IInv, SInv, NEW side \in Sides, Sync(side)
    PROVE  SInv'
<1> DEFINE d == dev[side]
           active == Active(doc.strokes)
<1>1. /\ TypeOK /\ d \in Devices /\ dev \in [Sides -> Devices] /\ doc.rev \in [Sides -> Nat]
  BY DocType DEF IInv, TypeOK
<1>2. UNCHANGED <<doc, uploads, analysis, consumed>> /\ Unrecorded(side) = {}
  BY DEF Sync, Settled
<1>3. /\ \A x \in Sides : x # side => dev'[x] = dev[x]
      /\ dev'[side].peer = doc.rev[Other(side)] /\ dev'[side].own = d.own
      /\ dev'[side].base = active
  <2> HIDE DEF active
  <2>1. dev' = [dev EXCEPT ![side].peer = doc.rev[Other(side)], ![side].base = active,
                           ![side].local = active, ![side].synced = TRUE]
    BY DEF Sync, active
  <2> QED
    BY <1>1, <2>1 DEF Devices
<1>4. FrontierOK'
  <2>1. doc.rev[Other(side)] <= doc.rev[Other(side)]
    BY <1>1, OtherSide
  <2> QED
    BY <1>2, <1>3, <2>1 DEF SInv, FrontierOK
<1>5. ChainOK'
  <2>1. \A x \in Sides : dev'[x].own = dev[x].own
    BY <1>3
  <2>2. \A n \in DOMAIN uploads : uploads[n].source \in Sides
    BY <1>1, UploadType
  <2>3. \A x \in Sides : Unrecorded(x)' = Unrecorded(x)
    BY <1>2, <2>1 DEF Unrecorded, Exports
  <2> QED
    BY <1>2, <1>3, <2>1, <2>2, <2>3 DEF SInv, ChainOK, Exports
<1>6. \A x, k, s : SeenBy(x, k, s)' <=> SeenBy(x, k, s)
  BY <1>2 DEF SeenBy, Saw, Exports
<1>7. SeenOK'
  <2> HIDE DEF active
  <2>1. ASSUME NEW x \in Sides, NEW s \in Strokes, ForeignAt(x, s, dev[x].peer)'
        PROVE  dev'[x].base[s] = active[s] \/ SeenBy(x, Len(uploads), s)
    <3>1. CASE x = side
      BY <1>3, <3>1
    <3>2. CASE x # side
      <4>1. dev'[x] = dev[x]
        BY <1>3, <3>2
      <4>2. ForeignAt(x, s, dev[x].peer)
        BY <1>2, <2>1, <4>1 DEF ForeignAt
      <4> QED
        BY <4>1, <4>2 DEF SInv, SeenOK, active
    <3> QED
      BY <3>1, <3>2
  <2>2. ASSUME NEW n \in DOMAIN uploads, NEW s \in Strokes,
               ForeignAt(uploads[n].source, s, uploads[n].basedOn[Other(uploads[n].source)])'
        PROVE  SeenBy(uploads[n].source, n, s)
    BY <1>2, <2>2 DEF SInv, SeenOK, ForeignAt
  <2>3. (Active(doc.strokes))' = active
    BY <1>2 DEF Active, active
  <2> QED
    BY <1>2, <1>6, <2>1, <2>2, <2>3 DEF SeenOK
<1>8. ResultOK'
  BY <1>2 DEF SInv, ResultOK
<1> QED
  BY <1>4, <1>5, <1>7, <1>8 DEF SInv

-----------------------------------------------------------------------------
(* The broker. *)

(* The strokes an operation writes carry its source and its frontier. *)
LEMMA AppliedBy ==
    ASSUME NEW strokes, NEW ops, NEW content, NEW source, NEW revs, NEW s \in Strokes
    PROVE  LET result == ApplyOperations(strokes, ops, content, source, revs)
           IN  /\ s \in ops => result[s].by = source /\ result[s].revs = revs
               /\ s \notin ops => result[s] = strokes[s]
  BY DEF ApplyOperations

(* What Apply and ResolveConflict do to the canonical strokes and frontiers. *)
Rewrites(n, ops) ==
    LET e == uploads[n]
    IN  /\ e.rev >= doc.rev[e.source] /\ (ops # {} => e.rev > doc.rev[e.source])
        /\ doc'.rev = [doc.rev EXCEPT ![e.source] = e.rev]
        /\ doc'.strokes = ApplyOperations(doc.strokes, ops, e.content, e.source, doc'.rev)
        /\ UNCHANGED <<uploads, dev>>

(* A broker step that rewrites the strokes keeps SInv. *)
LEMMA RewritesSInv ==
    ASSUME BrokerAssumption, IInv, SInv, NEW n \in DOMAIN uploads, NEW ops, Rewrites(n, ops), ResultOK'
    PROVE  SInv'
<1> DEFINE e == uploads[n]
<1>1. TypeOK /\ FrontierOK /\ ChainOK /\ SeenOK
  BY DEF IInv, SInv
<1>2. e.source \in Sides /\ e.rev \in Nat
  BY <1>1, UploadType
<1>3. \A s \in Strokes : /\ s \in ops => doc'.strokes[s].by = e.source /\ doc'.strokes[s].revs = doc'.rev
                         /\ s \notin ops => doc'.strokes[s] = doc.strokes[s]
  BY AppliedBy DEF Rewrites
<1>4. /\ e.rev >= doc.rev[e.source] /\ (ops # {} => e.rev > doc.rev[e.source])
      /\ doc'.rev = [doc.rev EXCEPT ![e.source] = e.rev]
      /\ UNCHANGED <<uploads, dev>>
  BY DEF Rewrites
<1> HIDE DEF e
<1>5. FrontierOK' /\ ChainOK' /\ SeenOK'
  BY <1>1, <1>2, <1>3, <1>4, RewriteSInv
<1> QED
  BY <1>5 DEF SInv

(* Apply rewrites the strokes it applies. *)
LEMMA ApplyRewrites ==
    ASSUME BrokerAssumption, IInv, NEW n \in DOMAIN uploads, Apply(n)
    PROVE  /\ Rewrites(n, Applied(uploads[n], doc.strokes))
           /\ doc'.resolved = doc.resolved /\ consumed' = consumed \cup {n}
           /\ uploads[n].basedOn = doc.rev
<1> DEFINE e == uploads[n]
           ops == Applied(e, doc.strokes)
           revs == [doc.rev EXCEPT ![e.source] = e.rev]
           strokes == ApplyOperations(doc.strokes, ops, e.content, e.source, revs)
           k == doc.stateRev + 1
<1>1. /\ doc \in Documents /\ e.source \in Sides /\ e.rev \in Nat /\ doc.rev \in [Sides -> Nat]
  BY UploadType, DocType DEF IInv, TypeOK
<1>2. doc' = [doc EXCEPT !.strokes = strokes, !.rev = revs,
                         !.accepted = [doc.accepted EXCEPT ![e.source] = n],
                         !.processed = doc.processed \cup {n}, !.stateRev = k]
  BY DEF Apply
<1>3. e.rev > doc.rev[e.source] /\ e.basedOn = doc.rev
  BY <1>1 DEF Apply, Late
<1>4. consumed' = consumed \cup {n} /\ UNCHANGED <<uploads, dev>>
  BY DEF Apply
<1> HIDE DEF strokes, revs, k
<1>5. doc'.strokes = strokes /\ doc'.rev = revs /\ doc'.resolved = doc.resolved
  BY <1>1, <1>2 DEF Documents
<1>6. e.rev >= doc.rev[e.source]
  BY <1>1, <1>3
<1> HIDE DEF ops
<1>7. Rewrites(n, ops)
  BY <1>3, <1>4, <1>5, <1>6 DEF Rewrites, strokes, revs
<1> QED
  BY <1>3, <1>4, <1>5, <1>7 DEF ops

(* The record of a decision. *)
Decision(n, strategy) ==
    [id |-> n, strategy |-> strategy, superseded |-> FALSE,
     result |-> [doc.rev EXCEPT ![uploads[n].source] = uploads[n].rev],
     preserved |-> Proposed(uploads[n], doc.strokes) \ Selected(uploads[n], strategy)]

(* ResolveConflict rewrites the strokes the strategy selects. *)
LEMMA ResolveRewrites ==
    ASSUME BrokerAssumption, IInv, NEW n \in DOMAIN uploads, NEW strategy \in Strategies,
           ResolveConflict(n, strategy)
    PROVE  /\ Rewrites(n, Selected(uploads[n], strategy))
           /\ doc'.resolved = doc.resolved \cup {Decision(n, strategy)}
           /\ consumed' \ consumed \subseteq {n} /\ n \in doc.conflicts
<1> DEFINE e == uploads[n]
           advances == e.rev > doc.rev[e.source]
           ops == Selected(e, strategy)
           revs == [doc.rev EXCEPT ![e.source] = e.rev]
           strokes == ApplyOperations(doc.strokes, ops, e.content, e.source, revs)
           rs == doc.resolved \cup {Decision(n, strategy)}
           ac == IF advances THEN [doc.accepted EXCEPT ![e.source] = n] ELSE doc.accepted
           k == doc.stateRev + 1
<1>1. /\ doc \in Documents /\ e.source \in Sides /\ e.rev \in Nat /\ doc.rev \in [Sides -> Nat]
  BY UploadType, DocType DEF IInv, TypeOK
<1>2. doc' = [doc EXCEPT !.strokes = strokes, !.rev = revs, !.accepted = ac,
                         !.conflicts = doc.conflicts \ {n}, !.resolved = rs, !.stateRev = k]
  BY DEF ResolveConflict, Decision
<1>3. /\ e.rev >= doc.rev[e.source] /\ (advances \/ strategy = "keep_current")
      /\ n \in doc.conflicts
  BY DEF ResolveConflict, Current
<1>4. consumed' \ consumed \subseteq {n} /\ UNCHANGED <<uploads, dev>>
  BY DEF ResolveConflict
<1>5. ops # {} => advances
  BY <1>3 DEF Selected
<1> HIDE DEF strokes, revs, rs, ac, k
<1>6. doc'.strokes = strokes /\ doc'.rev = revs /\ doc'.resolved = rs
  BY <1>1, <1>2 DEF Documents
<1> HIDE DEF ops
<1>7. Rewrites(n, ops)
  BY <1>3, <1>4, <1>5, <1>6 DEF Rewrites, strokes, revs
<1> QED
  BY <1>3, <1>4, <1>6, <1>7 DEF ops, rs

(* Every other broker step is quiet. *)
LEMMA QuietSteps ==
    ASSUME BrokerAssumption, IInv,
           \/ IgnoreBrokerOutput \/ UNCHANGED vars
           \/ \E n \in DOMAIN uploads : \/ Duplicate(n) \/ IgnoreStale(n) \/ PreserveConflict(n)
                                        \/ Reject(n) \/ Inspect(n)
           \/ \E n \in DOMAIN uploads, strategy \in Strategies : SupersedeConflict(n, strategy)
    PROVE  /\ UNCHANGED <<uploads, dev, consumed>> /\ doc'.strokes = doc.strokes /\ doc'.rev = doc.rev
           /\ \A r \in doc'.resolved \ doc.resolved : r.preserved = {}
<1>1. doc \in Documents
  BY DEF IInv, TypeOK
<1>2. CASE IgnoreBrokerOutput
  BY <1>1, <1>2 DEF IgnoreBrokerOutput, Documents
<1>3. CASE UNCHANGED vars
  BY <1>3 DEF vars
<1>4. ASSUME NEW n \in DOMAIN uploads, Duplicate(n) \/ Reject(n)
      PROVE  UNCHANGED <<uploads, dev, consumed, doc>>
  BY <1>4 DEF Duplicate, Reject
<1>5. ASSUME NEW n \in DOMAIN uploads, Inspect(n)
      PROVE  UNCHANGED <<uploads, dev, consumed, doc>>
  BY <1>5 DEF Inspect
<1>6. ASSUME NEW n \in DOMAIN uploads, IgnoreStale(n)
      PROVE  /\ UNCHANGED <<uploads, dev, consumed>> /\ doc'.strokes = doc.strokes
             /\ doc'.rev = doc.rev /\ doc'.resolved = doc.resolved
  BY <1>1, <1>6 DEF IgnoreStale, Documents
<1>7. ASSUME NEW n \in DOMAIN uploads, PreserveConflict(n)
      PROVE  /\ UNCHANGED <<uploads, dev, consumed>> /\ doc'.strokes = doc.strokes
             /\ doc'.rev = doc.rev /\ doc'.resolved = doc.resolved
  BY <1>1, <1>7 DEF PreserveConflict, Documents
<1>8. ASSUME NEW n \in DOMAIN uploads, NEW strategy \in Strategies, SupersedeConflict(n, strategy)
      PROVE  /\ UNCHANGED <<uploads, dev, consumed>> /\ doc'.strokes = doc.strokes
             /\ doc'.rev = doc.rev /\ \A r \in doc'.resolved \ doc.resolved : r.preserved = {}
  <2> DEFINE q == [id |-> n, strategy |-> strategy, superseded |-> TRUE, result |-> doc.rev,
                   preserved |-> {}]
  <2>1. /\ doc'.resolved = doc.resolved \cup {q} /\ doc'.strokes = doc.strokes
        /\ doc'.rev = doc.rev /\ UNCHANGED <<uploads, dev, consumed>>
    BY <1>1, <1>8 DEF SupersedeConflict, Documents
  <2> QED
    BY <2>1
<1> QED
  BY <1>2, <1>3, <1>4, <1>5, <1>6, <1>7, <1>8

(* What a resolution writes satisfies ResultOK: a rejected change becomes its
   stroke's standing decision, a taken one is on the stroke. *)
LEMMA ResolveResultOK ==
    ASSUME BrokerAssumption, IInv, SInv, NEW n \in DOMAIN uploads, NEW strategy \in Strategies,
           ResolveConflict(n, strategy)
    PROVE  ResultOK'
<1>1. doc'.resolved = doc.resolved \cup {Decision(n, strategy)}
  BY ResolveRewrites
<1>2. doc.rev \in [Sides -> Nat] /\ uploads[n].source \in Sides /\ UNCHANGED uploads
  BY UploadType, DocType DEF IInv, TypeOK, ResolveConflict
<1>3. Decision(n, strategy).result[uploads[n].source] = uploads[n].rev /\ Decision(n, strategy).id = n
  BY <1>2 DEF Decision
<1> QED
  BY <1>1, <1>2, <1>3 DEF SInv, ResultOK

(* Every step keeps SInv. *)
LEMMA NextSInv ==
    ASSUME BrokerAssumption, IInv, SInv, [Next]_vars
    PROVE  SInv'
<1>1. ASSUME NEW side \in Sides, NEW edited \in SUBSET Strokes, NEW erased \in SUBSET edited,
             NEW dies \in BOOLEAN, Export(side, edited, erased, dies)
      PROVE  SInv'
  BY <1>1, ExportSInv
<1>2. ASSUME NEW side \in Sides, Record(side) \/ Sync(side) PROVE SInv'
  BY <1>2, RecordSInv, SyncSInv
<1>3. ASSUME NEW n \in DOMAIN uploads, Apply(n) PROVE SInv'
  <2>1. Rewrites(n, Applied(uploads[n], doc.strokes)) /\ doc'.resolved = doc.resolved
    BY <1>3, ApplyRewrites
  <2>2. ResultOK'
    BY <2>1 DEF SInv, ResultOK, Rewrites
  <2> QED
    BY <2>1, <2>2, RewritesSInv
<1>4. ASSUME NEW n \in DOMAIN uploads, NEW strategy \in Strategies, ResolveConflict(n, strategy)
      PROVE  SInv'
  BY <1>4, ResolveRewrites, ResolveResultOK, RewritesSInv
<1>5. ASSUME \/ IgnoreBrokerOutput \/ UNCHANGED vars
             \/ \E n \in DOMAIN uploads : \/ Duplicate(n) \/ IgnoreStale(n) \/ PreserveConflict(n)
                                          \/ Reject(n) \/ Inspect(n)
             \/ \E n \in DOMAIN uploads, strategy \in Strategies : SupersedeConflict(n, strategy)
      PROVE  SInv'
  BY <1>5, QuietSteps, QuietSInv
<1> QED
  BY <1>1, <1>2, <1>3, <1>4, <1>5 DEF Next, Process

(* SInv holds initially. *)
LEMMA InitSInv ==
    ASSUME BrokerAssumption, Init
    PROVE  SInv
<1>1. /\ uploads = <<>> /\ DOMAIN uploads = {} /\ doc.resolved = {}
      /\ doc.rev = Zero /\ doc.strokes = [s \in Strokes |-> None]
      /\ \A side \in Sides : dev[side].peer = 0
  BY DEF Init
<1>2. FrontierOK
  BY <1>1, OtherSide DEF FrontierOK, Zero
<1>3. ChainOK
  BY <1>1 DEF ChainOK, Unrecorded, Exports
<1>4. SeenOK
  BY <1>1 DEF SeenOK, ForeignAt
<1>5. ResultOK
  BY <1>1 DEF ResultOK
<1> QED
  BY <1>2, <1>3, <1>4, <1>5 DEF SInv

(* Both invariants hold throughout: whatever crashes, is redelivered or decided,
   a device that knows a revision has started from the strokes it left. *)
THEOREM SeenInvariance == ASSUME BrokerAssumption PROVE Spec => [](IInv /\ SInv)
<1>1. Init => SInv
  BY InitSInv
<1>2. IInv /\ SInv /\ [Next]_vars => SInv'
  BY NextSInv
<1> QED
  BY <1>1, <1>2, Invariance, PTL DEF Spec

-----------------------------------------------------------------------------
(* A frontier that covers the strokes covers what was seen. *)
LEMMA CoveredIsSeen ==
    ASSUME BrokerAssumption, IInv, SInv, NEW n \in DOMAIN uploads, NEW s \in Strokes,
           doc.strokes[s] # None => doc.strokes[s].revs[Other(uploads[n].source)]
                                    <= uploads[n].basedOn[Other(uploads[n].source)]
    PROVE  ~Unseen(n, s)
<1> SUFFICES ASSUME Unseen(n, s) PROVE FALSE
  OBVIOUS
<1>1. ForeignAt(uploads[n].source, s, uploads[n].basedOn[Other(uploads[n].source)])
  BY DEF Unseen, ForeignAt
<1>2. SeenBy(uploads[n].source, n, s)
  BY <1>1 DEF SInv, SeenOK
<1> QED
  BY <1>2 DEF SeenBy, Unseen, Exports

(* A decided merge is the decision of this step. *)
LEMMA MergeDecides ==
    ASSUME BrokerAssumption, IInv, NEW n \in DOMAIN uploads, NEW strategy \in Strategies,
           ResolveConflict(n, strategy), MergedBy(n)
    PROVE  strategy = "merge_preserving_current"
<1>1. doc'.resolved = doc.resolved \cup {Decision(n, strategy)} /\ n \in doc.conflicts
  BY ResolveRewrites
<1>2. PICK r \in doc'.resolved : r.id = n /\ r.strategy = "merge_preserving_current"
  BY DEF MergedBy
<1>3. r \notin doc.resolved
  BY <1>1, <1>2 DEF IInv, DecidedOnce
<1> QED
  BY <1>1, <1>2, <1>3 DEF Decision

(* A change classify_operations lets through was seen, and not turned down. *)
LEMMA SafeIsSeen ==
    ASSUME BrokerAssumption, IInv, SInv, NEW n \in DOMAIN uploads, NEW s \in Strokes,
           SafeChange(uploads[n], s)
    PROVE  ~Unseen(n, s) /\ ~TurnedDown(uploads[n], s)
<1> DEFINE e == uploads[n]
<1>1. /\ e.source \in Sides /\ Other(e.source) \in Sides /\ e.rev \in Nat
      /\ e.basedOn \in [Sides -> Nat] /\ e.rev >= 1 /\ e.basedOn[e.source] = e.rev - 1
  BY UploadType, OtherSide DEF IInv, UploadsOK
<1>2. ASSUME doc.strokes[s] # None PROVE doc.strokes[s].revs \in [Sides -> Nat]
  BY <1>2, DocType DEF IInv, CanonicalStrokes, RevisionPairs
<1>3. ASSUME doc.strokes[s] # None
      PROVE  doc.strokes[s].revs[Other(e.source)] <= e.basedOn[Other(e.source)]
  <2>1. ~ChangedAfter(doc.strokes[s].revs, e.basedOn)
    BY <1>3 DEF SafeChange
  <2> QED
    BY <1>1, <1>2, <1>3, <2>1 DEF ChangedAfter
<1>4. ~Unseen(n, s)
  BY <1>3, CoveredIsSeen
<1>5. ASSUME NEW r \in doc.resolved, uploads[r.id].source = e.source, uploads[r.id].rev < e.rev,
             doc.strokes[s] # None => doc.strokes[s].revs[e.source] <= uploads[r.id].rev,
             s \in r.preserved
      PROVE  FALSE
  <2>1. r.result[e.source] = uploads[r.id].rev
    BY <1>5 DEF SInv, ResultOK
  <2>2. uploads[r.id].rev \in Nat
    BY <1>5, UploadType DEF IInv, ProcessedOK
  <2>3. r.result[e.source] <= e.basedOn[e.source]
    BY <1>1, <1>5, <2>1, <2>2
  <2>4. InheritedRejectedChange(e, s)
    BY <1>5, <2>1, <2>3 DEF InheritedRejectedChange
  <2> QED
    BY <2>4 DEF SafeChange
<1> QED
  BY <1>4, <1>5 DEF TurnedDown

(* "It preserves both inputs", "later same page Supernote conflict does not
   reintroduce rejected ink": whatever process accepts and a merge selects, every
   stroke it overwrites was seen by the device it came from, in its current
   state, and no earlier decision that still stands had turned the change down. *)
THEOREM UnseenStands == ASSUME BrokerAssumption PROVE Spec => UnseenInkStands
<1>1. ASSUME IInv, SInv, NEW n \in DOMAIN uploads, Apply(n)
      PROVE  NoUnseenOverwriteStep /\ NoRejectedRevivalStep
  <2>1. consumed' = consumed \cup {n} /\ uploads[n].basedOn = doc.rev
    BY <1>1, ApplyRewrites
  <2>2. Other(uploads[n].source) \in Sides
    BY <1>1, UploadType, OtherSide DEF IInv
  <2>3. \A s \in Strokes : ~Unseen(n, s)
    BY <1>1, <2>1, <2>2, CoveredIsSeen DEF IInv, StrokesOK
  <2>4. n \notin doc.conflicts
    BY <1>1 DEF Apply, Fresh, IInv, ProcessedOK
  <2> QED
    BY <2>1, <2>3, <2>4 DEF NoUnseenOverwriteStep, NoRejectedRevivalStep
<1>2. ASSUME IInv, SInv, NEW n \in DOMAIN uploads, NEW strategy \in Strategies,
             ResolveConflict(n, strategy)
      PROVE  NoUnseenOverwriteStep /\ NoRejectedRevivalStep
  <2>1. /\ Rewrites(n, Selected(uploads[n], strategy))
        /\ consumed' \ consumed \subseteq {n} /\ n \in doc.conflicts
    BY <1>2, ResolveRewrites
  <2>2. ASSUME MergedBy(n), NEW s \in Strokes, Unseen(n, s) \/ TurnedDown(uploads[n], s)
        PROVE  Active(doc'.strokes)[s] = Active(doc.strokes)[s]
    <3>1. Selected(uploads[n], strategy) = SafeChanges(uploads[n])
      BY <1>2, <2>2, MergeDecides DEF Selected
    <3>2. s \notin Selected(uploads[n], strategy)
      BY <1>2, <2>2, <3>1, SafeIsSeen DEF SafeChanges
    <3>3. doc'.strokes[s] = doc.strokes[s]
      BY <2>1, <3>2, AppliedBy DEF Rewrites
    <3> QED
      BY <3>3, ActiveSame
  <2> QED
    BY <2>1, <2>2 DEF NoUnseenOverwriteStep, NoRejectedRevivalStep
<1>3. ASSUME consumed' = consumed
      PROVE  NoUnseenOverwriteStep /\ NoRejectedRevivalStep
  BY <1>3 DEF NoUnseenOverwriteStep, NoRejectedRevivalStep
<1>4. ASSUME NEW side \in Sides, NEW edited \in SUBSET Strokes, NEW erased \in SUBSET edited,
             NEW dies \in BOOLEAN, Export(side, edited, erased, dies)
      PROVE  consumed' = consumed
  BY <1>4 DEF Export
<1>5. ASSUME NEW side \in Sides, Record(side) \/ Sync(side) PROVE consumed' = consumed
  BY <1>5 DEF Record, Sync
<1>6. ASSUME IInv,
             \/ IgnoreBrokerOutput \/ UNCHANGED vars
             \/ \E n \in DOMAIN uploads : \/ Duplicate(n) \/ IgnoreStale(n) \/ PreserveConflict(n)
                                          \/ Reject(n) \/ Inspect(n)
             \/ \E n \in DOMAIN uploads, strategy \in Strategies : SupersedeConflict(n, strategy)
      PROVE  consumed' = consumed
  BY <1>6, QuietSteps
<1>7. IInv /\ SInv /\ [Next]_vars => NoUnseenOverwriteStep /\ NoRejectedRevivalStep
  BY <1>1, <1>2, <1>3, <1>4, <1>5, <1>6 DEF Next, Process
<1> QED
  BY <1>7, SeenInvariance, PTL DEF Spec, UnseenInkStands
=============================================================================
