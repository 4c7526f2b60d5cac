---------------------------- MODULE BooxHandoff ----------------------------
(***************************************************************************)
(* The folder transport with a BOOX handoff root (its normal mode): broker *)
(* views go to the companion as versioned PDF + descriptor pairs under     *)
(* incoming/, the companion's finalized artifacts come back as pairs under *)
(* outgoing/, and an acknowledgement file says which view is installed.    *)
(* boox_handoff.rs and the handoff paths of transport.rs step by step; the *)
(* companion is modelled by what it publishes, each of its commits atomic. *)
(***************************************************************************)
EXTENDS Naturals, FiniteSets

CONSTANTS MaxBooxEdits, MaxSupernoteEdits, MaxLateEdits, MaxCrashes, MaxDrops, MaxLosses,
          Sequential,    \* TRUE: people edit only when everything is in step
          None

\* What an acknowledgement names, and what the companion has committed.
Frontiers == [boox : Nat, supernote : Nat]
Receipts == [gen : Nat, rev : Frontiers, ink : SUBSET Nat]
Snapshots == [based : Frontiers, ink : SUBSET Nat]
Committed == [gen : Nat, rev : Frontiers, installed : SUBSET Nat, current : SUBSET Nat,
            finalized : Snapshots \cup {None}]

HandoffAssumption ==
    /\ {MaxBooxEdits, MaxSupernoteEdits, MaxLateEdits, MaxCrashes, MaxDrops, MaxLosses} \subseteq Nat
    /\ Sequential \in BOOLEAN
    /\ None \notin Receipts \cup Committed

VARIABLES canon,      \* the broker's revisions and ink
          uploads,    \* source objects under uploads/
          processed,  \* those the broker has handled
          conflicts,  \* uploads under Conflicts/ with no marker yet
          accepted,   \* uploads whose ink the broker took into its state
          view,       \* the live generation of the BOOX view object
          manifests,  \* operation manifests for the Supernote
          generation, \* the store's generation counter
          device,     \* the companion's committed handoff state
          retired,    \* the predecessor NeoReader may still be writing
          ack,        \* .inkbridge-installed.json
          sending,    \* finished outgoing files the mirror has not shown yet
          inPdf, inDesc,   \* deliveries whose PDF / descriptor is in incoming/
          outPdf, outDesc, \* artifacts whose PDF / descriptor is in outgoing/
          markers,    \* artifacts with a retirement marker
          noted,      \* manifests put in the Supernote incoming folder
          saved, work, pc, todo, seen, \* the journal, and the poll's locals
          used        \* the counters behind the bounds

brokerVars == <<canon, processed, conflicts, accepted, view, manifests, generation>>
companionVars == <<device, retired, ack, sending>>
outVars == <<outPdf, outDesc, markers>>
inVars == <<inPdf, inDesc, noted>>
pollVars == <<saved, work, pc, todo, seen>>
vars == <<brokerVars, uploads, companionVars, outVars, inVars, pollVars, used>>

Zero == [boox |-> 0, supernote |-> 0]
Dominates(a, b) == a.boox >= b.boox /\ a.supernote >= b.supernote
StrictlyDominates(a, b) == a # b /\ Dominates(a, b)

\* A finalized snapshot; its event id is a hash of both fields, and its source
\* revision follows the BOOX revision it is based on.
Artifact(based, strokes) == [based |-> based, ink |-> strokes]
RevisionOf(a) == a.based.boox + 1

EmptyJournal == [rev |-> Zero, pending |-> None, note |-> 0, delivered |-> None,
                 generations |-> {}, uploaded |-> {}, accepted |-> {}, receipt |-> None,
                 conflict |-> FALSE]

\* The document is registered, its Supernote baseline accepted and its first
\* view published.
Init == /\ canon = [rev |-> Zero, ink |-> {}] /\ generation = 1
        /\ view = [gen |-> 1, rev |-> Zero, ink |-> {}]
        /\ uploads = {} /\ processed = {} /\ conflicts = {} /\ accepted = {} /\ manifests = {}
        /\ device = None /\ retired = None /\ ack = None /\ sending = {}
        /\ inPdf = {} /\ inDesc = {} /\ outPdf = {} /\ outDesc = {} /\ markers = {} /\ noted = {}
        /\ saved = EmptyJournal /\ work = EmptyJournal /\ pc = "idle" /\ todo = {} /\ seen = None
        /\ used = [boox |-> 0, note |-> 0, late |-> 0, crashes |-> 0, drops |-> 0, losses |-> 0]

Count(field) == used' = [used EXCEPT ![field] = @ + 1]
-----------------------------------------------------------------------------
(* The companion and NeoReader *)

\* Everything drawn has reached the broker, the journal and the BOOX.
InStep == /\ uploads = processed /\ conflicts = {} /\ sending = {}
          /\ saved.rev = canon.rev /\ saved.pending = None /\ saved.note = 0
          /\ device # None /\ device.current = canon.ink

\* NeoReader saves one more stroke into the active PDF.
BooxEdit == /\ device # None /\ used.boox < MaxBooxEdits /\ Count("boox")
            /\ Sequential => InStep
            /\ device' = [device EXCEPT !.current = @ \cup {10 + used.boox}]
            /\ UNCHANGED <<brokerVars, uploads, retired, ack, sending, outVars, inVars, pollVars>>

\* The companion wrote a snapshot's PDF and then its descriptor.
Written(a) == {[file |-> f, of |-> a] : f \in {"pdf", "descriptor"}}

Finalize == /\ device # None /\ device.finalized = None /\ device.current # device.installed
            /\ LET a == Artifact(device.rev, device.current)
               IN  /\ device' = [device EXCEPT !.finalized = a]
                   /\ sending' = sending \cup Written(a)
            /\ UNCHANGED <<brokerVars, uploads, retired, ack, outVars, inVars, pollVars, used>>

\* The folder mirror shows one finished file; it may reorder a pair.
Mirror(f) == /\ f \in sending /\ sending' = sending \ {f}
             /\ IF f.file = "pdf" THEN outPdf' = outPdf \cup {f.of} /\ UNCHANGED outDesc
                ELSE outDesc' = outDesc \cup {f.of} /\ UNCHANGED outPdf
             /\ UNCHANGED <<brokerVars, uploads, device, retired, ack, markers, inVars, pollVars, used>>

\* decideInstall for a delivery on top of an installed one.
MayInstall(d) ==
    /\ StrictlyDominates(d.rev, device.rev) /\ d.gen > device.gen
    /\ IF device.finalized = None THEN device.current = device.installed
       ELSE d.rev.boox > device.rev.boox

\* Edits after a finalization are finalized first, on the same revision.
Leftover == IF device.finalized # None /\ device.current \notin {device.installed, device.finalized.ink}
            THEN Written(Artifact(device.rev, device.current)) ELSE {}

Install(d) ==
    /\ d \in inPdf \cap inDesc
    /\ device # None => MayInstall(d)
    /\ device' = [rev |-> d.rev, gen |-> d.gen, installed |-> d.ink, current |-> d.ink,
                  finalized |-> None]
    /\ IF device = None THEN UNCHANGED <<retired, sending>>
       ELSE /\ retired' = [rev |-> device.rev, ink |-> device.current]
            /\ sending' = sending \cup Leftover
    /\ UNCHANGED <<brokerVars, uploads, ack, outVars, inVars, pollVars, used>>

\* ensureInstallAcknowledgement, on this or a later start of the companion.
Acknowledge == /\ device # None
               /\ ack' = [rev |-> device.rev, gen |-> device.gen, ink |-> device.installed]
               /\ ack' # ack
               /\ UNCHANGED <<brokerVars, uploads, device, retired, sending, outVars, inVars,
                              pollVars, used>>

\* NeoReader saves into the retired predecessor it still has open; the
\* companion publishes what it finds there.
LateEdit == /\ retired # None /\ used.late < MaxLateEdits /\ Count("late")
            /\ retired' = [retired EXCEPT !.ink = @ \cup {30 + used.late}]
            /\ sending' = sending \cup Written(Artifact(retired.rev, retired'.ink))
            /\ UNCHANGED <<brokerVars, uploads, device, ack, outVars, inVars, pollVars>>

\* The mirror loses one file of a delivery.
Drop == /\ used.drops < MaxDrops /\ Count("drops")
        /\ \/ \E d \in inPdf : inPdf' = inPdf \ {d} /\ UNCHANGED inDesc
           \/ \E d \in inDesc : inDesc' = inDesc \ {d} /\ UNCHANGED inPdf
        /\ UNCHANGED <<brokerVars, uploads, companionVars, outVars, noted, pollVars>>
-----------------------------------------------------------------------------
(* The broker, as in FolderTransport *)

Manifest(rev, gen) == [gen |-> gen, rev |-> rev]
NewInk(u) == IF u.side = "boox" THEN u.ink ELSE canon.ink \cup u.ink

Process(u) ==
    /\ u \in uploads \ processed
    /\ processed' = processed \cup {u}
    /\ \/ /\ u.based = canon.rev
          /\ LET rev == [canon.rev EXCEPT ![u.side] = u.rev]
             IN  /\ canon' = [rev |-> rev, ink |-> NewInk(u)]
                 /\ generation' = generation + 1
                 /\ IF u.side = "boox"
                    THEN manifests' = manifests \cup {Manifest(rev, generation')} /\ UNCHANGED view
                    ELSE /\ view' = [gen |-> generation', rev |-> rev, ink |-> NewInk(u)]
                         /\ UNCHANGED manifests
          /\ accepted' = accepted \cup {u} /\ UNCHANGED conflicts
       \/ /\ u.based # canon.rev
          /\ conflicts' = conflicts \cup {u}
          /\ UNCHANGED <<canon, view, manifests, generation, accepted>>
    /\ UNCHANGED <<uploads, companionVars, outVars, inVars, pollVars, used>>

\* The operator keeps the current state or takes the union of both.
Resolve(u) ==
    /\ u \in conflicts
    /\ conflicts' = conflicts \ {u}
    /\ \/ /\ u.rev >= canon.rev[u.side]
          /\ \E union \in {FALSE} \cup {u.rev = canon.rev[u.side] + 1} :
                LET rev == [canon.rev EXCEPT ![u.side] = u.rev]
                    result == IF union THEN canon.ink \cup u.ink ELSE canon.ink
                IN  /\ canon' = [rev |-> rev, ink |-> result]
                    /\ view' = [gen |-> generation + 1, rev |-> rev, ink |-> result]
                    /\ generation' = generation + 2
                    /\ manifests' = manifests \cup {Manifest(rev, generation')}
                    /\ accepted' = IF union THEN accepted \cup {u} ELSE accepted
       \/ u.rev < canon.rev[u.side] /\ UNCHANGED <<canon, view, manifests, generation, accepted>>
    /\ UNCHANGED <<uploads, processed, companionVars, outVars, inVars, pollVars, used>>
-----------------------------------------------------------------------------
(* The transport: sync_document on a copy of the journal *)

others == <<brokerVars, companionVars, used>>

\* An error discards the copy.
Discard == pc' = "idle" /\ work' = saved

BeginPoll == /\ pc = "idle"
             /\ work' = [saved EXCEPT !.conflict = conflicts # {}]
             /\ pc' = IF conflicts # {} THEN "save" ELSE "ack"
             /\ UNCHANGED <<others, uploads, outVars, inVars, saved, todo, seen>>

\* deliver_outputs reads the acknowledgement, then lists the Supernote prefix ...
ReadAck == /\ pc = "ack" /\ pc' = "list"
           /\ seen' = ack
           /\ todo' = [side : {"supernote"}, object : manifests]
           /\ UNCHANGED <<others, uploads, outVars, inVars, saved, work>>

\* ... and then the BOOX prefix.
ListViews == /\ pc = "list" /\ pc' = "verify"
             /\ todo' = todo \cup [side : {"boox"}, object : {view}]
             /\ UNCHANGED <<others, uploads, outVars, inVars, saved, work, seen>>

\* record_delivered_frontier.
Recorded(j, rev) ==
    LET done == j.pending # None /\ j.pending.rev <= rev.boox
    IN  [j EXCEPT !.rev = rev,
                  !.accepted = IF done THEN @ \cup {j.pending.artifact} ELSE @,
                  !.pending = IF done THEN None ELSE @,
                  !.note = IF @ <= rev.supernote THEN 0 ELSE @]

\* What a descriptor says of a view: its revisions, generation and hash.
Delivery(v) == [gen |-> v.gen, rev |-> v.rev, ink |-> v.ink]
LiveViews == {Delivery(c.object) : c \in {t \in todo : t.side = "boox"}}
\* The acknowledgement is the durable receipt or names a live broker output.
Verified == seen # None /\ (seen = work.receipt \/ seen \in LiveViews)

\* What an installed view makes obsolete in incoming/: another generation of
\* the same view, and every older view.
Superseded(d) == /\ d # seen
                 /\ \/ d.rev = seen.rev /\ d.ink = seen.ink
                    \/ StrictlyDominates(seen.rev, d.rev)

\* The incoming files once the installed pair is restored from its own
\* generation and what it supersedes is removed.
Restored(files) == {d \in files \cup {seen} : ~Superseded(d)}

\* A verified acknowledgement: the receipt is kept, the pairs are put in order
\* and the frontier moves up to it.
VerifyAck ==
    /\ pc = "verify"
    /\ \/ /\ ~Verified
          /\ pc' = "deliver" /\ UNCHANGED <<inPdf, inDesc, work>>
       \/ /\ Verified
          /\ inPdf' = Restored(inPdf)
          /\ inDesc' = Restored(inDesc)
          /\ LET received == [work EXCEPT !.receipt = seen]
             IN  IF seen.rev = work.rev /\ work.delivered \notin {None, seen.ink} THEN Discard
                 ELSE IF Dominates(seen.rev, work.rev)
                      THEN /\ pc' = "deliver"
                           /\ work' = [Recorded(received, seen.rev) EXCEPT !.delivered = seen.ink]
                 ELSE IF Dominates(work.rev, seen.rev) THEN pc' = "deliver" /\ work' = received
                 ELSE Discard
    /\ UNCHANGED <<others, uploads, outVars, noted, saved, todo, seen>>

Earlier(a, b) == LET sum(r) == r.boox + r.supernote
                 IN  \/ sum(a.rev) < sum(b.rev)
                     \/ sum(a.rev) = sum(b.rev) /\ a.rev.boox < b.rev.boox
                     \/ a.rev = b.rev /\ a.gen < b.gen
NextCandidate == CHOOSE c \in todo : \A d \in todo \ {c} : Earlier(c.object, d.object)
Marked(j, gen) == [j EXCEPT !.generations = @ \cup {gen}]
Handled == pc' = pc /\ todo' = todo \ {NextCandidate}

\* A view the device already has, or has gone past.
InstalledView(d) == seen # None /\ work.receipt = seen /\ Dominates(seen.rev, d.rev)
SkipInstalled == LET c == NextCandidate
                 IN  /\ c.side = "boox" /\ InstalledView(c.object)
                     /\ work' = Marked(work, c.object.gen)
                     /\ Handled /\ UNCHANGED inVars

SkipDominated == LET c == NextCandidate
                 IN  /\ c.side = "boox" => ~InstalledView(c.object)
                     /\ c.object.gen \notin work.generations
                     /\ ~Dominates(c.object.rev, work.rev)
                     /\ work' = Marked(work, c.object.gen)
                     /\ Handled /\ UNCHANGED inVars

InOrder(rev) == rev = work.rev \/ rev = [work.rev EXCEPT !.boox = @ + 1]

\* A manifest at the current revisions or as the next BOOX revision; an
\* already delivered one is the mirror's business (FolderTransport).
DeliverManifest ==
    LET c == NextCandidate
    IN  /\ c.side = "supernote"
        /\ \/ /\ c.object.gen \in work.generations /\ UNCHANGED <<noted, work>>
           \/ /\ c.object.gen \notin work.generations /\ Dominates(c.object.rev, work.rev)
              /\ IF InOrder(c.object.rev)
                 THEN /\ noted' = noted \cup {c.object.gen}
                      /\ work' = Marked(Recorded(work, c.object.rev), c.object.gen)
                 ELSE UNCHANGED <<noted, work>>
        /\ Handled /\ UNCHANGED <<inPdf, inDesc>>

\* publish_bytes_create_only_or_verify, with the same bytes every time.
PublishDescriptor(d) == inDesc' = inDesc \cup {d}

\* A view that is to be delivered, or was and is not installed yet: its PDF
\* first, its descriptor last, and only then the frontier.
DeliverView ==
    LET c == NextCandidate
        d == Delivery(c.object)
        again == d.gen \in work.generations
    IN  /\ c.side = "boox" /\ ~InstalledView(d)
        /\ again \/ Dominates(d.rev, work.rev)
        /\ IF d \notin inPdf
           THEN inPdf' = inPdf \cup {d} /\ UNCHANGED <<inDesc, noted, work, todo, pc>>
           ELSE /\ PublishDescriptor(d)
                /\ work' = IF again THEN work
                           ELSE [Marked(Recorded(work, d.rev), d.gen) EXCEPT !.delivered = d.ink]
                /\ Handled /\ UNCHANGED <<inPdf, noted>>

Deliver == /\ pc = "deliver" /\ todo # {}
           /\ SkipInstalled \/ SkipDominated \/ DeliverManifest \/ DeliverView
           /\ UNCHANGED <<others, uploads, outVars, saved, seen>>

\* recover_acknowledged_uploads takes every upload up to the accepted revision.
AcceptedSources == {u.artifact : u \in {v \in uploads : v.side = "boox" /\ v.rev <= work.rev.boox}}
Recover == /\ pc = "deliver" /\ todo = {}
           /\ pc' = "boox"
           /\ work' = [work EXCEPT !.accepted = @ \cup AcceptedSources]
           /\ UNCHANGED <<others, uploads, outVars, inVars, saved, todo, seen>>

\* A descriptor counts once its PDF is there too.
Visible == outPdf \cap outDesc
InstalledSince(a) == ack # None /\ work.receipt = ack /\ ack.rev.boox >= RevisionOf(a)
\* The artifacts the loop does something about, and the first of them.
Actionable == {a \in Visible : IF a \in work.accepted THEN InstalledSince(a)
                                 ELSE a \notin work.uploaded}
FirstOf(a) == /\ a \in Actionable
              /\ \A b \in Actionable :
                    \/ RevisionOf(a) < RevisionOf(b)
                    \/ RevisionOf(a) = RevisionOf(b) /\ a.based.supernote <= b.based.supernote

\* upload_boox_handoff_if_ready does nothing while an upload is pending.
Looping == pc = "boox" /\ work.pending = None
loopRest == <<others, inVars, saved, todo, seen>>

\* recover_retirement_marker: PDF, descriptor, marker, in this order.
FinishRetirement ==
    /\ Looping /\ markers # {}
    /\ \E a \in markers :
          IF a \in outPdf THEN outPdf' = outPdf \ {a} /\ UNCHANGED <<outDesc, markers>>
          ELSE IF a \in outDesc THEN outDesc' = outDesc \ {a} /\ UNCHANGED <<outPdf, markers>>
          ELSE markers' = markers \ {a} /\ UNCHANGED <<outPdf, outDesc>>
    /\ UNCHANGED <<loopRest, uploads, work, pc>>

\* Interrupted retirements are finished before anything else.
Recovered == Looping /\ markers = {}

\* Mutant: an artifact is retired once the view before it is acknowledged.
RetireUnsent ==
    /\ Recovered
    /\ \E a \in Visible : ack # None /\ markers' = markers \cup {a}
    /\ UNCHANGED <<loopRest, uploads, work, pc, outPdf, outDesc>>

\* publish_retirement_marker: create-only, and content with its own marker.
publish_retirement_marker(a) == markers' = markers \cup {a}

\* retire_accepted_artifact, once a view with its revision is installed.
Retire == /\ Recovered
          /\ \E a \in work.accepted : FirstOf(a) /\ publish_retirement_marker(a)
          /\ UNCHANGED <<loopRest, uploads, work, pc, outPdf, outDesc>>

\* The conversion or the stale upload of one artifact, under its own base.
UploadArtifact ==
    /\ Recovered /\ pc' = "note"
    /\ \E a \in Actionable \ work.accepted :
          /\ FirstOf(a)
          /\ LET u == [side |-> "boox", based |-> a.based, rev |-> RevisionOf(a), ink |-> a.ink,
                       artifact |-> a]
             IN  /\ uploads' = uploads \cup {u}
                 /\ work' = [work EXCEPT !.pending = u, !.uploaded = @ \cup {a}]
    /\ UNCHANGED <<loopRest, outVars>>

EndLoop == /\ pc = "boox" /\ pc' = "note"
           /\ work.pending # None \/ (markers = {} /\ Actionable = {})
           /\ UNCHANGED <<loopRest, uploads, work, outVars>>

\* upload_supernote_if_ready: at most one export is pending.
UploadNote ==
    /\ pc = "note" /\ pc' = "save"
    /\ \/ UNCHANGED <<uploads, work, used>>
       \/ /\ work.note = 0 /\ used.note < MaxSupernoteEdits /\ Count("note")
          /\ Sequential => InStep /\ work.rev = canon.rev /\ work.pending = None
          /\ LET u == [side |-> "supernote", based |-> work.rev, rev |-> work.rev.supernote + 1,
                       ink |-> {20 + used.note}, artifact |-> None]
             IN  uploads' = uploads \cup {u} /\ work' = [work EXCEPT !.note = u.rev]
    /\ UNCHANGED <<brokerVars, companionVars, outVars, inVars, saved, todo, seen>>

Save == /\ pc = "save" /\ pc' = "idle"
        /\ saved' = work /\ seen' = None
        /\ UNCHANGED <<others, uploads, outVars, inVars, work, todo>>

Crash == /\ pc # "idle" /\ used.crashes < MaxCrashes /\ Count("crashes")
         /\ pc' = "idle" /\ work' = saved /\ todo' = {} /\ seen' = None
         /\ UNCHANGED <<brokerVars, uploads, companionVars, outVars, inVars, saved>>

\* The transport's checkpoint is lost: it starts again from an empty one.
LoseCheckpoint == /\ pc = "idle" /\ used.losses < MaxLosses /\ Count("losses")
                  /\ saved' = EmptyJournal /\ work' = EmptyJournal
                  /\ UNCHANGED <<brokerVars, uploads, companionVars, outVars, inVars, pc, todo, seen>>

Poll == BeginPoll \/ ReadAck \/ ListViews \/ VerifyAck \/ Deliver \/ Recover \/ FinishRetirement
        \/ Retire \/ UploadArtifact \/ EndLoop \/ UploadNote \/ Save
Companion == \/ Finalize \/ Acknowledge
             \/ \E d \in inPdf : Install(d)
Next == \/ BooxEdit \/ LateEdit \/ Drop \/ Crash \/ LoseCheckpoint \/ Poll \/ Companion
        \/ \E f \in sending : Mirror(f)
        \/ \E u \in uploads : Process(u) \/ Resolve(u)

\* The loop polls, the mirror and the broker work, the reader opens the
\* companion and the operator answers.
Spec == /\ Init /\ [][Next]_vars
        /\ WF_vars(Poll) /\ WF_vars(Finalize) /\ WF_vars(Acknowledge)
        /\ WF_vars(\E d \in inPdf : Install(d)) /\ WF_vars(\E f \in sending : Mirror(f))
        /\ WF_vars(\E u \in uploads : Process(u)) /\ WF_vars(\E u \in uploads : Resolve(u))
-----------------------------------------------------------------------------
Artifacts == outPdf \cup outDesc \cup {f.of : f \in sending}
Drawn == {10 + i : i \in 0 .. used.boox - 1} \cup {30 + i : i \in 0 .. used.late - 1}
InkOf(S) == UNION {a.ink : a \in S}

\* Types of the handoff directories and the journal (boox_handoff.rs 23-71).
TypeOK == /\ processed \cup conflicts \cup accepted \subseteq uploads
          /\ noted \subseteq {m.gen : m \in manifests}
          /\ pc \in {"idle", "ack", "list", "verify", "deliver", "boox", "note", "save"}
          /\ \A j \in {saved, work} : /\ j.pending = None \/ j.pending \in uploads
                                      /\ j.generations \subseteq 1 .. generation
                                      /\ j.rev.boox + j.rev.supernote <= generation

\* Nothing drawn on the BOOX is lost: it is in the active PDF, in an artifact
\* the transport has not retired, or in the store (retirement of artifacts
\* boox_handoff.rs 235-264, transport.rs 1045-1066).
BooxInkKept == Drawn \subseteq (IF device = None THEN {} ELSE device.current)
                               \cup InkOf({f.of : f \in sending} \cup (outPdf \ markers))
                               \cup InkOf(uploads)

\* The pair of the acknowledged view stays in incoming/ as the companion's
\* recovery copy, while the receipt the transport works with is the companion's
\* acknowledgement and the sync client has lost no file
\* (retire_superseded_incoming boox_handoff.rs 173-233).
RecoveryPairKept == work.receipt # None /\ work.receipt = ack /\ used.drops = 0
                        => ack \in inPdf \cap inDesc

\* A journal that records what the BOOX has installed, on disk or in a poll, has a
\* frontier that covers it: no upload is based on less than the receipt says
\* (transport.rs 679-711). A poll that starts with a lost checkpoint has no
\* receipt; the journal covers the acknowledgement once that poll has verified it.
FrontierCoversReceipt ==
    \A j \in {saved, work} : j.receipt # None => Dominates(j.rev, j.receipt.rev)

\* Edits made one at a time reach the broker and the BOOX, in spite of a crash,
\* a lost file or a lost checkpoint.
AllArrived == /\ Drawn \cup {20 + i : i \in 0 .. used.note - 1} \subseteq canon.ink
              /\ device # None /\ device.current = canon.ink
Converges == <>[]AllArrived
=============================================================================
