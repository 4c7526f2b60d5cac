-------------------------- MODULE FolderTransport ---------------------------
(***************************************************************************)
(* The folder transport between the two devices' folders and the broker's  *)
(* object store, with the PDF itself as the BOOX endpoint (no companion):  *)
(* sync_document of transport.rs step by step, the Supernote plugin's      *)
(* folder module, and the broker reduced to what Broker.tla shows of it.   *)
(* Ink is a set of strokes <<page, n>>; a hash is the content it is of.    *)
(***************************************************************************)
EXTENDS Naturals, FiniteSets

CONSTANTS Pages,
          MaxBooxEdits, MaxSupernoteEdits, MaxExports, MaxCrashes, MaxDrops,
          Sequential,    \* TRUE: people edit only when everything is in step
          None

TransportAssumption ==
    /\ Pages # {} /\ Pages \subseteq Nat /\ Sequential \in BOOLEAN
    /\ {MaxBooxEdits, MaxSupernoteEdits, MaxExports, MaxCrashes, MaxDrops} \subseteq Nat
    /\ None \notin [kind : {"local"}, ink : SUBSET (Pages \X Nat)]

VARIABLES canon,       \* the broker's revisions and ink
          uploads,     \* source objects under uploads/
          processed,   \* those the broker has handled
          conflicts,   \* uploads preserved under Conflicts/ with no marker yet
          resolved,    \* conflicting uploads with a resolution marker
          view,        \* the BOOX view object
          manifests,   \* operation manifests for the Supernote
          generation,  \* the store's generation counter
          pdf,         \* the local BOOX PDF
          ink,         \* the ink of the Supernote note
          incoming,    \* generations in the Supernote incoming folder
          acked,       \* generations the plugin acknowledged
          exports,     \* page -> exported file
          status,      \* the published companion status
          saved, work, \* the journal, and the copy a poll works on
          pc, todo,    \* the poll's step and the candidates it still has
          used         \* the counters behind the bounds

brokerVars == <<canon, processed, conflicts, resolved, view, manifests, generation>>
deviceVars == <<pdf, ink, exports>>
inboxVars == <<incoming, acked>>
pollVars == <<saved, work, pc, todo>>
vars == <<brokerVars, uploads, deviceVars, inboxVars, status, pollVars, used>>

Sides == {"boox", "supernote"}
Zero == [boox |-> 0, supernote |-> 0]
OnPage(strokes, p) == {s \in strokes : s[1] = p}
Dominates(a, b) == a.boox >= b.boox /\ a.supernote >= b.supernote

Original == [kind |-> "original", ink |-> {}]
ViewPdf(v) == [kind |-> "view", ink |-> v.ink, rev |-> v.rev]

EmptyJournal == [rev |-> Zero, pending |-> [d \in Sides |-> None],
                 delivered |-> None, generations |-> {}, uploadedPdf |-> None,
                 uploadedExport |-> [p \in Pages |-> None], accepted |-> [p \in Pages |-> 0],
                 conflict |-> FALSE]

Init == /\ canon = [rev |-> Zero, ink |-> {}]
        /\ uploads = {} /\ processed = {} /\ conflicts = {} /\ resolved = {}
        /\ view = None /\ manifests = {} /\ generation = 0
        /\ pdf = Original /\ ink = {} /\ exports = [p \in Pages |-> None]
        /\ incoming = {} /\ acked = {}
        /\ status = [rev |-> Zero, accepted |-> {}, conflict |-> FALSE]
        /\ saved = EmptyJournal /\ work = EmptyJournal /\ pc = "idle" /\ todo = {}
        /\ used = [boox |-> 0, supernote |-> 0, exports |-> 0, crashes |-> 0, drops |-> 0]
-----------------------------------------------------------------------------
(* The devices *)

Unacked == {m \in manifests : m.gen \in incoming \ acked}

\* Everything drawn has reached the broker, both devices and the journal.
InStep == /\ uploads = processed /\ conflicts = {} /\ Unacked = {}
          /\ saved.rev = canon.rev /\ status.rev = canon.rev
          /\ pdf.ink = canon.ink /\ ink = canon.ink
          /\ saved.pending = [d \in Sides |-> None]
Baseline == \E p \in Pages : saved.accepted[p] > 0

Count(field) == used' = [used EXCEPT ![field] = @ + 1]

\* NeoReader saves the PDF with one more stroke.
BooxEdit(p) == /\ used.boox < MaxBooxEdits
               /\ Sequential => InStep /\ Baseline
               /\ Count("boox")
               /\ pdf' = [kind |-> "local", ink |-> pdf.ink \cup {<<p, 10 + used.boox>>}]
               /\ UNCHANGED <<brokerVars, uploads, ink, exports, inboxVars, status, pollVars>>

SupernoteEdit(p) == /\ used.supernote < MaxSupernoteEdits
                    /\ Sequential => InStep
                    /\ Count("supernote")
                    /\ ink' = ink \cup {<<p, 20 + used.supernote>>}
                    /\ UNCHANGED <<brokerVars, uploads, pdf, exports, inboxVars, status, pollVars>>

Before(a, b) == \/ a.boox < b.boox
                \/ a.boox = b.boox /\ a.supernote < b.supernote

\* appliedRevisionFrontier: the acknowledged chain of BOOX revisions, and the
\* Supernote revision the transport's checkpoint adds to it.
Acknowledged == LET seen == {m.rev : m \in {n \in manifests : n.gen \in acked}}
                    chained == {r \in seen : \A b \in 1 .. r.boox : \E q \in seen : q.boox = b}
                    first == {r \in chained : \A q \in chained : q.boox = r.boox => ~Before(q, r)}
                IN  IF first = {} THEN Zero ELSE CHOOSE r \in first : \A q \in first : ~Before(r, q)
Applied == IF status.rev.boox <= Acknowledged.boox /\ status.rev.supernote > Acknowledged.supernote
           THEN [Acknowledged EXCEPT !.supernote = status.rev.supernote]
           ELSE Acknowledged

\* publishPageExport: no unapplied update, no BOOX revision that has not
\* arrived, and no earlier export of the page that is still waiting.
MayExport(p) == /\ Unacked = {}
                /\ status.rev.boox <= Applied.boox
                /\ exports[p] # None => exports[p] \in status.accepted

\* The page shows a stroke the broker does not have, or nothing was exported yet.
Unsent(p) == OnPage(ink, p) \ canon.ink # {} \/ \A q \in Pages : exports[q] = None

Export(p) == /\ used.exports < MaxExports
             /\ MayExport(p)
             /\ Sequential => Unsent(p)
             /\ exports' = [exports EXCEPT ![p] = [page |-> p, based |-> Applied, ink |-> OnPage(ink, p)]]
             /\ exports' # exports
             /\ Count("exports")
             /\ UNCHANGED <<brokerVars, uploads, pdf, ink, inboxVars, status, pollVars>>

\* loadNextManifest, apply and acknowledgeManifest: the oldest unacknowledged
\* delivery, if it advances the applied BOOX revision by one.
ApplyManifest ==
    /\ Unacked # {} /\ ~status.conflict
    /\ LET next == CHOOSE m \in Unacked : \A n \in Unacked :
                       ~Before(n.rev, m.rev) /\ (n.rev = m.rev => n.gen >= m.gen)
       IN  /\ next.rev.boox = Applied.boox + 1 /\ next.rev.supernote >= Applied.supernote
           /\ ink' = (ink \ next.dels) \cup next.adds
           /\ acked' = acked \cup {next.gen}
    /\ UNCHANGED <<brokerVars, uploads, pdf, exports, incoming, status, pollVars, used>>

\* The folder mirror loses a delivery that was not acknowledged.
DropIncoming == /\ used.drops < MaxDrops /\ Count("drops")
                /\ \E g \in incoming \ acked : incoming' = incoming \ {g}
                /\ UNCHANGED <<brokerVars, uploads, deviceVars, acked, status, pollVars>>
-----------------------------------------------------------------------------
(* The broker *)

NewInk(u) == IF u.side = "boox" THEN u.ink
             ELSE {s \in canon.ink : s[1] # u.page} \cup u.ink
Manifest(rev, from, to, gen) == [gen |-> gen, rev |-> rev, adds |-> to \ from, dels |-> from \ to]

\* An upload on the current revisions is accepted; a repetition is ignored; any
\* other one is preserved as a conflict.
Process(u) ==
    /\ u \in uploads \ processed
    /\ processed' = processed \cup {u}
    /\ \/ /\ u.based = canon.rev
          /\ LET rev == [canon.rev EXCEPT ![u.side] = u.rev]
             IN  /\ canon' = [rev |-> rev, ink |-> NewInk(u)]
                 /\ generation' = generation + 1
                 /\ IF u.side = "boox"
                    THEN /\ manifests' = manifests \cup {Manifest(rev, canon.ink, NewInk(u), generation')}
                         /\ UNCHANGED view
                    ELSE /\ view' = [gen |-> generation', rev |-> rev, ink |-> NewInk(u)]
                         /\ UNCHANGED manifests
          /\ UNCHANGED conflicts
       \/ /\ u.based # canon.rev
          /\ conflicts' = conflicts \cup {u}
          /\ UNCHANGED <<canon, view, manifests, generation>>
    /\ UNCHANGED <<resolved, uploads, deviceVars, inboxVars, status, pollVars, used>>

\* The operator resolves a conflict: the current state or the union of both,
\* the union only for the revision that follows the current one.
Resolve(u) ==
    /\ u \in conflicts
    /\ conflicts' = conflicts \ {u} /\ resolved' = resolved \cup {u}
    /\ \/ /\ u.rev >= canon.rev[u.side]
          /\ \E result \in {canon.ink} \cup
                 (IF u.rev = canon.rev[u.side] + 1 THEN {canon.ink \cup u.ink} ELSE {}) :
                LET rev == [canon.rev EXCEPT ![u.side] = u.rev]
                    from == IF u.side = "boox" THEN canon.ink
                            ELSE {s \in canon.ink : s[1] # u.page} \cup u.ink
                IN  /\ canon' = [rev |-> rev, ink |-> result]
                    /\ view' = [gen |-> generation + 1, rev |-> rev, ink |-> result]
                    /\ IF from = result THEN generation' = generation + 1 /\ UNCHANGED manifests
                       ELSE /\ generation' = generation + 2
                            /\ manifests' = manifests \cup {Manifest(rev, from, result, generation')}
       \/ u.rev < canon.rev[u.side] /\ UNCHANGED <<canon, view, manifests, generation>>
    /\ UNCHANGED <<processed, uploads, deviceVars, inboxVars, status, pollVars, used>>
-----------------------------------------------------------------------------
(* The transport: sync_document on a copy of the journal *)

others == <<brokerVars, deviceVars, inboxVars, used>>

\* An error discards the copy; the status is published all the same.
Discard == pc' = "status" /\ work' = saved

\* observe_conflicts: nothing else happens while a group has no marker.
BeginPoll == /\ pc = "idle"
             /\ work' = [saved EXCEPT !.conflict = conflicts # {}]
             /\ IF conflicts # {} THEN pc' = "save" /\ UNCHANGED todo
                ELSE /\ pc' = "list"
                     /\ todo' = [side : {"supernote"}, object : manifests]
             /\ UNCHANGED <<others, uploads, status, saved>>

\* deliver_outputs lists the BOOX prefix after the Supernote one.
ListViews == /\ pc = "list"
             /\ pc' = "deliver"
             /\ todo' = todo \cup (IF view = None THEN {} ELSE [side : {"boox"}, object : {view}])
             /\ UNCHANGED <<others, uploads, status, saved, work>>

Earlier(a, b) == LET sum(r) == r.boox + r.supernote
                 IN  \/ sum(a.rev) < sum(b.rev)
                     \/ sum(a.rev) = sum(b.rev) /\ a.rev.boox < b.rev.boox
                     \/ a.rev = b.rev /\ a.gen < b.gen
NextCandidate == CHOOSE c \in todo : \A d \in todo \ {c} : Earlier(c.object, d.object)
Handled == todo' = todo \ {NextCandidate} /\ UNCHANGED <<saved, pc>>
Marked(j, gen) == [j EXCEPT !.generations = @ \cup {gen}]

\* Mutant: an upload the broker has accepted stays pending.
RecordedKeepsPending(j, rev) == [j EXCEPT !.rev = rev]

\* record_delivered_frontier: an upload whose revision the broker now shows is
\* no longer pending.
Recorded(j, rev) == [j EXCEPT !.rev = rev,
                              !.pending = [d \in Sides |->
                                  IF @[d] # None /\ @[d].rev <= rev[d] THEN None ELSE @[d]]]

\* boox_has_unpublished_local_edit.
UnpublishedEdit(j) == \/ j.pending["boox"] # None
                      \/ pdf \notin {Original, j.delivered, j.uploadedPdf}

\* A manifest is a delta: it installs at the current revisions or as the next
\* BOOX revision.
InOrder(c) == \/ c.rev = work.rev
              \/ c.rev = [work.rev EXCEPT !.boox = @ + 1]

\* Mutant: a vanished delivery is not restored.
DeliverAgainNever == /\ NextCandidate.object.gen \in work.generations
                     /\ UNCHANGED <<incoming, work, pdf>>

\* Already delivered: restore a file that vanished before its acknowledgement.
DeliverAgain == LET c == NextCandidate
                IN  /\ c.object.gen \in work.generations
                    /\ incoming' = IF c.side = "supernote" /\ c.object.gen \notin acked
                                   THEN incoming \cup {c.object.gen} ELSE incoming
                    /\ UNCHANGED <<work, pdf>>

\* Not ahead of the journal's frontier: marked and skipped.
SkipDominated == LET c == NextCandidate
                 IN  /\ c.object.gen \notin work.generations
                     /\ ~Dominates(c.object.rev, work.rev)
                     /\ work' = Marked(work, c.object.gen)
                     /\ UNCHANGED <<incoming, pdf>>

DeliverManifest ==
    LET c == NextCandidate
    IN  /\ c.side = "supernote" /\ c.object.gen \notin work.generations
        /\ Dominates(c.object.rev, work.rev)
        /\ IF InOrder(c.object)
           THEN /\ incoming' = incoming \cup {c.object.gen}
                /\ work' = Marked(Recorded(work, c.object.rev), c.object.gen)
           ELSE UNCHANGED <<incoming, work>>
        /\ UNCHANGED pdf

DeliverView ==
    LET c == NextCandidate
        bytes == ViewPdf(c.object)
    IN  /\ c.side = "boox" /\ c.object.gen \notin work.generations
        /\ Dominates(c.object.rev, work.rev)
        /\ IF pdf = bytes \/ ~UnpublishedEdit(work)
           THEN /\ pdf' = bytes
                /\ work' = [Marked(Recorded(work, c.object.rev), c.object.gen)
                            EXCEPT !.delivered = bytes]
           ELSE UNCHANGED <<pdf, work>>
        /\ UNCHANGED incoming

Deliver == /\ pc = "deliver" /\ todo # {}
           /\ DeliverAgain \/ SkipDominated \/ DeliverManifest \/ DeliverView
           /\ Handled
           /\ UNCHANGED <<brokerVars, uploads, ink, exports, acked, status, used>>

AcceptedUploads(side) == {u \in uploads : u.side = side /\ u.rev <= work.rev[side]}
\* Two sources of one identity under one revision: the poll fails.
Ambiguous == \E d \in Sides : \E u, v \in AcceptedUploads(d) :
                 u.page = v.page /\ u.rev = v.rev /\ u # v
Latest(us) == CHOOSE u \in us : \A v \in us : v.rev <= u.rev

\* recover_acknowledged_uploads rebuilds the journal's knowledge of accepted
\* sources from the immutable uploads.
Recover == /\ pc = "deliver" /\ todo = {}
           /\ IF Ambiguous THEN Discard
              ELSE /\ pc' = "boox"
                   /\ LET of(p) == {u \in AcceptedUploads("supernote") : u.page = p}
                          boox == AcceptedUploads("boox")
                      IN  work' = [work EXCEPT
                            !.uploadedPdf = IF boox = {} THEN @ ELSE Latest(boox).source,
                            !.accepted = [p \in Pages |-> IF of(p) = {} THEN 0 ELSE Latest(of(p)).rev],
                            !.uploadedExport = [p \in Pages |->
                                IF exports[p] \in {u.source : u \in of(p)} THEN exports[p] ELSE @[p]]]
           /\ UNCHANGED <<others, uploads, status, saved, todo>>

\* upload_source_at on a store that refuses other metadata under one name.
Store(u) == IF \E v \in uploads : v.side = u.side /\ v.rev = u.rev /\ v.source = u.source /\ v # u
            THEN Discard /\ UNCHANGED uploads
            ELSE /\ pc' = IF u.side = "boox" THEN "supernote" ELSE "save"
                 /\ uploads' = uploads \cup {u}
                 /\ work' = [work EXCEPT !.pending[u.side] = u,
                        !.uploadedPdf = IF u.side = "boox" THEN u.source ELSE @,
                        !.uploadedExport = IF u.side = "boox" THEN @ ELSE [@ EXCEPT ![u.page] = u.source]]

\* upload_legacy_boox_if_ready: a settled PDF that is not the delivered or the
\* uploaded one, once a Supernote baseline has been accepted.
BooxReady == /\ work.pending["boox"] = None
             /\ \E p \in Pages : work.accepted[p] > 0
             /\ pdf \notin {work.delivered, work.uploadedPdf}
UploadBoox ==
    /\ pc = "boox"
    /\ \/ /\ BooxReady
          /\ Store([side |-> "boox", rev |-> work.rev.boox + 1, based |-> work.rev,
                    page |-> None, source |-> pdf, ink |-> pdf.ink])
       \/ ~BooxReady /\ pc' = "supernote" /\ UNCHANGED <<work, uploads>>
    /\ UNCHANGED <<others, status, saved, todo>>

\* Mutant: an export of another page may be carried across a BOOX revision.
SafeAcrossBoox(e) == work.accepted[e.page] <= e.based.supernote

\* The export may be carried forward to the current revisions.
SafeToRebase(e) == /\ e.based.boox = work.rev.boox
                   /\ e.based.supernote <= work.rev.supernote
                   /\ work.accepted[e.page] <= e.based.supernote

\* upload_supernote_if_ready takes the first export that is not uploaded; a
\* waiting delivery or a stale export stops it there.
Waiting == {p \in Pages : exports[p] \notin {None, work.uploadedExport[p]}}
NextExport == exports[CHOOSE p \in Waiting : \A q \in Waiting : p <= q]
SupernoteReady == /\ work.pending["supernote"] = None /\ Unacked = {}
                  /\ Waiting # {} /\ SafeToRebase(NextExport)
UploadSupernote ==
    /\ pc = "supernote"
    /\ \/ /\ SupernoteReady
          /\ Store([side |-> "supernote", rev |-> work.rev.supernote + 1, based |-> work.rev,
                    page |-> NextExport.page, source |-> NextExport, ink |-> NextExport.ink])
       \/ ~SupernoteReady /\ pc' = "save" /\ UNCHANGED <<work, uploads>>
    /\ UNCHANGED <<others, status, saved, todo>>

\* The watch loop checkpoints the journal, then publishes the companion status.
Save == /\ pc = "save" /\ pc' = "status"
        /\ saved' = work
        /\ UNCHANGED <<others, uploads, status, work, todo>>
PublishStatus ==
    /\ pc = "status" /\ pc' = "idle"
    /\ status' = [rev |-> saved.rev, conflict |-> saved.conflict,
                  accepted |-> {saved.uploadedExport[p] : p \in Pages} \
                               (IF saved.pending["supernote"] = None THEN {None}
                                ELSE {None, saved.pending["supernote"].source})]
    /\ UNCHANGED <<others, uploads, saved, work, todo>>

Crash == /\ pc # "idle" /\ used.crashes < MaxCrashes /\ Count("crashes")
         /\ pc' = "idle" /\ work' = saved /\ todo' = {}
         /\ UNCHANGED <<brokerVars, uploads, deviceVars, inboxVars, status, saved>>

Poll == BeginPoll \/ ListViews \/ Deliver \/ Recover \/ UploadBoox \/ UploadSupernote \/ Save
        \/ PublishStatus
Next == \/ \E p \in Pages : BooxEdit(p) \/ SupernoteEdit(p) \/ Export(p)
        \/ ApplyManifest \/ DropIncoming \/ Crash \/ Poll
        \/ \E u \in uploads : Process(u) \/ Resolve(u)

\* The loop polls, the broker works, the plugin and the operator answer, and
\* the reader exports a page that the broker does not have.
Spec == /\ Init /\ [][Next]_vars
        /\ WF_vars(Poll) /\ WF_vars(ApplyManifest)
        /\ WF_vars(\E u \in uploads : Process(u)) /\ WF_vars(\E u \in uploads : Resolve(u))
        /\ \A p \in Pages : WF_vars(Unsent(p) /\ Export(p))
-----------------------------------------------------------------------------
\* Types of the journal, the folders and the broker's objects (model.rs 648-705).
TypeOK == /\ DOMAIN canon = {"rev", "ink"}
          /\ processed \cup conflicts \cup resolved \subseteq uploads
          /\ acked \cup incoming \subseteq {m.gen : m \in manifests}
          /\ \A j \in {saved, work} :
                /\ j.pending["boox"] = None \/ j.pending["boox"] \in uploads
                /\ j.pending["supernote"] = None \/ j.pending["supernote"] \in uploads
                /\ j.generations \subseteq 1 .. generation
          /\ pc \in {"idle", "list", "deliver", "boox", "supernote", "save", "status"}

\* An upload that is accepted contains the canonical ink it replaces: what the
\* transport calls basedOn is what the device really showed, through deferred
\* views, rebased exports and restarts (transport.rs 1514-1597, 1642-1674).
NoCanonicalInkLostStep == canon.ink \subseteq canon'.ink
NoCanonicalInkLost == [][NoCanonicalInkLostStep]_canon

\* Two uploads of one side may bear one revision: the second was prepared after a
\* crash between the first and the checkpoint (transport.rs 1642-1674).
Alone(u) == \A v \in processed : u.side = v.side /\ u.rev = v.rev => u = v

\* The journal counts a manifest as delivered only if it was put in the
\* Supernote's incoming folder: each one is a delta the next ones build on, and
\* what the frontier passed is never fetched again (transport.rs 856-881).  Not
\* when a conflict was resolved over another upload of its revision: if that
\* happens between the listings of one poll (584), the next view may overtake
\* the manifest of the resolution.
NoManifestSkipped == (\A u \in resolved : Alone(u)) => \A m \in manifests :
    m.gen \in saved.generations /\ used.drops = 0 => m.gen \in incoming

\* A journal never runs ahead of the broker, and what it calls pending has not
\* been accepted at its own frontier (record_delivered_frontier 1955-1979).
JournalBehindBroker == /\ Dominates(canon.rev, saved.rev)
                       /\ \A d \in Sides : saved.pending[d] # None =>
                              saved.pending[d].rev > saved.rev[d]

\* BOOX ink is in the PDF or in an upload: no delivery covers an edit that has
\* not left the device (boox_has_unpublished_local_edit 1767-1795).
BooxInkSafeStep == pdf.ink \subseteq pdf'.ink \cup UNION {u.ink : u \in uploads}
BooxInkSafe == [][BooxInkSafeStep]_pdf

\* The journal, the frontier and the BOOX ink, together.
TransportSound == [](TypeOK /\ JournalBehindBroker) /\ BooxInkSafe

\* With edits made one device at a time, everything ends up everywhere, whatever
\* crashes and lost deliveries come between.
Converges == <>[]InStep
=============================================================================
