------------------------------- MODULE Outbox -------------------------------
(***************************************************************************)
(* The durable outbox of one document: CloudBrokerStorage over a           *)
(* compare-and-swap state record (Firestore) and a versioned object store  *)
(* (Cloud Storage), driven by the request handlers of RuntimeService.      *)
(*   inkbridge-cloud-runtime/src/{outbox,firestore,gcs,runtime}.rs         *)
(*                                                                         *)
(* A worker is one request being handled.  Requests overlap: a request     *)
(* that times out keeps running on its blocking thread while Eventarc      *)
(* redelivers the event (runtime.rs:228), so several workers may drive the *)
(* same commit.  A worker may die between any two steps.                   *)
(*                                                                         *)
(* A broker commit is a pure function of the event and of what was read,   *)
(* so the commit itself stands for its SHA-256 commit id, and a pair       *)
(* (commit, path) for the payload staged under that id.  Payload           *)
(* generations are left out: every generation at a payload path has the    *)
(* same bytes.                                                             *)
(***************************************************************************)
EXTENDS Integers, Sequences, Functions

CONSTANTS
    Workers,        \* concurrent requests
    Events,         \* broker inputs: registrations, device events, resolutions
    Registration,   \* the event that creates the canonical state
    Paths,          \* object paths outputs are written to
    Tracked,        \* paths guarded by generated_views; the others are create-only
    ObjWrites,      \* event -> its ordinary outputs, in commit order
    RelWrites,      \* event -> its post-finalization release signals
    EditOf,         \* event -> the generated view it edits in place, or None
    MaxFaults,      \* bound on crashes and failed cleanups
    None

Device(e) == [by |-> "device", ev |-> e, base |-> 0]
Contents == [by : {"device", "broker"}, ev : Events, base : Nat]
Commits == [ev : Events, gen : Nat, log : Seq(Events), pre : [Paths -> Nat]]
Deliveries == [Paths -> Nat]
ActiveStates == [gen : Nat, payload : Commits \cup {None}]
PendingCommits == [c : Commits, delivered : Deliveries]
WorkerStates ==
    [pc : {"idle", "read", "plan", "stage", "reserve", "object", "saveObject",
           "release", "saveRelease", "cleanup"},
     ev : Events \cup {None}, rec : BOOLEAN, base : ActiveStates \cup {None},
     c : Commits \cup {None}, delivered : Deliveries, i : Nat]
Nowhere == [p \in Paths |-> 0]

ASSUME OutboxAssumption ==
    /\ Registration \in Events
    /\ Tracked \subseteq Paths
    /\ ObjWrites \in [Events -> Seq(Paths)]
    /\ RelWrites \in [Events -> Seq(Paths)]
    /\ EditOf \in [Events -> Tracked \cup {None}]
    /\ \A e \in Events : Range(RelWrites[e]) \cap (Range(ObjWrites[e]) \cup Tracked) = {}
    /\ MaxFaults \in Nat
    /\ None \notin Commits \cup Paths
    /\ None \notin PendingCommits

VARIABLES
    active,      \* StateRecord.active: generation and payload pointer
    pending,     \* StateRecord.pending: the reserved commit, or None
    objects,     \* path -> its versions; the generation is the version count
    payloads,    \* staged (commit, path) pairs; (commit, None) is its state
    edited,      \* in-place edits the devices have made
    worker,      \* request handlers
    faults

vars == <<active, pending, objects, payloads, edited, worker, faults>>

-----------------------------------------------------------------------------
(* Reading the two stores. *)

Writes(e) == ObjWrites[e] \o RelWrites[e]
Generation(p) == Len(objects[p])
Holds(p, v) == objects[p] # <<>> /\ objects[p][Len(objects[p])] = v
Output(c) == [by |-> "broker", ev |-> c.ev, base |-> Len(c.log)]

(* The canonical state a payload pointer stands for: the events it has
   processed, in order. *)
StateLog(payload) ==
    IF payload = None THEN <<>> ELSE Append(payload.log, payload.ev)
Log == StateLog(active.payload)

(* CanonicalDocumentState.generated_views[p]: the bytes the canonical state
   knows at p, those of the last output written there or of the last in-place
   edit accepted from there. *)
GeneratedView(log, p) ==
    LET touching == {i \in DOMAIN log : p \in Range(ObjWrites[log[i]]) \/ EditOf[log[i]] = p}
        last == CHOOSE i \in touching : \A j \in touching : j <= i
    IN  IF touching = {} THEN None
        ELSE IF EditOf[log[last]] = p THEN Device(log[last])
        ELSE [by |-> "broker", ev |-> log[last], base |-> last - 1]

(* Mutant: the broker forgets to compare the destination with its known hash. *)
DestinationSafe_Unchecked(log, p) == TRUE

(* destination_precondition: a tracked path may be replaced only while it
   still holds the bytes the canonical state knows. *)
DestinationSafe(log, p) ==
    p \in Tracked =>
        IF GeneratedView(log, p) = None THEN objects[p] = <<>>
        ELSE Holds(p, GeneratedView(log, p))

(* Mutant: off by one, the generation before the one that was read. *)
Precondition_Previous(p) == IF p \in Tracked THEN Generation(p) - 1 ELSE 0

Precondition(p) == IF p \in Tracked THEN Generation(p) ELSE 0

-----------------------------------------------------------------------------
Idle == [pc |-> "idle", ev |-> None, rec |-> FALSE, base |-> None,
         c |-> None, delivered |-> Nowhere, i |-> 0]

Init ==
    /\ active = [gen |-> 0, payload |-> None]
    /\ pending = None
    /\ objects = [p \in Paths |-> <<>>]
    /\ payloads = {}
    /\ edited = {}
    /\ worker = [w \in Workers |-> Idle]
    /\ faults = 0

Become(w, r) == worker' = [worker EXCEPT ![w] = r]
Return(w) == Become(w, Idle)

(* Error return: HTTP 500, or a permanent rejection; either way the request
   ends and the event may be delivered again. *)
Abort(w) == Return(w) /\ UNCHANGED <<active, pending, objects, payloads, edited, faults>>

(* The event reaches a worker.  Registration goes straight to the broker; every
   other request first recovers the document's pending commit. *)
Receive(w, e) ==
    /\ worker[w].pc = "idle"
    /\ EditOf[e] = None \/ e \in edited
    /\ IF pending = None \/ e = Registration
       THEN Become(w, [Idle EXCEPT !.pc = "read", !.ev = e])
       ELSE Become(w, [Idle EXCEPT
              !.pc = "object", !.ev = e, !.rec = TRUE,
              !.c = pending.c, !.delivered = pending.delivered,
              !.i = IF active.payload = pending.c
                    THEN Len(ObjWrites[pending.c.ev]) + 1 ELSE 1])
    /\ UNCHANGED <<active, pending, objects, payloads, edited, faults>>

(* The broker reads the canonical state and stops at an event it has already
   processed (or a document that is already registered). *)
ReadState(w) ==
    LET e == worker[w].ev
        readable == active.payload # None /\ <<active.payload, None>> \in payloads
    IN  /\ worker[w].pc = "read"
        /\ \/ /\ \/ e = Registration /\ active.payload = None
                 \/ e # Registration /\ readable /\ e \notin Range(Log)
              /\ Become(w, [worker[w] EXCEPT !.pc = "plan", !.base = active])
              /\ UNCHANGED <<active, pending, objects, payloads, edited, faults>>
           \/ /\ \/ e = Registration /\ active.payload # None
                 \/ e # Registration /\ (readable => e \in Range(Log))
              /\ Abort(w)

(* The broker computes its outputs against the state it read, and the
   generations it will require of their destinations. *)
Plan(w) ==
    LET e == worker[w].ev
        log == StateLog(worker[w].base.payload)
        c == [ev |-> e, gen |-> worker[w].base.gen, log |-> log,
              pre |-> [p \in Paths |->
                         IF p \in Range(Writes(e)) THEN Precondition(p) ELSE 0]]
    IN  /\ worker[w].pc = "plan"
        /\ IF \A p \in Range(ObjWrites[e]) : DestinationSafe(log, p)
           THEN /\ Become(w, [worker[w] EXCEPT !.pc = "stage", !.c = c])
                /\ UNCHANGED <<active, pending, objects, payloads, edited, faults>>
           ELSE Abort(w)

(* commit(): re-check every destination, then stage the state and every output
   under the commit id. *)
Stage(w) ==
    LET c == worker[w].c
    IN  /\ worker[w].pc = "stage"
        /\ IF \A p \in Range(Writes(c.ev)) : Generation(p) = c.pre[p] \/ Holds(p, Output(c))
           THEN /\ payloads' = payloads \cup
                     {<<c, p>> : p \in Range(Writes(c.ev)) \cup {None}}
                /\ Become(w, [worker[w] EXCEPT !.pc = "reserve"])
                /\ UNCHANGED <<active, pending, objects, edited, faults>>
           ELSE Abort(w)

(* Mutant: reserve without the state generation precondition. *)
Reserve_AnyGeneration(w) ==
    /\ worker[w].pc = "reserve"
    /\ \/ /\ pending = None
          /\ pending' = [c |-> worker[w].c, delivered |-> Nowhere]
          /\ Become(w, [worker[w] EXCEPT !.pc = "object", !.delivered = Nowhere, !.i = 1])
          /\ UNCHANGED <<active, objects, payloads, edited, faults>>
       \/ pending # None /\ Abort(w)

(* CanonicalStateStore::reserve: win the empty slot, resume the very same
   commit, or lose. *)
Reserve(w) ==
    LET c == worker[w].c
        deliver(d) == Become(w, [worker[w] EXCEPT !.pc = "object", !.delivered = d, !.i = 1])
    IN  /\ worker[w].pc = "reserve"
        /\ \/ /\ pending = None /\ active.gen = c.gen
              /\ pending' = [c |-> c, delivered |-> Nowhere]
              /\ deliver(Nowhere)
              /\ UNCHANGED <<active, objects, payloads, edited, faults>>
           \/ /\ pending # None /\ pending.c = c
              /\ deliver(pending.delivered)
              /\ UNCHANGED <<active, pending, objects, payloads, edited, faults>>
           \/ /\ IF pending = None THEN active.gen # c.gen ELSE pending.c # c
              /\ Abort(w)

-----------------------------------------------------------------------------
(* deliver(): ordinary outputs, promotion of the state, release signals,
   completion, cleanup. *)

HoldsPending(w) == pending # None /\ pending.c = worker[w].c

Recording(w, p, generation, next) ==
    [worker[w] EXCEPT !.pc = next,
                      !.delivered = [worker[w].delivered EXCEPT ![p] = generation]]

(* Mutant: an upload without its generation precondition. *)
DeliverWrite_Unconditional(w, p, next) ==
    LET c == worker[w].c
    IN  /\ objects' = IF Holds(p, Output(c)) THEN objects
                      ELSE [objects EXCEPT ![p] = Append(@, Output(c))]
        /\ Become(w, Recording(w, p, Len(objects'[p]), next))
        /\ UNCHANGED <<active, pending, payloads, edited, faults>>

(* deliver_write up to its checkpoint: verify an output already recorded, accept
   one that is already there, or upload it under its generation precondition. *)
DeliverWrite(w, p, next) ==
    LET c == worker[w].c
        recorded == worker[w].delivered[p]
        present == Holds(p, Output(c))
    IN  \/ /\ <<c, p>> \in payloads /\ present
           /\ recorded \in {0, Generation(p)}
           /\ Become(w, Recording(w, p, Generation(p), next))
           /\ UNCHANGED <<active, pending, objects, payloads, edited, faults>>
        \/ /\ <<c, p>> \in payloads /\ ~present
           /\ recorded = 0 /\ Generation(p) = c.pre[p]
           /\ objects' = [objects EXCEPT ![p] = Append(@, Output(c))]
           /\ Become(w, Recording(w, p, Generation(p) + 1, next))
           /\ UNCHANGED <<active, pending, payloads, edited, faults>>
        \/ /\ \/ <<c, p>> \notin payloads
              \/ present /\ recorded \notin {0, Generation(p)}
              \/ ~present /\ (recorded # 0 \/ Generation(p) # c.pre[p])
           /\ Abort(w)

(* Mutant: release signals are delivered with the ordinary outputs. *)
DeliverObject_WithReleases(w) ==
    /\ worker[w].pc = "object"
    /\ worker[w].i <= Len(Writes(worker[w].c.ev))
    /\ DeliverWrite(w, Writes(worker[w].c.ev)[worker[w].i], "saveObject")

DeliverObject(w) ==
    /\ worker[w].pc = "object"
    /\ worker[w].i <= Len(ObjWrites[worker[w].c.ev])
    /\ DeliverWrite(w, ObjWrites[worker[w].c.ev][worker[w].i], "saveObject")

DeliverRelease(w) ==
    /\ worker[w].pc = "release"
    /\ worker[w].i <= Len(RelWrites[worker[w].c.ev])
    /\ DeliverWrite(w, RelWrites[worker[w].c.ev][worker[w].i], "saveRelease")

(* save_pending: the record takes over the worker's own copy of the
   deliveries, provided the same commit is still pending. *)
SavePending(w) ==
    /\ worker[w].pc \in {"saveObject", "saveRelease"}
    /\ IF HoldsPending(w)
       THEN /\ pending' = [pending EXCEPT !.delivered = worker[w].delivered]
            /\ Become(w, [worker[w] EXCEPT
                 !.pc = IF worker[w].pc = "saveObject" THEN "object" ELSE "release",
                 !.i = worker[w].i + 1])
            /\ UNCHANGED <<active, objects, payloads, edited, faults>>
       ELSE Abort(w)

Recorded(w, paths) == \A p \in Range(paths) : worker[w].delivered[p] # 0

(* Mutant: finalize leaves the reservation behind. *)
Finalize_KeepsReservation(w) ==
    LET c == worker[w].c
    IN  /\ worker[w].pc = "object"
        /\ worker[w].i > Len(ObjWrites[c.ev])
        /\ IF HoldsPending(w) /\ Recorded(w, ObjWrites[c.ev])
           THEN /\ active' = IF active.payload = c THEN active
                             ELSE [gen |-> active.gen + 1, payload |-> c]
                /\ Become(w, [worker[w] EXCEPT
                     !.pc = IF RelWrites[c.ev] = <<>> THEN "cleanup" ELSE "release",
                     !.i = 1])
                /\ UNCHANGED <<pending, objects, payloads, edited, faults>>
           ELSE Abort(w)

(* Mutant: the state is promoted first and the outputs are left to come later. *)
Finalize_BeforeOutputs(w) ==
    LET c == worker[w].c
    IN  /\ worker[w].pc = "object"
        /\ IF HoldsPending(w)
           THEN /\ IF active.payload = c
                   THEN UNCHANGED <<active, pending>>
                   ELSE /\ active' = [gen |-> active.gen + 1, payload |-> c]
                        /\ pending' = IF RelWrites[c.ev] = <<>> THEN None
                                      ELSE [c |-> c, delivered |-> worker[w].delivered]
                /\ Become(w, [worker[w] EXCEPT
                     !.pc = IF RelWrites[c.ev] = <<>> THEN "cleanup" ELSE "release",
                     !.i = 1])
                /\ UNCHANGED <<objects, payloads, edited, faults>>
           ELSE Abort(w)

(* finalize: promote the pending state once every ordinary output is recorded;
   the reservation stays while release signals are outstanding. *)
Finalize(w) ==
    LET c == worker[w].c
    IN  /\ worker[w].pc = "object"
        /\ worker[w].i > Len(ObjWrites[c.ev])
        /\ IF HoldsPending(w) /\ Recorded(w, ObjWrites[c.ev])
           THEN /\ IF active.payload = c
                   THEN UNCHANGED <<active, pending>>
                   ELSE /\ active' = [gen |-> active.gen + 1, payload |-> c]
                        /\ pending' = IF RelWrites[c.ev] = <<>> THEN None
                                      ELSE [c |-> c, delivered |-> worker[w].delivered]
                /\ Become(w, [worker[w] EXCEPT
                     !.pc = IF RelWrites[c.ev] = <<>> THEN "cleanup" ELSE "release",
                     !.i = 1])
                /\ UNCHANGED <<objects, payloads, edited, faults>>
           ELSE Abort(w)

(* complete: clear the reservation once every release signal is recorded. *)
Complete(w) ==
    LET c == worker[w].c
    IN  /\ worker[w].pc = "release"
        /\ worker[w].i > Len(RelWrites[c.ev])
        /\ IF HoldsPending(w) /\ active.payload = c /\ Recorded(w, RelWrites[c.ev])
           THEN /\ pending' = None
                /\ Become(w, [worker[w] EXCEPT !.pc = "cleanup", !.i = 1])
                /\ UNCHANGED <<active, objects, payloads, edited, faults>>
           ELSE Abort(w)

(* Mutant: cleanup takes the state payload with the outputs. *)
Cleanup_DropsState(w) ==
    LET c == worker[w].c
    IN  /\ worker[w].pc = "cleanup"
        /\ worker[w].i <= Len(Writes(c.ev))
        /\ payloads' = payloads \ {<<c, Writes(c.ev)[worker[w].i]>>, <<c, None>>}
        /\ Become(w, [worker[w] EXCEPT !.i = worker[w].i + 1])
        /\ UNCHANGED <<active, pending, objects, edited, faults>>

(* Best-effort removal of the delivered payloads, one at a time; the state
   payload stays. *)
Cleanup(w) ==
    LET c == worker[w].c
    IN  /\ worker[w].pc = "cleanup"
        /\ worker[w].i <= Len(Writes(c.ev))
        /\ \/ payloads' = payloads \ {<<c, Writes(c.ev)[worker[w].i]>>} /\ UNCHANGED faults
           \/ faults < MaxFaults /\ faults' = faults + 1 /\ UNCHANGED payloads
        /\ Become(w, [worker[w] EXCEPT !.i = worker[w].i + 1])
        /\ UNCHANGED <<active, pending, objects, edited>>

(* deliver() returns: a recovery goes on to the event it was called for. *)
Delivered(w) ==
    /\ worker[w].pc = "cleanup"
    /\ worker[w].i > Len(Writes(worker[w].c.ev))
    /\ Become(w, IF worker[w].rec THEN [Idle EXCEPT !.pc = "read", !.ev = worker[w].ev]
                 ELSE Idle)
    /\ UNCHANGED <<active, pending, objects, payloads, edited, faults>>

-----------------------------------------------------------------------------
(* A worker dies, times out, or loses a compare-and-swap or a response: its
   local state is gone, everything it has written stays. *)
Crash(w) ==
    /\ worker[w].pc # "idle"
    /\ faults < MaxFaults
    /\ faults' = faults + 1
    /\ Return(w)
    /\ UNCHANGED <<active, pending, objects, payloads, edited>>

(* A device edits its generated view in place; the new version raises e. *)
DeviceEdit(e) ==
    LET p == EditOf[e]
    IN  /\ p # None /\ e \notin edited
        /\ objects[p] # <<>>
        /\ objects' = [objects EXCEPT ![p] = Append(@, Device(e))]
        /\ edited' = edited \cup {e}
        /\ UNCHANGED <<active, pending, payloads, worker, faults>>

Step(w) ==
    \/ ReadState(w) \/ Plan(w) \/ Stage(w) \/ Reserve(w)
    \/ DeliverObject(w) \/ SavePending(w) \/ Finalize(w)
    \/ DeliverRelease(w) \/ Complete(w) \/ Cleanup(w) \/ Delivered(w)

Next ==
    \/ \E w \in Workers, e \in Events : Receive(w, e)
    \/ \E w \in Workers : Step(w) \/ Crash(w)
    \/ \E e \in Events : DeviceEdit(e)

Spec == Init /\ [][Next]_vars

(* A running handler is scheduled, and Eventarc redelivers every event. *)
Fairness ==
    /\ \A w \in Workers : WF_vars(Step(w))
    /\ \A e \in Events : SF_vars(\E w \in Workers : Receive(w, e))

FairSpec == Spec /\ Fairness

-----------------------------------------------------------------------------
(* Type invariant. *)
TypeOK ==
    /\ active \in ActiveStates
    /\ pending \in PendingCommits \cup {None}
    /\ objects \in [Paths -> Seq(Contents)]
    /\ payloads \subseteq Commits \X (Paths \cup {None})
    /\ edited \subseteq Events
    /\ worker \in [Workers -> WorkerStates]
    /\ faults \in 0..MaxFaults

(* "active canonical state never points past undelivered device views":
   every event of the canonical history has had each of its outputs uploaded,
   computed from exactly the prefix it extends (outbox.rs:392-398). *)
ViewsBeforeState ==
    \A k \in DOMAIN Log : \A p \in Range(ObjWrites[Log[k]]) :
        [by |-> "broker", ev |-> Log[k], base |-> k - 1] \in Range(objects[p])

(* A conflict-resolution marker is visible only when the state that resolves
   the conflict is active or has been succeeded (outbox.rs:400-405). *)
NoPrematureMarker ==
    \A e \in Events : \A p \in Range(RelWrites[e]) : \A k \in DOMAIN objects[p] :
        (objects[p][k].by = "broker" /\ objects[p][k].ev = e)
        => /\ objects[p][k].base + 1 \in DOMAIN Log
           /\ Log[objects[p][k].base + 1] = e

(* "a stale destination generation cannot be overwritten": an output directly
   over a device's in-place edit was computed from a state that had accepted
   that edit (broker.rs:853-882, outbox.rs:448-456). *)
EditsNeverOverwritten ==
    \A p \in Paths : \A k \in DOMAIN objects[p] :
        (/\ k + 1 \in DOMAIN objects[p]
         /\ objects[p][k].by = "device"
         /\ objects[p][k + 1].by = "broker")
        => \E j \in 1..objects[p][k + 1].base :
             j \in DOMAIN Log /\ Log[j] = objects[p][k].ev

(* "a crash after an object upload does not duplicate the object on retry":
   no version is written twice, whatever workers crash or overlap. *)
NoDuplicateUpload == \A p \in Paths : IsInjective(objects[p])

(* The payload recovery needs is still staged while a commit is pending, and
   the active state stays readable (outbox.rs:409-424). *)
RecoverablePayloads ==
    /\ active.payload # None => <<active.payload, None>> \in payloads
    /\ pending # None =>
         \A p \in Range(IF active.payload = pending.c THEN RelWrites[pending.c.ev]
                        ELSE Writes(pending.c.ev)) : <<pending.c, p>> \in payloads

(* Refinement: the outbox implements the linear log of CanonicalLog. *)
WrittenBy(e, p) ==
    \E k \in DOMAIN objects[p] : objects[p][k].by = "broker" /\ objects[p][k].ev = e
Silent == {e \in Events : ObjWrites[e] = <<>>}
Viewed == {e \in Events : \A p \in Range(ObjWrites[e]) : WrittenBy(e, p)}
Released == {e \in Events : \E p \in Range(RelWrites[e]) : WrittenBy(e, p)}

CL == INSTANCE CanonicalLog WITH views <- Viewed, log <- Log, released <- Released
ImplementsCanonicalLog == CL!Spec

(* A reservation never outlives its recovery: once the crashes stop, the
   redelivered events drive every pending commit to its end (outbox.rs:370-424);
   the doc: "A crash in either phase resumes from the recorded object generations". *)
PendingResolves == (pending # None) ~> (pending = None)

(* Every event the broker is sent is eventually part of the canonical history. *)
EventuallyAccepted ==
    \A e \in Events : (EditOf[e] = None \/ e \in edited) ~> (e \in Range(Log))
=============================================================================
