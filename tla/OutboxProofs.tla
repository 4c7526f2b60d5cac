---------------------------- MODULE OutboxProofs ----------------------------
(***************************************************************************)
(* Machine-checked theorems about Outbox, for any number of workers,       *)
(* events, paths and crashes: type correctness, ViewsBeforeState,          *)
(* NoPrematureMarker, NoDuplicateUpload, EditsNeverOverwritten,            *)
(* RecoverablePayloads, and that the outbox implements CanonicalLog.       *)
(*                                                                         *)
(* The inductive invariant IInv says what a reservation means: a commit a  *)
(* worker carries was computed from a prefix of the canonical history, and *)
(* from the moment it was reserved it either is the pending commit and     *)
(* extends the whole history, or has become part of the history.  On top   *)
(* of it ContentInv relates the commits in flight to the stored versions,  *)
(* and StagedInv to the staged payloads.                                   *)
(***************************************************************************)
EXTENDS Outbox, TLAPS, WellFoundedInduction

Prefix(s, t) == Len(s) <= Len(t) /\ \A k \in 1..Len(s) : s[k] = t[k]

(* c was computed from a past or the present canonical state. *)
Based(c, log) ==
    /\ c \in Commits
    /\ c.gen = Len(c.log)
    /\ Prefix(c.log, log)
    /\ c.ev \notin Range(c.log)

(* c is in the canonical history, at the place it was computed for. *)
Published(c, log) == Len(c.log) < Len(log) /\ log[Len(c.log) + 1] = c.ev

(* Whatever is recorded as delivered has been uploaded. *)
Truthful(c, delivered, objs) ==
    \A p \in Paths : delivered[p] # 0 => Output(c) \in Range(objs[p])

Reserved(c, pend) == pend # None /\ pend.c = c

Delivering == {"object", "saveObject", "release", "saveRelease", "cleanup"}
Releasing == {"release", "saveRelease", "cleanup"}

(* What a worker knows, phase by phase. *)
RecordOK(r, log, objs, pend) ==
    /\ r.pc # "idle" => r.ev \in Events
    /\ r.pc = "plan" =>
         /\ r.base \in ActiveStates
         /\ r.base.gen = Len(StateLog(r.base.payload))
         /\ Prefix(StateLog(r.base.payload), log)
         /\ r.ev \notin Range(StateLog(r.base.payload))
    /\ r.pc \in {"stage", "reserve"} => Based(r.c, log)
    /\ r.pc \in Delivering =>
         /\ r.i >= 1
         /\ Based(r.c, log)
         /\ Truthful(r.c, r.delivered, objs)
         /\ Published(r.c, log) \/ Reserved(r.c, pend)
    /\ r.pc \in Releasing => Published(r.c, log)

(* The generation counts the accepted events, and none is accepted twice. *)
ActiveOK == active.gen = Len(Log) /\ IsInjective(Log)

(* The reservation extends the whole history until it is published. *)
PendingOK ==
    pending # None =>
        /\ Based(pending.c, Log)
        /\ Truthful(pending.c, pending.delivered, objects)
        /\ active.payload = pending.c \/ pending.c.log = Log

WorkersOK == \A w \in Workers : RecordOK(worker[w], Log, objects, pending)

IInv ==
    /\ TypeOK
    /\ ActiveOK
    /\ PendingOK
    /\ WorkersOK
    /\ ViewsBeforeState
    /\ NoPrematureMarker

-----------------------------------------------------------------------------
(* Type correctness. *)

(* One worker changes, the others are left alone. *)
LEMMA BecomeFacts ==
    ASSUME NEW w \in Workers, NEW r \in WorkerStates,
           worker \in [Workers -> WorkerStates], Become(w, r)
    PROVE  /\ worker' \in [Workers -> WorkerStates]
           /\ worker'[w] = r
           /\ \A v \in Workers : v # w => worker'[v] = worker[v]
  BY DEF Become

(* An idle worker is a well-typed worker. *)
LEMMA IdleType == Idle \in WorkerStates
  BY DEF Idle, WorkerStates, Nowhere, Deliveries

(* An error return ends the request and touches nothing else. *)
LEMMA AbortType ==
    ASSUME NEW w \in Workers, TypeOK, Abort(w)
    PROVE  TypeOK'
  BY IdleType, BecomeFacts DEF Abort, Return, TypeOK

(* deliver_write records a generation, whichever way it goes. *)
LEMMA RecordingType ==
    ASSUME NEW w \in Workers, NEW p \in Paths, NEW n \in Nat,
           NEW next \in {"saveObject", "saveRelease"}, TypeOK
    PROVE  Recording(w, p, n, next) \in WorkerStates
<1>1. worker[w] \in WorkerStates
  BY DEF TypeOK
<1>2. [worker[w].delivered EXCEPT ![p] = n] \in Deliveries
  BY <1>1 DEF WorkerStates, Deliveries
<1> QED
  BY <1>1, <1>2 DEF Recording, WorkerStates

(* deliver_write keeps the types, whether it verifies, uploads or fails. *)
LEMMA DeliverWriteType ==
    ASSUME NEW w \in Workers, NEW p \in Paths, NEW next \in {"saveObject", "saveRelease"},
           TypeOK, worker[w].c \in Commits, DeliverWrite(w, p, next)
    PROVE  TypeOK'
<1> DEFINE c == worker[w].c
<1>1. Output(c) \in Contents
  BY DEF Output, Contents, Commits
<1>2. Generation(p) \in Nat /\ Generation(p) + 1 \in Nat
  BY DEF Generation, TypeOK
<1>3. /\ Recording(w, p, Generation(p), next) \in WorkerStates
      /\ Recording(w, p, Generation(p) + 1, next) \in WorkerStates
  BY <1>2, RecordingType
<1>4. CASE /\ objects' = [objects EXCEPT ![p] = Append(@, Output(c))]
           /\ Become(w, Recording(w, p, Generation(p) + 1, next))
           /\ UNCHANGED <<active, pending, payloads, edited, faults>>
  <2>1. worker' \in [Workers -> WorkerStates]
    BY <1>3, <1>4, BecomeFacts DEF TypeOK
  <2>2. objects' \in [Paths -> Seq(Contents)]
    BY <1>1, <1>4 DEF TypeOK
  <2> QED
    BY <1>4, <2>1, <2>2 DEF TypeOK
<1>5. CASE /\ Become(w, Recording(w, p, Generation(p), next))
           /\ UNCHANGED <<active, pending, objects, payloads, edited, faults>>
  BY <1>3, <1>5, BecomeFacts DEF TypeOK
<1> QED
  BY <1>4, <1>5, AbortType DEF DeliverWrite

-----------------------------------------------------------------------------
(* What stays true while the history and the versions only grow. *)

(* A payload pointer stands for a sequence of events. *)
LEMMA StateLogType ==
    ASSUME NEW payload \in Commits \cup {None}
    PROVE  StateLog(payload) \in Seq(Events)
  BY OutboxAssumption DEF StateLog, Commits

(* The canonical history is a sequence of events. *)
LEMMA LogType == TypeOK => Log \in Seq(Events)
  BY StateLogType DEF Log, TypeOK, ActiveStates

(* Prefix is transitive. *)
LEMMA PrefixTrans ==
    ASSUME NEW s \in Seq(Events), NEW t \in Seq(Events), NEW u \in Seq(Events),
           Prefix(s, t), Prefix(t, u)
    PROVE  Prefix(s, u)
  BY DEF Prefix

(* A commit based on a history stays based on every extension of it. *)
LEMMA BasedStable ==
    ASSUME NEW c, NEW log \in Seq(Events), NEW log2 \in Seq(Events),
           Prefix(log, log2), Based(c, log)
    PROVE  Based(c, log2)
  BY PrefixTrans DEF Based, Commits

(* A published commit stays published when the history grows. *)
LEMMA PublishedStable ==
    ASSUME NEW c \in Commits, NEW log \in Seq(Events), NEW log2 \in Seq(Events),
           Prefix(log, log2), Published(c, log)
    PROVE  Published(c, log2)
  BY DEF Published, Prefix, Commits

(* Recorded deliveries stay true while versions are only appended. *)
LEMMA TruthfulStable ==
    ASSUME NEW c, NEW d, NEW objs, NEW objs2,
           \A p \in Paths : Range(objs[p]) \subseteq Range(objs2[p]),
           Truthful(c, d, objs)
    PROVE  Truthful(c, d, objs2)
  BY DEF Truthful

(* What is known about a worker survives growth of the history and of the
   versions, and any change of the record that keeps its reservation. *)
LEMMA RecordStable ==
    ASSUME NEW r \in WorkerStates,
           NEW log \in Seq(Events), NEW log2 \in Seq(Events), Prefix(log, log2),
           NEW objs, NEW objs2,
           \A p \in Paths : Range(objs[p]) \subseteq Range(objs2[p]),
           NEW pend, NEW pend2,
           \A c \in Commits : Reserved(c, pend) => Reserved(c, pend2) \/ Published(c, log2),
           RecordOK(r, log, objs, pend)
    PROVE  RecordOK(r, log2, objs2, pend2)
<1>1. r.pc = "plan" => Prefix(StateLog(r.base.payload), log2)
  BY StateLogType, PrefixTrans DEF RecordOK, ActiveStates
<1>2. r.pc \in {"stage", "reserve"} => Based(r.c, log2)
  BY BasedStable DEF RecordOK
<1>3. r.pc \in Delivering => /\ Based(r.c, log2)
                             /\ Truthful(r.c, r.delivered, objs2)
                             /\ Published(r.c, log2) \/ Reserved(r.c, pend2)
  <2> HAVE r.pc \in Delivering
  <2>1. Based(r.c, log) /\ r.c \in Commits /\ Truthful(r.c, r.delivered, objs)
    BY DEF RecordOK, Based
  <2>2. Based(r.c, log2)
    BY <2>1, BasedStable
  <2>3. Truthful(r.c, r.delivered, objs2)
    BY <2>1, TruthfulStable
  <2>4. Published(r.c, log2) \/ Reserved(r.c, pend2)
    BY <2>1, PublishedStable DEF RecordOK
  <2> QED
    BY <2>2, <2>3, <2>4
<1>4. r.pc \in Releasing => Published(r.c, log2)
  BY PublishedStable DEF RecordOK, Based, Delivering, Releasing
<1> QED
  BY <1>1, <1>2, <1>3, <1>4 DEF RecordOK

(* Prefix is reflexive. *)
LEMMA PrefixRefl == ASSUME NEW s \in Seq(Events) PROVE Prefix(s, s)
  BY DEF Prefix

(* The other workers keep what they know through any step of w. *)
LEMMA WorkersStable ==
    ASSUME IInv, Log' \in Seq(Events), Prefix(Log, Log'),
           \A p \in Paths : Range(objects[p]) \subseteq Range(objects'[p]),
           \A c \in Commits : Reserved(c, pending) => Reserved(c, pending') \/ Published(c, Log'),
           NEW w \in Workers,
           \A v \in Workers : v # w => worker'[v] = worker[v],
           RecordOK(worker'[w], Log', objects', pending')
    PROVE  WorkersOK'
<1>1. Log \in Seq(Events)
  BY LogType DEF IInv
<1>2. ASSUME NEW v \in Workers, v # w
      PROVE  RecordOK(worker'[v], Log', objects', pending')
  <2>1. worker[v] \in WorkerStates /\ RecordOK(worker[v], Log, objects, pending)
    BY DEF IInv, TypeOK, WorkersOK
  <2>2. RecordOK(worker[v], Log', objects', pending')
    BY <1>1, <2>1, RecordStable
  <2> QED
    BY <1>2, <2>2
<1> QED
  BY <1>2 DEF WorkersOK

(* A step that only moves one worker. *)
LEMMA LocalStep ==
    ASSUME IInv, NEW w \in Workers, NEW r \in WorkerStates, Become(w, r),
           RecordOK(r, Log, objects, pending),
           UNCHANGED <<active, pending, objects>>,
           payloads' \subseteq Commits \X (Paths \cup {None}),
           edited' \subseteq Events, faults' \in 0..MaxFaults
    PROVE  IInv'
<1>1. /\ worker' \in [Workers -> WorkerStates] /\ worker'[w] = r
      /\ \A v \in Workers : v # w => worker'[v] = worker[v]
  BY BecomeFacts DEF IInv, TypeOK
<1>2. TypeOK'
  BY <1>1 DEF IInv, TypeOK
<1>3. Log' = Log /\ Log \in Seq(Events)
  BY LogType DEF IInv, Log
<1>4. WorkersOK'
  <2>1. Prefix(Log, Log')
    BY <1>3, PrefixRefl
  <2>2. RecordOK(worker'[w], Log', objects', pending')
    BY <1>1, <1>3
  <2> QED
    BY <1>1, <1>3, <2>1, <2>2, WorkersStable
<1>5. ActiveOK' /\ PendingOK'
  BY <1>3 DEF IInv, ActiveOK, PendingOK
<1>6. ViewsBeforeState' /\ NoPrematureMarker'
  BY <1>3 DEF IInv, ViewsBeforeState, NoPrematureMarker
<1> QED
  BY <1>2, <1>4, <1>5, <1>6 DEF IInv

-----------------------------------------------------------------------------
(* Each step preserves the invariant. *)

(* Nothing needs to be known about an idle worker. *)
LEMMA IdleOK ==
    ASSUME NEW log, NEW objs, NEW pend PROVE RecordOK(Idle, log, objs, pend)
  BY DEF RecordOK, Idle, Delivering, Releasing

(* An error return (HTTP 500 or a rejection) preserves the invariant. *)
LEMMA AbortInv == ASSUME IInv, NEW w \in Workers, Abort(w) PROVE IInv'
  BY LocalStep, IdleType, IdleOK DEF Abort, Return, IInv, TypeOK

(* A crash between any two steps preserves the invariant. *)
LEMMA CrashInv == ASSUME IInv, NEW w \in Workers, Crash(w) PROVE IInv'
<1>1. faults' \in 0..MaxFaults
  BY OutboxAssumption DEF Crash, IInv, TypeOK
<1> QED
  BY <1>1, LocalStep, IdleType, IdleOK DEF Crash, Return, IInv, TypeOK

(* Taking an event, with or without a pending commit to recover. *)
LEMMA ReceiveInv ==
    ASSUME IInv, NEW w \in Workers, NEW e \in Events, Receive(w, e) PROVE IInv'
<1> USE DEF WorkerStates, Deliveries
<1>1. CASE pending = None \/ e = Registration
  <2> DEFINE r == [Idle EXCEPT !.pc = "read", !.ev = e]
  <2>1. r \in WorkerStates /\ r.pc = "read" /\ r.ev = e
    BY IdleType DEF Idle
  <2>2. RecordOK(r, Log, objects, pending)
    BY <2>1 DEF RecordOK, Delivering, Releasing
  <2>3. Become(w, r)
    BY <1>1 DEF Receive
  <2> HIDE DEF r
  <2> QED
    BY <2>1, <2>2, <2>3, LocalStep DEF Receive, IInv, TypeOK
<1>2. CASE pending # None /\ e # Registration
  <2> DEFINE n == IF active.payload = pending.c THEN Len(ObjWrites[pending.c.ev]) + 1 ELSE 1
             r == [Idle EXCEPT !.pc = "object", !.ev = e, !.rec = TRUE, !.c = pending.c,
                               !.delivered = pending.delivered, !.i = n]
  <2>1. pending.c \in Commits /\ pending.delivered \in [Paths -> Nat]
    BY <1>2 DEF IInv, TypeOK, PendingCommits
  <2>2. n \in Nat /\ n >= 1
    BY <2>1, OutboxAssumption DEF Commits
  <2> HIDE DEF n
  <2>3. r \in WorkerStates /\ r.pc = "object" /\ r.ev = e /\ r.c = pending.c
        /\ r.delivered = pending.delivered /\ r.i = n
    BY <2>1, <2>2, IdleType DEF Idle
  <2>4. RecordOK(r, Log, objects, pending)
    BY <1>2, <2>2, <2>3 DEF RecordOK, Delivering, Releasing, IInv, PendingOK, Reserved
  <2>5. Become(w, r)
    BY <1>2 DEF Receive, n
  <2> HIDE DEF r
  <2> QED
    BY <2>3, <2>4, <2>5, LocalStep DEF Receive, IInv, TypeOK
<1> QED
  BY <1>1, <1>2

(* The broker's state read. *)
LEMMA ReadStateInv ==
    ASSUME IInv, NEW w \in Workers, ReadState(w) PROVE IInv'
<1>1. CASE /\ worker[w].pc = "read" /\ worker[w].ev \notin Range(Log)
           /\ Become(w, [worker[w] EXCEPT !.pc = "plan", !.base = active])
           /\ UNCHANGED <<active, pending, objects, payloads, edited, faults>>
  <2> DEFINE r == [worker[w] EXCEPT !.pc = "plan", !.base = active]
  <2>1. worker[w] \in WorkerStates /\ active \in ActiveStates
    BY DEF IInv, TypeOK
  <2>2. r \in WorkerStates /\ r.pc = "plan" /\ r.base = active /\ r.ev = worker[w].ev
    BY <2>1 DEF WorkerStates
  <2>3. worker[w].ev \in Events
    BY <1>1 DEF IInv, WorkersOK, RecordOK
  <2>4. Prefix(Log, Log)
    BY LogType, PrefixRefl DEF IInv
  <2>5. RecordOK(r, Log, objects, pending)
    BY <1>1, <2>1, <2>2, <2>3, <2>4
    DEF RecordOK, Delivering, Releasing, IInv, ActiveOK, Log
  <2> HIDE DEF r
  <2> QED
    BY <1>1, <2>2, <2>5, LocalStep DEF r, IInv, TypeOK
<1>2. worker[w].ev = Registration /\ active.payload = None => worker[w].ev \notin Range(Log)
  BY DEF Log, StateLog, Range
<1> QED
  BY <1>1, <1>2, AbortInv DEF ReadState

(* The planned commit is based on the state that was read. *)
LEMMA PlanInv == ASSUME IInv, NEW w \in Workers, Plan(w) PROVE IInv'
<1> DEFINE e == worker[w].ev
           log == StateLog(worker[w].base.payload)
           pre == [p \in Paths |-> IF p \in Range(Writes(e)) THEN Precondition(p) ELSE 0]
           c == [ev |-> e, gen |-> worker[w].base.gen, log |-> log, pre |-> pre]
           r == [worker[w] EXCEPT !.pc = "stage", !.c = c]
<1>1. worker[w].pc = "plan" /\ worker[w] \in WorkerStates
      /\ RecordOK(worker[w], Log, objects, pending)
  BY DEF Plan, IInv, TypeOK, WorkersOK
<1>2. /\ e \in Events /\ worker[w].base \in ActiveStates
      /\ worker[w].base.gen = Len(log) /\ Prefix(log, Log) /\ e \notin Range(log)
  BY <1>1 DEF RecordOK
<1>3. log \in Seq(Events) /\ worker[w].base.gen \in Nat
  BY <1>2, StateLogType DEF ActiveStates
<1>4. pre \in [Paths -> Nat]
  BY DEF Precondition, Generation, IInv, TypeOK
<1> HIDE DEF log, pre
<1>5. c \in Commits
  BY <1>2, <1>3, <1>4 DEF Commits
<1>6. Based(c, Log)
  BY <1>2, <1>5 DEF Based
<1> HIDE DEF c
<1>7. r \in WorkerStates /\ r.pc = "stage" /\ r.c = c /\ r.ev = e
  BY <1>1, <1>5 DEF WorkerStates
<1>8. RecordOK(r, Log, objects, pending)
  BY <1>2, <1>6, <1>7 DEF RecordOK, Delivering, Releasing
<1> HIDE DEF r
<1>9. CASE Become(w, r) /\ UNCHANGED <<active, pending, objects, payloads, edited, faults>>
  BY <1>7, <1>8, <1>9, LocalStep DEF IInv, TypeOK
<1> QED
  BY <1>9, AbortInv DEF Plan, r, c, pre, log

(* Staging payloads touches neither the record nor the objects. *)
LEMMA StageInv == ASSUME IInv, NEW w \in Workers, Stage(w) PROVE IInv'
<1> DEFINE r == [worker[w] EXCEPT !.pc = "reserve"]
           c == worker[w].c
<1>1. worker[w].pc = "stage" /\ worker[w] \in WorkerStates
      /\ RecordOK(worker[w], Log, objects, pending)
  BY DEF Stage, IInv, TypeOK, WorkersOK
<1>2. r \in WorkerStates /\ r.pc = "reserve" /\ r.c = c /\ r.ev = worker[w].ev
  BY <1>1 DEF WorkerStates
<1>3. RecordOK(r, Log, objects, pending)
  BY <1>1, <1>2 DEF RecordOK, Delivering, Releasing
<1>4. c \in Commits /\ c.ev \in Events
  BY <1>1 DEF RecordOK, Based, Commits
<1>5. Range(Writes(c.ev)) \subseteq Paths
  BY <1>4, OutboxAssumption DEF Writes, Range
<1>6. CASE /\ payloads' = payloads \cup {<<c, p>> : p \in Range(Writes(c.ev)) \cup {None}}
           /\ Become(w, r) /\ UNCHANGED <<active, pending, objects, edited, faults>>
  <2>1. payloads' \subseteq Commits \X (Paths \cup {None})
    BY <1>4, <1>5, <1>6 DEF IInv, TypeOK
  <2> QED
    BY <1>2, <1>3, <1>6, <2>1, LocalStep DEF IInv, TypeOK
<1> QED
  BY <1>6, AbortInv DEF Stage

(* Two histories of the same length, one a prefix of the other, are equal. *)
LEMMA PrefixEqual ==
    ASSUME NEW s \in Seq(Events), NEW t \in Seq(Events), Prefix(s, t), Len(s) = Len(t)
    PROVE  s = t
  BY DEF Prefix

(* reserve: the generation check makes the commit extend the whole history. *)
LEMMA ReserveInv == ASSUME IInv, NEW w \in Workers, Reserve(w) PROVE IInv'
<1> DEFINE c == worker[w].c
           r(d) == [worker[w] EXCEPT !.pc = "object", !.delivered = d, !.i = 1]
<1>1. worker[w].pc = "reserve" /\ worker[w] \in WorkerStates
      /\ RecordOK(worker[w], Log, objects, pending) /\ Log \in Seq(Events)
  BY LogType DEF Reserve, IInv, TypeOK, WorkersOK
<1>2. Based(c, Log) /\ c \in Commits /\ worker[w].ev \in Events
  BY <1>1 DEF RecordOK, Based
<1>3. ASSUME NEW d \in Deliveries
      PROVE  r(d) \in WorkerStates /\ r(d).pc = "object" /\ r(d).c = c
             /\ r(d).ev = worker[w].ev /\ r(d).delivered = d /\ r(d).i = 1
  BY <1>1 DEF WorkerStates
<1> HIDE DEF r
<1>4. CASE /\ pending # None /\ pending.c = c
           /\ Become(w, r(pending.delivered))
           /\ UNCHANGED <<active, pending, objects, payloads, edited, faults>>
  <2>1. pending.delivered \in Deliveries
    BY <1>4 DEF IInv, TypeOK, PendingCommits
  <2>2. RecordOK(r(pending.delivered), Log, objects, pending)
    BY <1>2, <1>3, <1>4, <2>1
    DEF RecordOK, Delivering, Releasing, Reserved, IInv, PendingOK
  <2> QED
    BY <1>3, <1>4, <2>1, <2>2, LocalStep DEF IInv, TypeOK
<1>5. CASE /\ pending = None /\ active.gen = c.gen
           /\ pending' = [c |-> c, delivered |-> Nowhere]
           /\ Become(w, r(Nowhere))
           /\ UNCHANGED <<active, objects, payloads, edited, faults>>
  <2>1. Nowhere \in Deliveries
    BY DEF Nowhere, Deliveries
  <2>2. /\ worker' \in [Workers -> WorkerStates] /\ worker'[w] = r(Nowhere)
        /\ \A v \in Workers : v # w => worker'[v] = worker[v]
    BY <1>3, <1>5, <2>1, BecomeFacts DEF IInv, TypeOK
  <2>3. pending' \in PendingCommits /\ pending' # None
        /\ pending'.c = c /\ pending'.delivered = Nowhere
    BY <1>2, <1>5, <2>1, OutboxAssumption DEF PendingCommits
  <2>4. TypeOK'
    BY <1>5, <2>2, <2>3 DEF IInv, TypeOK
  <2>5. Log' = Log /\ Prefix(Log, Log')
    BY <1>1, <1>5, PrefixRefl DEF Log
  <2>6. Truthful(c, Nowhere, objects)
    BY DEF Truthful, Nowhere
  <2>7. RecordOK(r(Nowhere), Log', objects', pending')
    BY <1>2, <1>3, <1>5, <2>1, <2>3, <2>5, <2>6
    DEF RecordOK, Delivering, Releasing, Reserved
  <2>8. WorkersOK'
    <3>1. \A d \in Commits : ~ Reserved(d, pending)
      BY <1>5 DEF Reserved
    <3> QED
      BY <1>1, <1>5, <2>2, <2>5, <2>7, <3>1, WorkersStable
  <2>9. c.log = Log
    <3>1. Len(c.log) = Len(Log) /\ Prefix(c.log, Log) /\ c.log \in Seq(Events)
      BY <1>2, <1>5 DEF Based, Commits, IInv, ActiveOK
    <3> QED
      BY <1>1, <3>1, PrefixEqual
  <2>10. ActiveOK' /\ PendingOK'
    BY <1>2, <1>5, <2>3, <2>5, <2>6, <2>9 DEF IInv, ActiveOK, PendingOK
  <2>11. ViewsBeforeState' /\ NoPrematureMarker'
    BY <1>5, <2>5 DEF IInv, ViewsBeforeState, NoPrematureMarker
  <2> QED
    BY <2>4, <2>8, <2>10, <2>11 DEF IInv
<1> QED
  BY <1>4, <1>5, AbortInv DEF Reserve, r

(* A new version at p adds exactly one content to it. *)
AddVersion(objs, p, v) == [objs EXCEPT ![p] = Append(objs[p], v)]

Grown(objs, objs2, p, v) ==
    /\ \A q \in Paths : Range(objs[q]) \subseteq Range(objs2[q])
    /\ v \in Range(objs2[p])
    /\ \A q \in Paths : \A k \in DOMAIN objs2[q] :
         \/ k \in DOMAIN objs[q] /\ objs2[q][k] = objs[q][k]
         \/ q = p /\ objs2[q][k] = v

(* Appending one version adds exactly that version. *)
LEMMA AppendVersion ==
    ASSUME NEW p \in Paths, NEW v \in Contents, NEW objs \in [Paths -> Seq(Contents)]
    PROVE  Grown(objs, AddVersion(objs, p, v), p, v)
<1> DEFINE objs2 == AddVersion(objs, p, v)
<1>2. objs2[p] = Append(objs[p], v) /\ objs[p] \in Seq(Contents)
  BY DEF AddVersion
<1>3. DOMAIN objs2[p] = 1..(Len(objs[p]) + 1) /\ DOMAIN objs[p] = 1..Len(objs[p])
  BY <1>2
<1>4. objs2[p][Len(objs[p]) + 1] = v /\ \A k \in DOMAIN objs[p] : objs2[p][k] = objs[p][k]
  BY <1>2, <1>3
<1>5. \A q \in Paths : q # p => objs2[q] = objs[q]
  BY DEF AddVersion
<1> HIDE DEF objs2
<1>6. v \in Range(objs2[p])
  <2>1. Len(objs[p]) + 1 \in DOMAIN objs2[p]
    BY <1>2, <1>3
  <2> QED
    BY <1>4, <2>1 DEF Range
<1>7. \A q \in Paths : Range(objs[q]) \subseteq Range(objs2[q])
  BY <1>2, <1>3, <1>4, <1>5 DEF Range
<1>8. \A q \in Paths : \A k \in DOMAIN objs2[q] :
        \/ k \in DOMAIN objs[q] /\ objs2[q][k] = objs[q][k]
        \/ q = p /\ objs2[q][k] = v
  BY <1>2, <1>3, <1>4, <1>5
<1> QED
  BY <1>6, <1>7, <1>8 DEF Grown, objs2

(* deliver_write, in either phase: p belongs to the phase's writes, and a release
   signal is only written for a published commit. *)
LEMMA DeliverWriteInv ==
    ASSUME IInv, NEW w \in Workers, NEW p \in Paths,
           NEW next \in {"saveObject", "saveRelease"},
           worker[w].pc \in {"object", "release"},
           next = "saveRelease" <=> worker[w].pc = "release",
           worker[w].pc = "object" => p \in Range(ObjWrites[worker[w].c.ev]),
           DeliverWrite(w, p, next)
    PROVE  IInv'
<1> DEFINE c == worker[w].c
           r(n) == Recording(w, p, n, next)
<1>1. worker[w] \in WorkerStates /\ RecordOK(worker[w], Log, objects, pending)
      /\ Log \in Seq(Events)
  BY LogType DEF IInv, TypeOK, WorkersOK
<1>2. /\ c \in Commits /\ Based(c, Log) /\ worker[w].ev \in Events /\ worker[w].i >= 1
      /\ Truthful(c, worker[w].delivered, objects)
      /\ Published(c, Log) \/ Reserved(c, pending)
      /\ worker[w].pc = "release" => Published(c, Log)
  BY <1>1 DEF RecordOK, Based, Delivering, Releasing
<1>3. TypeOK'
  BY <1>2, DeliverWriteType DEF IInv
<1>4. ASSUME NEW n \in Nat
      PROVE  /\ r(n) \in WorkerStates /\ r(n).pc = next /\ r(n).c = c
             /\ r(n).ev = worker[w].ev /\ r(n).i = worker[w].i
             /\ \A q \in Paths : q # p => r(n).delivered[q] = worker[w].delivered[q]
  <2>1. r(n) \in WorkerStates
    BY RecordingType DEF IInv
  <2>2. worker[w].delivered \in [Paths -> Nat]
    BY <1>1 DEF WorkerStates, Deliveries
  <2> QED
    BY <1>1, <2>1, <2>2 DEF Recording, WorkerStates
<1>5. Generation(p) \in Nat /\ Generation(p) + 1 \in Nat
  BY DEF Generation, IInv, TypeOK
<1> HIDE DEF r
<1>6. ASSUME NEW n \in Nat, NEW objs, Output(c) \in Range(objs[p]),
             \A q \in Paths : Range(objects[q]) \subseteq Range(objs[q])
      PROVE  RecordOK(r(n), Log, objs, pending)
  <2>1. Truthful(c, r(n).delivered, objs)
    BY <1>2, <1>4, <1>6 DEF Truthful
  <2> QED
    BY <1>2, <1>4, <2>1 DEF RecordOK, Delivering, Releasing
<1>7. CASE /\ Holds(p, Output(c)) /\ Become(w, r(Generation(p)))
           /\ UNCHANGED <<active, pending, objects, payloads, edited, faults>>
  <2>1. Output(c) \in Range(objects[p])
    BY <1>7 DEF Holds, Range, IInv, TypeOK
  <2> QED
    BY <1>4, <1>5, <1>6, <1>7, <2>1, LocalStep DEF IInv, TypeOK
<1>8. CASE /\ objects' = [objects EXCEPT ![p] = Append(@, Output(c))]
           /\ Become(w, r(Generation(p) + 1))
           /\ UNCHANGED <<active, pending, payloads, edited, faults>>
  <2>1. Output(c) \in Contents
    BY <1>2 DEF Output, Contents, Commits
  <2>2. /\ \A q \in Paths : Range(objects[q]) \subseteq Range(objects'[q])
        /\ Output(c) \in Range(objects'[p])
        /\ \A q \in Paths : \A k \in DOMAIN objects'[q] :
             \/ k \in DOMAIN objects[q] /\ objects'[q][k] = objects[q][k]
             \/ q = p /\ objects'[q][k] = Output(c)
    <3>1. objects \in [Paths -> Seq(Contents)]
      BY DEF IInv, TypeOK
    <3>2. objects' = AddVersion(objects, p, Output(c))
      BY <1>8, <3>1 DEF AddVersion
    <3>3. Grown(objects, objects', p, Output(c))
      BY <2>1, <3>1, <3>2, AppendVersion
    <3> QED
      BY <3>3 DEF Grown
  <2>3. /\ worker'[w] = r(Generation(p) + 1)
        /\ \A v \in Workers : v # w => worker'[v] = worker[v]
    BY <1>4, <1>5, <1>8, BecomeFacts DEF IInv, TypeOK
  <2>4. Log' = Log /\ Prefix(Log, Log') /\ pending' = pending
    BY <1>1, <1>8, PrefixRefl DEF Log
  <2>5. WorkersOK'
    <3>1. RecordOK(worker'[w], Log', objects', pending')
      BY <1>5, <1>6, <2>2, <2>3, <2>4
    <3> QED
      BY <1>1, <2>2, <2>3, <2>4, <3>1, WorkersStable
  <2>6. ActiveOK'
    BY <1>8, <2>4 DEF IInv, ActiveOK
  <2>7. PendingOK'
    <3>1. pending # None => Truthful(pending.c, pending.delivered, objects')
      BY <2>2, TruthfulStable DEF IInv, PendingOK
    <3> QED
      BY <1>8, <2>4, <3>1 DEF IInv, PendingOK
  <2>8. ViewsBeforeState'
    <3>1. \A k \in DOMAIN Log : Range(ObjWrites[Log[k]]) \subseteq Paths
      BY <1>1, OutboxAssumption DEF Range
    <3> QED
      BY <2>2, <2>4, <3>1 DEF IInv, ViewsBeforeState
  <2>9. NoPrematureMarker'
    <3> SUFFICES ASSUME NEW e \in Events, NEW q \in Range(RelWrites[e]),
                        NEW k \in DOMAIN objects'[q],
                        objects'[q][k].by = "broker", objects'[q][k].ev = e
                 PROVE  /\ objects'[q][k].base + 1 \in DOMAIN Log
                        /\ Log[objects'[q][k].base + 1] = e
      BY <2>4 DEF NoPrematureMarker
    <3>1. q \in Paths
      BY OutboxAssumption DEF Range
    <3>2. CASE k \in DOMAIN objects[q] /\ objects'[q][k] = objects[q][k]
      BY <3>2 DEF IInv, NoPrematureMarker
    <3>3. CASE q = p /\ objects'[q][k] = Output(c)
      <4>1. c.ev = e /\ objects'[q][k].base = Len(c.log)
        BY <3>3 DEF Output
      <4>2. worker[w].pc = "release"
        BY <3>3, <4>1, OutboxAssumption
      <4>3. Len(c.log) < Len(Log) /\ Log[Len(c.log) + 1] = e /\ Len(c.log) \in Nat
        BY <1>2, <4>1, <4>2 DEF Published, Commits
      <4> QED
        BY <1>1, <4>1, <4>3
    <3> QED
      BY <2>2, <3>1, <3>2, <3>3
  <2> QED
    BY <1>3, <2>5, <2>6, <2>7, <2>8, <2>9 DEF IInv
<1> QED
  BY <1>7, <1>8, AbortInv DEF DeliverWrite, r

(* Both delivery phases. *)
LEMMA DeliverInv ==
    ASSUME IInv, NEW w \in Workers, DeliverObject(w) \/ DeliverRelease(w)
    PROVE  IInv'
<1> DEFINE c == worker[w].c
           i == worker[w].i
<1>1. worker[w] \in WorkerStates /\ RecordOK(worker[w], Log, objects, pending)
  BY DEF IInv, TypeOK, WorkersOK
<1>2. c \in Commits /\ c.ev \in Events /\ i \in Nat /\ i >= 1
  BY <1>1 DEF DeliverObject, DeliverRelease, RecordOK, Based, Delivering, Commits, WorkerStates
<1>3. ObjWrites[c.ev] \in Seq(Paths) /\ RelWrites[c.ev] \in Seq(Paths)
  BY <1>2, OutboxAssumption
<1>4. CASE DeliverObject(w)
  <2>1. i \in DOMAIN ObjWrites[c.ev]
    BY <1>2, <1>3, <1>4 DEF DeliverObject
  <2>2. ObjWrites[c.ev][i] \in Range(ObjWrites[c.ev]) /\ ObjWrites[c.ev][i] \in Paths
    BY <1>3, <2>1 DEF Range
  <2> QED
    BY <1>4, <2>2, DeliverWriteInv DEF DeliverObject
<1>5. CASE DeliverRelease(w)
  <2>1. RelWrites[c.ev][i] \in Paths
    BY <1>2, <1>3, <1>5 DEF DeliverRelease
  <2> QED
    BY <1>5, <2>1, DeliverWriteInv DEF DeliverRelease
<1> QED
  BY <1>4, <1>5

(* save_pending: the copy written back may be smaller but is never untrue. *)
LEMMA SavePendingInv == ASSUME IInv, NEW w \in Workers, SavePending(w) PROVE IInv'
<1> DEFINE c == worker[w].c
           label == IF worker[w].pc = "saveObject" THEN "object" ELSE "release"
           r == [worker[w] EXCEPT !.pc = label, !.i = worker[w].i + 1]
<1>1. worker[w] \in WorkerStates /\ RecordOK(worker[w], Log, objects, pending)
      /\ Log \in Seq(Events) /\ worker[w].pc \in {"saveObject", "saveRelease"}
  BY LogType DEF SavePending, IInv, TypeOK, WorkersOK
<1>2. /\ c \in Commits /\ Based(c, Log) /\ worker[w].ev \in Events /\ worker[w].i >= 1
      /\ Truthful(c, worker[w].delivered, objects) /\ worker[w].delivered \in Deliveries
      /\ Published(c, Log) \/ Reserved(c, pending)
      /\ worker[w].pc = "saveRelease" => Published(c, Log)
  BY <1>1 DEF RecordOK, Based, Delivering, Releasing, WorkerStates
<1>3. /\ r \in WorkerStates /\ r.c = c /\ r.ev = worker[w].ev
      /\ r.delivered = worker[w].delivered /\ r.i >= 1
      /\ r.pc = label
  <2>1. label \in {"object", "release"} /\ worker[w].i + 1 \in Nat /\ worker[w].i + 1 >= 1
    BY <1>1, <1>2 DEF WorkerStates
  <2> HIDE DEF label
  <2> QED
    BY <1>1, <2>1 DEF WorkerStates
<1> HIDE DEF r
<1>4. CASE /\ HoldsPending(w)
           /\ pending' = [pending EXCEPT !.delivered = worker[w].delivered]
           /\ Become(w, r) /\ UNCHANGED <<active, objects, payloads, edited, faults>>
  <2>1. /\ pending \in PendingCommits /\ pending.c = c
        /\ pending' = [c |-> c, delivered |-> worker[w].delivered]
    BY <1>4 DEF HoldsPending, IInv, TypeOK, PendingCommits
  <2>2. pending' \in PendingCommits /\ pending' # None /\ pending'.c = c
        /\ pending'.delivered = worker[w].delivered
    BY <1>2, <2>1, OutboxAssumption DEF PendingCommits
  <2>3. /\ worker' \in [Workers -> WorkerStates] /\ worker'[w] = r
        /\ \A v \in Workers : v # w => worker'[v] = worker[v]
    BY <1>3, <1>4, BecomeFacts DEF IInv, TypeOK
  <2>4. TypeOK'
    BY <1>4, <2>2, <2>3 DEF IInv, TypeOK
  <2>5. Log' = Log /\ Prefix(Log, Log') /\ objects' = objects
    BY <1>1, <1>4, PrefixRefl DEF Log
  <2>6. \A d : Reserved(d, pending) => Reserved(d, pending')
    BY <2>1, <2>2 DEF Reserved
  <2>7. RecordOK(r, Log, objects, pending')
    BY <1>1, <1>2, <1>3, <2>6 DEF RecordOK, Delivering, Releasing
  <2>8. WorkersOK'
    BY <1>1, <2>3, <2>5, <2>6, <2>7, WorkersStable
  <2>9. ActiveOK' /\ PendingOK'
    BY <1>2, <1>4, <2>1, <2>2, <2>5 DEF IInv, ActiveOK, PendingOK, HoldsPending
  <2>10. ViewsBeforeState' /\ NoPrematureMarker'
    BY <2>5 DEF IInv, ViewsBeforeState, NoPrematureMarker
  <2> QED
    BY <2>4, <2>8, <2>9, <2>10 DEF IInv
<1> QED
  BY <1>4, AbortInv DEF SavePending, r

(* Publishing c extends the history by exactly its event. *)
LEMMA PublishLog ==
    ASSUME NEW c \in Commits, NEW log \in Seq(Events), c.log = log, Based(c, log),
           IsInjective(log)
    PROVE  /\ StateLog(c) \in Seq(Events)
           /\ StateLog(c) = Append(log, c.ev)
           /\ Len(StateLog(c)) = Len(log) + 1
           /\ Prefix(log, StateLog(c))
           /\ Published(c, StateLog(c))
           /\ IsInjective(StateLog(c))
<1>1. StateLog(c) = Append(log, c.ev) /\ c.ev \in Events
  BY OutboxAssumption DEF StateLog, Commits
<1>2. StateLog(c) \in Seq(Events) /\ Len(StateLog(c)) = Len(log) + 1 /\ Len(log) \in Nat
  BY <1>1
<1>3. /\ \A k \in 1..Len(log) : StateLog(c)[k] = log[k]
      /\ StateLog(c)[Len(log) + 1] = c.ev
  BY <1>1
<1>4. Prefix(log, StateLog(c))
  BY <1>2, <1>3 DEF Prefix
<1>5. Published(c, StateLog(c))
  BY <1>2, <1>3 DEF Published
<1>6. IsInjective(StateLog(c))
  <2>1. \A k \in 1..Len(log) : log[k] # c.ev
    BY DEF Based, Range
  <2>2. DOMAIN log = 1..Len(log) /\ DOMAIN StateLog(c) = 1..(Len(log) + 1)
    BY <1>2
  <2>3. \A a, b \in 1..Len(log) : log[a] = log[b] => a = b
    BY <2>2 DEF IsInjective
  <2> QED
    BY <1>2, <1>3, <2>1, <2>2, <2>3 DEF IsInjective
<1> QED
  BY <1>1, <1>2, <1>4, <1>5, <1>6

(* finalize: publishing keeps every other worker's commit a past one. *)
LEMMA FinalizeInv == ASSUME IInv, NEW w \in Workers, Finalize(w) PROVE IInv'
<1> DEFINE c == worker[w].c
           label == IF RelWrites[c.ev] = <<>> THEN "cleanup" ELSE "release"
           r == [worker[w] EXCEPT !.pc = label, !.i = 1]
<1>1. worker[w] \in WorkerStates /\ RecordOK(worker[w], Log, objects, pending)
      /\ Log \in Seq(Events) /\ worker[w].pc = "object"
  BY LogType DEF Finalize, IInv, TypeOK, WorkersOK
<1>2. /\ c \in Commits /\ Based(c, Log) /\ worker[w].ev \in Events
      /\ Truthful(c, worker[w].delivered, objects) /\ worker[w].delivered \in Deliveries
  BY <1>1 DEF RecordOK, Based, Delivering, WorkerStates
<1>3. /\ r \in WorkerStates /\ r.c = c /\ r.ev = worker[w].ev
      /\ r.delivered = worker[w].delivered /\ r.i = 1 /\ r.pc \in {"cleanup", "release"}
  <2>1. label \in {"cleanup", "release"}
    OBVIOUS
  <2> HIDE DEF label
  <2> QED
    BY <1>1, <2>1 DEF WorkerStates
<1> HIDE DEF r
<1>4. ASSUME NEW log \in Seq(Events), NEW pend, Based(c, log), Published(c, log)
      PROVE  RecordOK(r, log, objects, pend)
  BY <1>2, <1>3, <1>4 DEF RecordOK, Delivering, Releasing
<1>5. CASE /\ HoldsPending(w) /\ active.payload = c
           /\ Become(w, r)
           /\ UNCHANGED <<active, pending, objects, payloads, edited, faults>>
  <2>1. Published(c, Log)
    <3>1. Log = Append(c.log, c.ev) /\ c.log \in Seq(Events) /\ c.ev \in Events
      BY <1>2, <1>5, OutboxAssumption DEF Log, StateLog, Commits
    <3> QED
      BY <3>1 DEF Published
  <2> QED
    BY <1>1, <1>2, <1>3, <1>4, <1>5, <2>1, LocalStep DEF IInv, TypeOK
<1>6. CASE /\ HoldsPending(w) /\ Recorded(w, ObjWrites[c.ev]) /\ active.payload # c
           /\ active' = [gen |-> active.gen + 1, payload |-> c]
           /\ pending' = IF RelWrites[c.ev] = <<>> THEN None
                         ELSE [c |-> c, delivered |-> worker[w].delivered]
           /\ Become(w, r)
           /\ UNCHANGED <<objects, payloads, edited, faults>>
  <2>1. c.log = Log
    BY <1>6 DEF HoldsPending, IInv, PendingOK
  <2>2. Log' = StateLog(c)
    BY <1>6 DEF Log
  <2>3. /\ Log' \in Seq(Events) /\ Log' = Append(Log, c.ev) /\ Len(Log') = Len(Log) + 1
        /\ Prefix(Log, Log') /\ Published(c, Log') /\ IsInjective(Log')
    BY <1>1, <1>2, <2>1, <2>2, PublishLog DEF IInv, ActiveOK
  <2>4. Based(c, Log')
    BY <1>1, <1>2, <2>3, BasedStable
  <2>5. active' \in ActiveStates /\ active'.gen = active.gen + 1 /\ active'.payload = c
    BY <1>2, <1>6 DEF IInv, TypeOK, ActiveStates
  <2>6. /\ pending' \in PendingCommits \cup {None}
        /\ pending' # None => pending'.c = c /\ pending'.delivered = worker[w].delivered
    BY <1>2, <1>6 DEF PendingCommits
  <2>7. /\ worker' \in [Workers -> WorkerStates] /\ worker'[w] = r
        /\ \A v \in Workers : v # w => worker'[v] = worker[v]
    BY <1>3, <1>6, BecomeFacts DEF IInv, TypeOK
  <2>8. TypeOK'
    BY <1>6, <2>5, <2>6, <2>7 DEF IInv, TypeOK
  <2>9. ActiveOK'
    BY <2>3, <2>5 DEF IInv, ActiveOK
  <2>10. PendingOK'
    BY <1>2, <1>6, <2>4, <2>5, <2>6 DEF PendingOK
  <2>11. WorkersOK'
    <3>1. RecordOK(worker'[w], Log', objects', pending')
      BY <1>4, <1>6, <2>3, <2>4, <2>7
    <3>2. \A d \in Commits : Reserved(d, pending) => Published(d, Log')
      BY <1>6, <2>3 DEF Reserved, HoldsPending
    <3>3. \A p \in Paths : Range(objects[p]) \subseteq Range(objects'[p])
      BY <1>6
    <3> QED
      BY <2>3, <2>7, <3>1, <3>2, <3>3, WorkersStable
  <2>12. ViewsBeforeState'
    <3> SUFFICES ASSUME NEW k \in DOMAIN Log', NEW p \in Range(ObjWrites[Log'[k]])
                 PROVE  [by |-> "broker", ev |-> Log'[k], base |-> k - 1] \in Range(objects[p])
      BY <1>6 DEF ViewsBeforeState
    <3>1. CASE k = Len(Log) + 1
      <4>1. Log'[k] = c.ev /\ k - 1 = Len(c.log)
        BY <1>1, <2>1, <2>3, <3>1
      <4>2. p \in Paths
        BY <1>2, <4>1, OutboxAssumption DEF Range, Commits
      <4>3. Output(c) \in Range(objects[p])
        BY <1>2, <1>6, <4>1, <4>2 DEF Recorded, Truthful
      <4> QED
        BY <4>1, <4>3 DEF Output
    <3>2. CASE k # Len(Log) + 1
      <4>1. k \in DOMAIN Log /\ Log'[k] = Log[k]
        BY <1>1, <2>3, <3>2
      <4> QED
        BY <4>1 DEF IInv, ViewsBeforeState
    <3> QED
      BY <3>1, <3>2
  <2>13. NoPrematureMarker'
    <3>1. \A k \in DOMAIN Log : k \in DOMAIN Log' /\ Log'[k] = Log[k]
      BY <1>1, <2>3
    <3> QED
      BY <1>6, <3>1 DEF IInv, NoPrematureMarker
  <2> QED
    BY <2>8, <2>9, <2>10, <2>11, <2>12, <2>13 DEF IInv
<1> QED
  BY <1>5, <1>6, AbortInv DEF Finalize, r

(* complete: the reservation of a published commit may be dropped. *)
LEMMA CompleteInv == ASSUME IInv, NEW w \in Workers, Complete(w) PROVE IInv'
<1> DEFINE c == worker[w].c
           r == [worker[w] EXCEPT !.pc = "cleanup", !.i = 1]
<1>1. worker[w] \in WorkerStates /\ RecordOK(worker[w], Log, objects, pending)
      /\ Log \in Seq(Events) /\ worker[w].pc = "release"
  BY LogType DEF Complete, IInv, TypeOK, WorkersOK
<1>2. /\ r \in WorkerStates /\ r.c = c /\ r.ev = worker[w].ev /\ r.pc = "cleanup"
      /\ r.delivered = worker[w].delivered /\ r.i = 1
  BY <1>1 DEF WorkerStates
<1>3. Published(c, Log)
  BY <1>1 DEF RecordOK, Releasing
<1>4. \A pend : RecordOK(r, Log, objects, pend)
  BY <1>1, <1>2, <1>3 DEF RecordOK, Delivering, Releasing
<1> HIDE DEF r
<1>5. CASE /\ HoldsPending(w) /\ pending' = None
           /\ Become(w, r)
           /\ UNCHANGED <<active, objects, payloads, edited, faults>>
  <2>1. /\ worker' \in [Workers -> WorkerStates] /\ worker'[w] = r
        /\ \A v \in Workers : v # w => worker'[v] = worker[v]
    BY <1>2, <1>5, BecomeFacts DEF IInv, TypeOK
  <2>2. TypeOK'
    BY <1>5, <2>1 DEF IInv, TypeOK
  <2>3. Log' = Log /\ Prefix(Log, Log') /\ objects' = objects
    BY <1>1, <1>5, PrefixRefl DEF Log
  <2>4. WorkersOK'
    <3>1. \A d \in Commits : Reserved(d, pending) => Published(d, Log')
      BY <1>3, <1>5, <2>3 DEF Reserved, HoldsPending
    <3> QED
      BY <1>1, <1>4, <2>1, <2>3, <3>1, WorkersStable
  <2>5. ActiveOK' /\ PendingOK' /\ ViewsBeforeState' /\ NoPrematureMarker'
    BY <1>5, <2>3 DEF IInv, ActiveOK, PendingOK, ViewsBeforeState, NoPrematureMarker
  <2> QED
    BY <2>2, <2>4, <2>5 DEF IInv
<1> QED
  BY <1>5, AbortInv DEF Complete, r

(* Removing delivered payloads concerns no reservation. *)
LEMMA CleanupInv == ASSUME IInv, NEW w \in Workers, Cleanup(w) \/ Delivered(w) PROVE IInv'
<1>1. worker[w] \in WorkerStates /\ RecordOK(worker[w], Log, objects, pending)
      /\ worker[w].pc = "cleanup"
  BY DEF Cleanup, Delivered, IInv, TypeOK, WorkersOK
<1>2. CASE Cleanup(w)
  <2> DEFINE r == [worker[w] EXCEPT !.i = worker[w].i + 1]
  <2>1. /\ r \in WorkerStates /\ r.c = worker[w].c /\ r.ev = worker[w].ev /\ r.pc = "cleanup"
        /\ r.delivered = worker[w].delivered /\ r.i = worker[w].i + 1 /\ worker[w].i \in Nat
    BY <1>1 DEF WorkerStates
  <2>2. RecordOK(r, Log, objects, pending)
    BY <1>1, <2>1 DEF RecordOK, Delivering, Releasing
  <2> HIDE DEF r
  <2>3. payloads' \subseteq Commits \X (Paths \cup {None}) /\ faults' \in 0..MaxFaults
    BY <1>2, OutboxAssumption DEF Cleanup, IInv, TypeOK
  <2>4. Become(w, r) /\ UNCHANGED <<active, pending, objects, edited>>
    BY <1>2 DEF Cleanup, r
  <2> QED
    BY <2>1, <2>2, <2>3, <2>4, LocalStep DEF IInv, TypeOK
<1>3. CASE Delivered(w)
  <2> DEFINE e == worker[w].ev
             r == [Idle EXCEPT !.pc = "read", !.ev = e]
  <2>1. e \in Events
    BY <1>1 DEF RecordOK
  <2>2. r \in WorkerStates /\ r.pc = "read" /\ r.ev = e
    BY <2>1, IdleType DEF Idle, WorkerStates, Deliveries
  <2>3. RecordOK(r, Log, objects, pending)
    BY <2>1, <2>2 DEF RecordOK, Delivering, Releasing
  <2> HIDE DEF r
  <2>4. Become(w, r) \/ Become(w, Idle)
    BY <1>3 DEF Delivered, r
  <2> QED
    BY <1>3, <2>2, <2>3, <2>4, IdleType, IdleOK, LocalStep DEF Delivered, IInv, TypeOK
<1> QED
  BY <1>2, <1>3

(* A device edit only appends a version the broker did not write. *)
LEMMA DeviceEditInv == ASSUME IInv, NEW e \in Events, DeviceEdit(e) PROVE IInv'
<1> DEFINE p == EditOf[e]
<1>1. p \in Paths /\ Device(e) \in Contents /\ objects \in [Paths -> Seq(Contents)]
  BY OutboxAssumption DEF DeviceEdit, Device, Contents, IInv, TypeOK
<1>2. objects' = AddVersion(objects, p, Device(e))
  BY <1>1 DEF DeviceEdit, AddVersion
<1>3. Grown(objects, objects', p, Device(e))
  BY <1>1, <1>2, AppendVersion
<1>4. \A q \in Paths : Range(objects[q]) \subseteq Range(objects'[q])
  BY <1>3 DEF Grown
<1>5. TypeOK'
  BY <1>1 DEF DeviceEdit, IInv, TypeOK
<1>6. Log' = Log /\ Log \in Seq(Events) /\ Prefix(Log, Log) /\ pending' = pending
      /\ active' = active /\ worker' = worker
  BY LogType, PrefixRefl DEF DeviceEdit, Log, IInv
<1>7. WorkersOK'
  <2>1. ASSUME NEW v \in Workers PROVE RecordOK(worker[v], Log, objects', pending)
    <3>1. worker[v] \in WorkerStates /\ RecordOK(worker[v], Log, objects, pending)
      BY DEF IInv, TypeOK, WorkersOK
    <3> QED
      BY <1>4, <1>6, <3>1, RecordStable
  <2> QED
    BY <1>6, <2>1 DEF WorkersOK
<1>8. PendingOK'
  <2>1. pending # None => Truthful(pending.c, pending.delivered, objects')
    BY <1>4, TruthfulStable DEF IInv, PendingOK
  <2> QED
    BY <1>6, <2>1 DEF IInv, PendingOK
<1>9. ViewsBeforeState'
  <2>1. \A k \in DOMAIN Log : Range(ObjWrites[Log[k]]) \subseteq Paths
    BY <1>6, OutboxAssumption DEF Range
  <2> QED
    BY <1>4, <1>6, <2>1 DEF IInv, ViewsBeforeState
<1>10. NoPrematureMarker'
  <2> SUFFICES ASSUME NEW d \in Events, NEW q \in Range(RelWrites[d]),
                      NEW k \in DOMAIN objects'[q],
                      objects'[q][k].by = "broker", objects'[q][k].ev = d
               PROVE  /\ objects'[q][k].base + 1 \in DOMAIN Log
                      /\ Log[objects'[q][k].base + 1] = d
    BY <1>6 DEF NoPrematureMarker
  <2>1. q \in Paths
    BY OutboxAssumption DEF Range
  <2>2. Device(e).by # "broker"
    BY DEF Device
  <2>3. k \in DOMAIN objects[q] /\ objects'[q][k] = objects[q][k]
    BY <1>3, <2>1, <2>2 DEF Grown
  <2> QED
    BY <2>3 DEF IInv, NoPrematureMarker
<1>11. ActiveOK'
  BY <1>6 DEF IInv, ActiveOK
<1> QED
  BY <1>5, <1>7, <1>8, <1>9, <1>10, <1>11 DEF IInv

(* An empty document satisfies the invariant. *)
LEMMA InitInv == Init => IInv
<1> SUFFICES ASSUME Init PROVE IInv
  OBVIOUS
<1>1. Log = <<>>
  BY DEF Init, Log, StateLog
<1>2. TypeOK
  BY IdleType, OutboxAssumption DEF Init, TypeOK, ActiveStates
<1>3. WorkersOK
  BY IdleOK DEF Init, WorkersOK
<1>4. ActiveOK /\ PendingOK
  BY <1>1 DEF Init, ActiveOK, PendingOK, IsInjective
<1>5. ViewsBeforeState
  BY <1>1 DEF ViewsBeforeState
<1>6. NoPrematureMarker
  <2>1. \A e \in Events : \A p \in Range(RelWrites[e]) : p \in Paths
    BY OutboxAssumption DEF Range
  <2>2. \A p \in Paths : objects[p] = <<>>
    BY DEF Init
  <2> QED
    BY <2>1, <2>2 DEF NoPrematureMarker
<1> QED
  BY <1>2, <1>3, <1>4, <1>5, <1>6 DEF IInv

(* A stuttering step. *)
LEMMA StutterInv == ASSUME IInv, UNCHANGED vars PROVE IInv'
<1>1. Log' = Log
  BY DEF vars, Log
<1> QED
  BY <1>1 DEF vars, IInv, TypeOK, ActiveOK, PendingOK, WorkersOK, ViewsBeforeState,
              NoPrematureMarker

(* The invariant is inductive: one case per action. *)
LEMMA NextInv == IInv /\ [Next]_vars => IInv'
<1> SUFFICES ASSUME IInv, [Next]_vars PROVE IInv'
  OBVIOUS
<1>1. ASSUME NEW w \in Workers, NEW e \in Events, Receive(w, e) PROVE IInv'
  BY <1>1, ReceiveInv
<1>2. ASSUME NEW w \in Workers, Step(w) PROVE IInv'
  BY <1>2, ReadStateInv, PlanInv, StageInv, ReserveInv, DeliverInv, SavePendingInv,
     FinalizeInv, CompleteInv, CleanupInv DEF Step
<1>3. ASSUME NEW w \in Workers, Crash(w) PROVE IInv'
  BY <1>3, CrashInv
<1>4. ASSUME NEW e \in Events, DeviceEdit(e) PROVE IInv'
  BY <1>4, DeviceEditInv
<1> QED
  BY <1>1, <1>2, <1>3, <1>4, StutterInv DEF Next

-----------------------------------------------------------------------------
(* The theorems. *)

(* The inductive invariant holds of every behaviour of the outbox. *)
THEOREM Invariance == Spec => []IInv
  BY InitInv, NextInv, PTL DEF Spec

(* Every variable keeps its type, however workers overlap and crash. *)
THEOREM TypeCorrect == Spec => []TypeOK
<1>1. IInv => TypeOK
  BY DEF IInv
<1> QED
  BY Invariance, <1>1, PTL

(* finalize never promotes a state one of whose device outputs has not been
   uploaded, computed from exactly the history the state extends. *)
THEOREM StateNeverAheadOfViews == Spec => []ViewsBeforeState
<1>1. IInv => ViewsBeforeState
  BY DEF IInv
<1> QED
  BY Invariance, <1>1, PTL

(* No worker, in any overlap or recovery, makes a conflict-resolution marker
   visible before the resolving state is canonical. *)
THEOREM MarkerNeverPremature == Spec => []NoPrematureMarker
<1>1. IInv => NoPrematureMarker
  BY DEF IInv
<1> QED
  BY Invariance, <1>1, PTL

-----------------------------------------------------------------------------
(* Refinement of CanonicalLog. *)

(* A new version at p changes WrittenBy for its own event and path only. *)
LEMMA WrittenGrows ==
    ASSUME NEW p \in Paths, NEW v \in Contents, objects \in [Paths -> Seq(Contents)],
           objects' = AddVersion(objects, p, v)
    PROVE  \A e \in Events, q \in Paths :
             WrittenBy(e, q)' <=> WrittenBy(e, q) \/ (q = p /\ v.by = "broker" /\ v.ev = e)
<1>1. Grown(objects, objects', p, v)
  BY AppendVersion
<1> SUFFICES ASSUME NEW e \in Events, NEW q \in Paths
             PROVE  WrittenBy(e, q)' <=> WrittenBy(e, q) \/ (q = p /\ v.by = "broker" /\ v.ev = e)
  OBVIOUS
<1>2. WrittenBy(e, q) <=> \E x \in Range(objects[q]) : x.by = "broker" /\ x.ev = e
  BY DEF WrittenBy, Range
<1>3. WrittenBy(e, q)' <=> \E x \in Range(objects'[q]) : x.by = "broker" /\ x.ev = e
  BY DEF WrittenBy, Range
<1>4. Range(objects[q]) \subseteq Range(objects'[q])
      /\ \A x \in Range(objects'[q]) : x \in Range(objects[q]) \/ (q = p /\ x = v)
  BY <1>1 DEF Grown, Range
<1>5. v \in Range(objects'[p])
  BY <1>1 DEF Grown
<1> QED
  BY <1>2, <1>3, <1>4, <1>5

(* A step that touches neither the history nor the objects is a stutter. *)
LEMMA RefineStutter ==
    ASSUME UNCHANGED <<active, objects>> PROVE UNCHANGED CL!vars
  BY DEF CL!vars, Log, Viewed, Released, WrittenBy

(* An upload is a Deliver or a Release of the log, or a stutter. *)
LEMMA RefineWrite ==
    ASSUME IInv, NEW w \in Workers, DeliverObject(w) \/ DeliverRelease(w),
           ~ UNCHANGED objects
    PROVE  [CL!Next]_(CL!vars)
<1> DEFINE c == worker[w].c
           i == worker[w].i
<1>1. worker[w] \in WorkerStates /\ RecordOK(worker[w], Log, objects, pending)
      /\ Log \in Seq(Events)
  BY LogType DEF IInv, TypeOK, WorkersOK
<1>2. c \in Commits /\ c.ev \in Events /\ i \in Nat /\ i >= 1
      /\ (worker[w].pc = "release" => Published(c, Log))
  BY <1>1 DEF DeliverObject, DeliverRelease, RecordOK, Based, Delivering, Releasing, Commits,
              WorkerStates
<1>3. ObjWrites[c.ev] \in Seq(Paths) /\ RelWrites[c.ev] \in Seq(Paths)
      /\ Range(ObjWrites[c.ev]) \cap Range(RelWrites[c.ev]) = {}
  BY <1>2, OutboxAssumption
<1>4. PICK p \in Paths :
        /\ objects' = [objects EXCEPT ![p] = Append(@, Output(c))]
        /\ active' = active
        /\ \/ p \in Range(ObjWrites[c.ev])
           \/ p \in Range(RelWrites[c.ev]) /\ worker[w].pc = "release"
  <2>1. CASE DeliverObject(w)
    <3>1. i \in DOMAIN ObjWrites[c.ev]
      BY <1>2, <1>3, <2>1 DEF DeliverObject
    <3>2. ObjWrites[c.ev][i] \in Range(ObjWrites[c.ev]) /\ ObjWrites[c.ev][i] \in Paths
      BY <1>3, <3>1 DEF Range
    <3> QED
      BY <2>1, <3>2 DEF DeliverObject, DeliverWrite, Abort
  <2>2. CASE DeliverRelease(w)
    <3>1. i \in DOMAIN RelWrites[c.ev]
      BY <1>2, <1>3, <2>2 DEF DeliverRelease
    <3>2. RelWrites[c.ev][i] \in Range(RelWrites[c.ev]) /\ RelWrites[c.ev][i] \in Paths
      BY <1>3, <3>1 DEF Range
    <3> QED
      BY <2>2, <3>2 DEF DeliverRelease, DeliverWrite, Abort
  <2> QED
    BY <2>1, <2>2
<1>5. \A e \in Events, q \in Paths :
        WrittenBy(e, q)' <=> WrittenBy(e, q) \/ (q = p /\ c.ev = e)
  <2>1. Output(c) \in Contents /\ Output(c).by = "broker" /\ Output(c).ev = c.ev
    BY <1>2 DEF Output, Contents, Commits
  <2>2. objects' = AddVersion(objects, p, Output(c)) /\ objects \in [Paths -> Seq(Contents)]
    BY <1>4 DEF AddVersion, IInv, TypeOK
  <2> QED
    BY <2>1, <2>2, WrittenGrows
<1>6. Log' = Log
  BY <1>4 DEF Log
<1>7. \A e \in Events : Range(ObjWrites[e]) \subseteq Paths /\ Range(RelWrites[e]) \subseteq Paths
  BY OutboxAssumption DEF Range
<1>8. CASE p \in Range(ObjWrites[c.ev])
  <2>1. Released' = Released
    BY <1>3, <1>5, <1>7, <1>8 DEF Released
  <2>2. Viewed' = Viewed \/ Viewed' = Viewed \cup {c.ev}
    BY <1>5, <1>7 DEF Viewed
  <2>3. CASE c.ev \in Range(Log)
    <3>1. c.ev \in Viewed
      <4>1. PICK k \in DOMAIN Log : Log[k] = c.ev
        BY <2>3 DEF Range
      <4>2. \A q \in Range(ObjWrites[c.ev]) :
              [by |-> "broker", ev |-> c.ev, base |-> k - 1] \in Range(objects[q])
        BY <4>1 DEF IInv, ViewsBeforeState
      <4>3. \A q \in Range(ObjWrites[c.ev]) : WrittenBy(c.ev, q)
        BY <4>2 DEF WrittenBy, Range
      <4> QED
        BY <1>2, <4>3 DEF Viewed
    <3> QED
      BY <1>6, <2>1, <2>2, <3>1 DEF CL!vars
  <2>4. CASE c.ev \notin Range(Log)
    <3>1. Viewed' = Viewed \cup {c.ev} => CL!Deliver(c.ev)
      BY <1>6, <2>1, <2>4 DEF CL!Deliver, CL!Range, Range
    <3>2. Viewed' = Viewed => UNCHANGED CL!vars
      BY <1>6, <2>1 DEF CL!vars
    <3> QED
      BY <1>2, <2>2, <3>1, <3>2 DEF CL!Next
  <2> QED
    BY <2>3, <2>4
<1>9. CASE p \in Range(RelWrites[c.ev]) /\ worker[w].pc = "release"
  <2>1. Viewed' = Viewed
    BY <1>3, <1>5, <1>7, <1>9 DEF Viewed
  <2>2. Released' = Released \/ Released' = Released \cup {c.ev}
    BY <1>5, <1>7 DEF Released
  <2>3. c.ev \in Range(Log)
    <3>1. Len(c.log) + 1 \in DOMAIN Log /\ Log[Len(c.log) + 1] = c.ev
      BY <1>1, <1>2, <1>9 DEF Published, Commits
    <3> QED
      BY <3>1 DEF Range
  <2> QED
    <3>1. Released' = Released \cup {c.ev} => CL!Release(c.ev)
      BY <1>6, <2>1, <2>3 DEF CL!Release, CL!Range, Range
    <3>2. Released' = Released => UNCHANGED CL!vars
      BY <1>6, <2>1 DEF CL!vars
    <3> QED
      BY <1>2, <2>2, <3>1, <3>2 DEF CL!Next
<1> QED
  BY <1>4, <1>8, <1>9

(* A promotion is a Publish of the log. *)
LEMMA RefineFinalize ==
    ASSUME IInv, NEW w \in Workers, Finalize(w), ~ UNCHANGED active
    PROVE  [CL!Next]_(CL!vars)
<1> DEFINE c == worker[w].c
<1>1. worker[w] \in WorkerStates /\ RecordOK(worker[w], Log, objects, pending)
      /\ Log \in Seq(Events) /\ worker[w].pc = "object"
  BY LogType DEF Finalize, IInv, TypeOK, WorkersOK
<1>2. /\ c \in Commits /\ Based(c, Log) /\ c.ev \in Events
      /\ Truthful(c, worker[w].delivered, objects)
  BY <1>1 DEF RecordOK, Based, Delivering, Commits
<1>3. /\ HoldsPending(w) /\ Recorded(w, ObjWrites[c.ev]) /\ active.payload # c
      /\ active' = [gen |-> active.gen + 1, payload |-> c] /\ objects' = objects
  BY DEF Finalize, Abort
<1>4. c.log = Log
  BY <1>3 DEF HoldsPending, IInv, PendingOK
<1>5. Log' = Append(Log, c.ev)
  BY <1>2, <1>3, <1>4, OutboxAssumption DEF Log, StateLog
<1>6. c.ev \notin Range(Log)
  BY <1>2, <1>4 DEF Based
<1>7. c.ev \in Viewed
  <2>1. ASSUME NEW p \in Range(ObjWrites[c.ev]) PROVE WrittenBy(c.ev, p)
    <3>1. p \in Paths
      BY <1>2, OutboxAssumption DEF Range
    <3>2. Output(c) \in Range(objects[p])
      BY <1>2, <1>3, <3>1 DEF Recorded, Truthful
    <3> QED
      BY <3>2 DEF WrittenBy, Range, Output
  <2> QED
    BY <1>2, <2>1 DEF Viewed
<1>8. Viewed' = Viewed /\ Released' = Released
  BY <1>3 DEF Viewed, Released, WrittenBy
<1>9. CL!Publish(c.ev)
  BY <1>5, <1>6, <1>7, <1>8 DEF CL!Publish, CL!Range, Range
<1> QED
  BY <1>2, <1>9 DEF CL!Next

(* A device edit is a stutter of the log. *)
LEMMA RefineEdit ==
    ASSUME IInv, NEW e \in Events, DeviceEdit(e) PROVE UNCHANGED CL!vars
<1>1. EditOf[e] \in Paths /\ Device(e) \in Contents /\ objects \in [Paths -> Seq(Contents)]
      /\ Device(e).by # "broker"
  BY OutboxAssumption DEF DeviceEdit, Device, Contents, IInv, TypeOK
<1>2. objects' = AddVersion(objects, EditOf[e], Device(e)) /\ active' = active
  BY <1>1 DEF DeviceEdit, AddVersion
<1>3. \A d \in Events, q \in Paths : WrittenBy(d, q)' <=> WrittenBy(d, q)
  BY <1>1, <1>2, WrittenGrows
<1>4. \A d \in Events : Range(ObjWrites[d]) \subseteq Paths /\ Range(RelWrites[d]) \subseteq Paths
  BY OutboxAssumption DEF Range
<1>5. Viewed' = Viewed /\ Released' = Released
  BY <1>3, <1>4 DEF Viewed, Released
<1> QED
  BY <1>2, <1>5 DEF CL!vars, Log

(* An empty document is an empty log. *)
LEMMA RefineInit == Init => CL!Init
<1> SUFFICES ASSUME Init PROVE CL!Init
  OBVIOUS
<1>1. Log = <<>>
  BY DEF Init, Log, StateLog
<1>2. \A e \in Events : Range(ObjWrites[e]) \subseteq Paths /\ Range(RelWrites[e]) \subseteq Paths
  BY OutboxAssumption DEF Range
<1>3. \A e \in Events, p \in Paths : ~ WrittenBy(e, p)
  BY DEF Init, WrittenBy
<1>4. Released = {}
  BY <1>2, <1>3 DEF Released
<1>5. \A e \in Events : ObjWrites[e] = <<>> <=> Range(ObjWrites[e]) = {}
  <2>1. ASSUME NEW s \in Seq(Paths) PROVE s = <<>> <=> Range(s) = {}
    <3>1. CASE s = <<>>
      BY <3>1 DEF Range
    <3>2. CASE s # <<>>
      <4>1. 1 \in DOMAIN s
        BY <3>2
      <4> QED
        BY <3>2, <4>1 DEF Range
    <3> QED
      BY <3>1, <3>2
  <2> QED
    BY <2>1, OutboxAssumption
<1>6. Viewed = Silent
  BY <1>2, <1>3, <1>5 DEF Viewed, Silent
<1> QED
  BY <1>1, <1>4, <1>6 DEF CL!Init

(* Every step of the outbox is a step of the log or a stutter. *)
LEMMA RefineNext == IInv /\ [Next]_vars => [CL!Next]_(CL!vars)
<1> SUFFICES ASSUME IInv, [Next]_vars PROVE [CL!Next]_(CL!vars)
  OBVIOUS
<1>1. CASE UNCHANGED <<active, objects>>
  BY <1>1, RefineStutter
<1>2. CASE ~ UNCHANGED <<active, objects>>
  <2>1. \/ \E w \in Workers : (DeliverObject(w) \/ DeliverRelease(w)) /\ ~ UNCHANGED objects
        \/ \E w \in Workers : Finalize(w) /\ ~ UNCHANGED active
        \/ \E e \in Events : DeviceEdit(e)
    <3>1. ASSUME NEW w \in Workers, NEW e \in Events, Receive(w, e) PROVE FALSE
      BY <1>2, <3>1 DEF Receive
    <3>2. ASSUME NEW w \in Workers, Crash(w) PROVE FALSE
      BY <1>2, <3>2 DEF Crash
    <3>3. ASSUME NEW w \in Workers, Step(w)
          PROVE  \/ (DeliverObject(w) \/ DeliverRelease(w)) /\ ~ UNCHANGED objects
                 \/ Finalize(w) /\ ~ UNCHANGED active
      <4>1. ASSUME DeliverObject(w) \/ DeliverRelease(w) PROVE UNCHANGED active
        BY <4>1 DEF DeliverObject, DeliverRelease, DeliverWrite, Abort
      <4>2. ASSUME Finalize(w) PROVE UNCHANGED objects
        BY <4>2 DEF Finalize, Abort
      <4>3. ~ (ReadState(w) \/ Plan(w) \/ Stage(w))
        BY <1>2 DEF ReadState, Plan, Stage, Abort
      <4>4. ~ (Reserve(w) \/ SavePending(w) \/ Complete(w))
        BY <1>2 DEF Reserve, SavePending, Complete, Abort
      <4>5. ~ (Cleanup(w) \/ Delivered(w))
        BY <1>2 DEF Cleanup, Delivered
      <4> QED
        BY <1>2, <3>3, <4>1, <4>2, <4>3, <4>4, <4>5 DEF Step
    <3>4. ~ UNCHANGED vars
      BY <1>2 DEF vars
    <3> QED
      BY <3>1, <3>2, <3>3, <3>4 DEF Next
  <2> QED
    BY <2>1, RefineWrite, RefineFinalize, RefineEdit
<1> QED
  BY <1>1, <1>2

(* The outbox implements CanonicalLog: overlapping, crashing and recovering
   workers together behave as one atomic commit per event, in one linear
   history, with outputs before the state and markers after it. *)
THEOREM Refinement == Spec => ImplementsCanonicalLog
  BY Invariance, RefineInit, RefineNext, PTL DEF Spec, ImplementsCanonicalLog, CL!Spec

-----------------------------------------------------------------------------
(* The stored contents: no version twice, no unseen edit replaced. *)

(* The commits some worker or the record has reserved and not forgotten. *)
Carried ==
    {worker[w].c : w \in {v \in Workers : worker[v].pc \in Delivering}}
        \cup {r.c : r \in {pending} \ {None}}

(* The commits computed and not forgotten. *)
Planned ==
    {worker[w].c : w \in {v \in Workers : worker[v].pc \in {"stage", "reserve"}}} \cup Carried

(* Every output in the store is of the history or of the reservation. *)
VersionsKnown ==
    \A p \in Paths : \A k \in DOMAIN objects[p] :
        /\ objects[p][k].by = "broker" =>
             \/ objects[p][k].base < Len(Log)
             \/ pending # None /\ objects[p][k] = Output(pending.c)
        /\ objects[p][k].by = "device" =>
             objects[p][k].ev \in edited /\ objects[p][k] = Device(objects[p][k].ev)

(* The generation a carried commit requires has passed once it is uploaded. *)
GenerationPassed ==
    \A c \in Carried, p \in Paths : Output(c) \in Range(objects[p]) => c.pre[p] < Len(objects[p])

(* The version a commit was computed to replace, if a device wrote it, is one
   the commit's history has accepted. *)
ReplacesKnown ==
    \A c \in Planned, p \in Paths :
        /\ c.pre[p] <= Len(objects[p])
        /\ (c.pre[p] > 0 /\ objects[p][c.pre[p]].by = "device")
           => objects[p][c.pre[p]].ev \in Range(c.log)

(* What is known about the stored contents. *)
ContentInv ==
    /\ VersionsKnown /\ GenerationPassed /\ ReplacesKnown
    /\ NoDuplicateUpload /\ EditsNeverOverwritten

(* Who carries what after one worker moved to r. *)
LEMMA CarriedAfter ==
    ASSUME TypeOK, NEW w \in Workers, NEW r \in WorkerStates, Become(w, r), NEW S,
           Carried \subseteq S,
           r.pc \in Delivering => r.c \in S,
           pending' # None => pending'.c \in S
    PROVE  Carried' \subseteq S
<1>1. worker'[w] = r /\ \A v \in Workers : v # w => worker'[v] = worker[v]
  BY BecomeFacts DEF TypeOK
<1>2. \A v \in Workers : worker'[v].pc \in Delivering => worker'[v].c \in S
  BY <1>1 DEF Carried
<1> QED
  BY <1>2 DEF Carried

(* Which commits are planned after one worker moved to r. *)
LEMMA PlannedAfter ==
    ASSUME TypeOK, NEW w \in Workers, NEW r \in WorkerStates, Become(w, r), NEW S,
           Planned \subseteq S, Carried' \subseteq S,
           r.pc \in {"stage", "reserve"} => r.c \in S
    PROVE  Planned' \subseteq S
<1>1. worker'[w] = r /\ \A v \in Workers : v # w => worker'[v] = worker[v]
  BY BecomeFacts DEF TypeOK
<1>2. \A v \in Workers : worker'[v].pc \in {"stage", "reserve"} => worker'[v].c \in S
  BY <1>1 DEF Planned
<1> QED
  BY <1>2 DEF Planned

(* Carried and planned commits are based on the history. *)
LEMMA PlannedBased == ASSUME IInv PROVE \A c \in Planned : Based(c, Log)
<1>1. \A w \in Workers : RecordOK(worker[w], Log, objects, pending)
  BY DEF IInv, WorkersOK
<1>2. \A w \in Workers : worker[w].pc \in {"stage", "reserve"} \cup Delivering => Based(worker[w].c, Log)
  BY <1>1 DEF RecordOK
<1>3. pending # None => Based(pending.c, Log)
  BY DEF IInv, PendingOK
<1> QED
  BY <1>2, <1>3 DEF Planned, Carried

(* A carried commit has its place: in the history, or next to it. *)
LEMMA CarriedPlace ==
    ASSUME IInv PROVE \A c \in Carried : Published(c, Log) \/ Reserved(c, pending)
<1>1. \A w \in Workers : RecordOK(worker[w], Log, objects, pending)
  BY DEF IInv, WorkersOK
<1>2. \A w \in Workers : worker[w].pc \in Delivering =>
        Published(worker[w].c, Log) \/ Reserved(worker[w].c, pending)
  BY <1>1 DEF RecordOK
<1> QED
  BY <1>2 DEF Carried, Reserved

(* A step that uploads nothing, edits nothing and plans nothing new. *)
Kept ==
    /\ Log \in Seq(Events) /\ Log' \in Seq(Events) /\ Prefix(Log, Log')
    /\ \A c \in Commits : Reserved(c, pending) => Reserved(c, pending') \/ Published(c, Log')

Quiet ==
    /\ UNCHANGED <<objects, edited>>
    /\ Carried' \subseteq Carried /\ Planned' \subseteq Planned

(* The store's versions stay known while the history keeps what it has. *)
LEMMA KnownKept ==
    ASSUME IInv, VersionsKnown, Kept, UNCHANGED <<objects, edited>> PROVE VersionsKnown'
<1>1. ASSUME NEW p \in Paths, NEW k \in DOMAIN objects[p], objects[p][k].by = "broker"
      PROVE  \/ objects[p][k].base < Len(Log')
             \/ pending' # None /\ objects[p][k] = Output(pending'.c)
  <2>0. Len(Log) \in Nat /\ Len(Log') \in Nat /\ Len(Log) <= Len(Log')
    BY DEF Kept, Prefix
  <2>1. objects[p][k] \in Contents
    BY DEF IInv, TypeOK
  <2>2. CASE objects[p][k].base < Len(Log)
    BY <2>0, <2>1, <2>2 DEF Contents
  <2>3. CASE pending # None /\ objects[p][k] = Output(pending.c)
    <3>1. pending.c \in Commits /\ Reserved(pending.c, pending)
      BY <2>3 DEF IInv, TypeOK, PendingCommits, Reserved
    <3>2. CASE Reserved(pending.c, pending')
      BY <2>3, <3>2 DEF Reserved
    <3>3. CASE Published(pending.c, Log')
      BY <2>3, <3>3 DEF Published, Output
    <3> QED
      BY <3>1, <3>2, <3>3 DEF Kept
  <2> QED
    BY <1>1, <2>2, <2>3 DEF VersionsKnown
<1> QED
  BY <1>1 DEF VersionsKnown

(* A growing history forgets no accepted edit. *)
LEMMA EditsKept ==
    ASSUME IInv, EditsNeverOverwritten, Kept, UNCHANGED objects PROVE EditsNeverOverwritten'
<1>1. DOMAIN Log = 1..Len(Log) /\ DOMAIN Log' = 1..Len(Log') /\ Len(Log) \in Nat /\ Len(Log') \in Nat
  BY DEF Kept
<1>2. \A j \in DOMAIN Log : j \in DOMAIN Log' /\ Log'[j] = Log[j]
  BY <1>1 DEF Kept, Prefix
<1> QED
  BY <1>2 DEF EditsNeverOverwritten

(* A quiet step keeps what is known about contents. *)
LEMMA QuietContent == ASSUME IInv, ContentInv, Kept, Quiet PROVE ContentInv'
<1>1. VersionsKnown' /\ EditsNeverOverwritten'
  BY KnownKept, EditsKept DEF ContentInv, Quiet
<1>2. GenerationPassed' /\ ReplacesKnown' /\ NoDuplicateUpload'
  BY DEF ContentInv, Quiet, GenerationPassed, ReplacesKnown, NoDuplicateUpload
<1> QED
  BY <1>1, <1>2 DEF ContentInv

(* A step that moves one worker, within what is carried and planned. *)
LEMMA LocalQuiet ==
    ASSUME IInv, NEW w \in Workers, NEW r \in WorkerStates, Become(w, r),
           UNCHANGED <<active, pending, objects, edited>>,
           r.pc \in Delivering => r.c \in Carried,
           r.pc \in {"stage", "reserve"} => r.c \in Planned
    PROVE  Kept /\ Quiet
<1>1. TypeOK /\ (pending' # None => pending'.c \in Carried)
  BY DEF IInv, Carried
<1>2. Carried' \subseteq Carried
  BY <1>1, CarriedAfter
<1>3. Carried' \subseteq Planned
  BY <1>2 DEF Planned
<1>4. Planned' \subseteq Planned
  BY <1>1, <1>3, PlannedAfter
<1>5. Log' = Log /\ Log \in Seq(Events)
  BY LogType DEF IInv, Log
<1>6. Kept
  BY <1>5, PrefixRefl DEF Kept
<1> QED
  BY <1>2, <1>4, <1>6 DEF Quiet

(* Error returns and crashes. *)
LEMMA AbortQuiet == ASSUME IInv, NEW w \in Workers, Abort(w) \/ Crash(w) PROVE Kept /\ Quiet
<1>1. Idle \in WorkerStates /\ Idle.pc = "idle"
  BY IdleType DEF Idle
<1> QED
  BY <1>1, LocalQuiet DEF Abort, Crash, Return, Delivering

(* Taking an event: a recovery carries the pending commit. *)
LEMMA ReceiveQuiet ==
    ASSUME IInv, NEW w \in Workers, NEW e \in Events, Receive(w, e) PROVE Kept /\ Quiet
<1>1. CASE pending = None \/ e = Registration
  <2> DEFINE r == [Idle EXCEPT !.pc = "read", !.ev = e]
  <2>1. r \in WorkerStates /\ r.pc = "read" /\ Become(w, r)
    BY <1>1, IdleType DEF Idle, WorkerStates, Receive
  <2> HIDE DEF r
  <2> QED
    BY <2>1, LocalQuiet DEF Receive, Delivering
<1>2. CASE pending # None /\ e # Registration
  <2> DEFINE n == IF active.payload = pending.c THEN Len(ObjWrites[pending.c.ev]) + 1 ELSE 1
             r == [Idle EXCEPT !.pc = "object", !.ev = e, !.rec = TRUE, !.c = pending.c,
                               !.delivered = pending.delivered, !.i = n]
  <2>1. pending.c \in Commits /\ pending.delivered \in Deliveries
    BY <1>2 DEF IInv, TypeOK, PendingCommits
  <2>2. n \in Nat
    BY <2>1, OutboxAssumption DEF Commits
  <2> HIDE DEF n
  <2>3. r \in WorkerStates /\ r.pc = "object" /\ r.c = pending.c
    BY <2>1, <2>2, IdleType DEF Idle, WorkerStates
  <2>4. Become(w, r)
    BY <1>2 DEF Receive, n
  <2>5. pending.c \in Carried
    BY <1>2 DEF Carried
  <2> HIDE DEF r
  <2> QED
    BY <2>3, <2>4, <2>5, LocalQuiet DEF Receive
<1> QED
  BY <1>1, <1>2

(* Reading the state carries nothing yet. *)
LEMMA ReadStateQuiet == ASSUME IInv, NEW w \in Workers, ReadState(w) PROVE Kept /\ Quiet
<1> DEFINE r == [worker[w] EXCEPT !.pc = "plan", !.base = active]
<1>1. r \in WorkerStates /\ r.pc = "plan"
  BY DEF IInv, TypeOK, WorkerStates
<1>2. CASE Become(w, r) /\ UNCHANGED <<active, pending, objects, payloads, edited, faults>>
  <2> HIDE DEF r
  <2> QED
    BY <1>1, <1>2, LocalQuiet DEF Delivering
<1> QED
  BY <1>2, AbortQuiet DEF ReadState

(* Staging moves a planned commit on. *)
LEMMA StageQuiet == ASSUME IInv, NEW w \in Workers, Stage(w) PROVE Kept /\ Quiet
<1> DEFINE r == [worker[w] EXCEPT !.pc = "reserve"]
<1>1. r \in WorkerStates /\ r.pc = "reserve" /\ r.c = worker[w].c
  BY DEF IInv, TypeOK, WorkerStates
<1>2. worker[w].c \in Planned
  BY DEF Stage, Planned
<1>3. CASE Become(w, r) /\ UNCHANGED <<active, pending, objects, edited, faults>>
  <2> HIDE DEF r
  <2> QED
    BY <1>1, <1>2, <1>3, LocalQuiet DEF Delivering
<1> QED
  BY <1>3, AbortQuiet DEF Stage

(* Cleaning up and returning change no contents. *)
LEMMA CleanupQuiet ==
    ASSUME IInv, NEW w \in Workers, Cleanup(w) \/ Delivered(w) PROVE Kept /\ Quiet
<1>1. worker[w] \in WorkerStates /\ worker[w].pc = "cleanup" /\ worker[w].c \in Carried
  BY DEF IInv, TypeOK, Cleanup, Delivered, Carried, Delivering
<1>2. CASE Cleanup(w)
  <2> DEFINE r == [worker[w] EXCEPT !.i = worker[w].i + 1]
  <2>1. r \in WorkerStates /\ r.pc = "cleanup" /\ r.c = worker[w].c /\ Become(w, r)
    BY <1>1, <1>2 DEF WorkerStates, Cleanup
  <2> HIDE DEF r
  <2> QED
    BY <1>1, <1>2, <2>1, LocalQuiet DEF Cleanup
<1>3. CASE Delivered(w)
  <2> DEFINE r == IF worker[w].rec THEN [Idle EXCEPT !.pc = "read", !.ev = worker[w].ev] ELSE Idle
  <2>1. r \in WorkerStates /\ r.pc \in {"read", "idle"}
    BY <1>1, IdleType DEF WorkerStates, Idle
  <2>2. Become(w, r)
    BY <1>3 DEF Delivered
  <2> HIDE DEF r
  <2> QED
    BY <1>3, <2>1, <2>2, LocalQuiet DEF Delivered, Delivering
<1> QED
  BY <1>2, <1>3

(* A step that moves one worker and the record, for the same commit. *)
LEMMA RecordQuiet ==
    ASSUME IInv, IInv', NEW w \in Workers, NEW r \in WorkerStates, Become(w, r),
           UNCHANGED <<objects, edited>>,
           r.c \in Carried, r.pc \in Delivering,
           pending' # None => pending'.c \in Carried,
           Prefix(Log, Log'),
           \A c \in Commits : Reserved(c, pending) => Reserved(c, pending') \/ Published(c, Log')
    PROVE  Kept /\ Quiet
<1>1. TypeOK /\ TypeOK' /\ Log \in Seq(Events) /\ Log' \in Seq(Events)
  <2>1. TypeOK /\ TypeOK'
    BY DEF IInv
  <2>2. Log \in Seq(Events)
    BY <2>1, LogType
  <2>3. Log' \in Seq(Events)
    BY <2>1, StateLogType DEF Log, TypeOK, ActiveStates
  <2> QED
    BY <2>1, <2>2, <2>3
<1>2. Carried' \subseteq Carried
  BY <1>1, CarriedAfter
<1>3. Carried' \subseteq Planned
  BY <1>2 DEF Planned
<1>4. Planned' \subseteq Planned
  BY <1>1, <1>3, PlannedAfter DEF Delivering
<1> QED
  BY <1>1, <1>2, <1>4 DEF Kept, Quiet

(* The checkpoint replaces deliveries, never the commit. *)
LEMMA SavePendingQuiet == ASSUME IInv, NEW w \in Workers, SavePending(w) PROVE Kept /\ Quiet
<1> DEFINE label == IF worker[w].pc = "saveObject" THEN "object" ELSE "release"
           n == worker[w].i + 1
           r == [worker[w] EXCEPT !.pc = label, !.i = n]
<1>0. IInv'
  BY SavePendingInv
<1>1. worker[w] \in WorkerStates /\ worker[w].pc \in {"saveObject", "saveRelease"}
  BY DEF IInv, TypeOK, SavePending
<1>2. worker[w].c \in Carried
  BY <1>1 DEF Carried, Delivering
<1>3. label \in {"object", "release"} /\ n \in Nat
  BY <1>1 DEF WorkerStates
<1> HIDE DEF label, n
<1>4. r \in WorkerStates /\ r.pc = label /\ r.c = worker[w].c
  BY <1>1, <1>3 DEF WorkerStates
<1>7. r.pc \in Delivering
  BY <1>3, <1>4 DEF Delivering
<1>5. CASE HoldsPending(w)
  <2>1. Become(w, r) /\ UNCHANGED <<active, objects, edited>>
        /\ pending' = [pending EXCEPT !.delivered = worker[w].delivered]
    BY <1>5 DEF SavePending, label, n
  <2> HIDE DEF r
  <2>2. pending # None /\ pending \in PendingCommits /\ pending.c = worker[w].c
    BY <1>5 DEF HoldsPending, IInv, TypeOK
  <2>3. pending'.c = pending.c /\ pending' \in PendingCommits
    BY <1>1, <2>1, <2>2 DEF PendingCommits, WorkerStates
  <2>4. pending' # None
    BY <2>3, OutboxAssumption
  <2>5. Log' = Log /\ Prefix(Log, Log')
    BY <2>1, LogType, PrefixRefl DEF Log, IInv
  <2>6. \A c \in Commits : Reserved(c, pending) => Reserved(c, pending')
    BY <2>3, <2>4 DEF Reserved
  <2> QED
    BY <1>0, <1>2, <1>4, <1>7, <2>1, <2>2, <2>3, <2>5, <2>6, RecordQuiet
<1>6. CASE Abort(w)
  BY <1>6, AbortQuiet
<1> QED
  BY <1>5, <1>6 DEF SavePending

(* The promotion publishes the reserved commit. *)
LEMMA FinalizeQuiet == ASSUME IInv, NEW w \in Workers, Finalize(w) PROVE Kept /\ Quiet
<1> DEFINE c == worker[w].c
           label == IF RelWrites[c.ev] = <<>> THEN "cleanup" ELSE "release"
           r == [worker[w] EXCEPT !.pc = label, !.i = 1]
<1>0. IInv'
  BY FinalizeInv
<1>1. worker[w] \in WorkerStates /\ worker[w].pc = "object" /\ Log \in Seq(Events)
  BY LogType DEF IInv, TypeOK, Finalize
<1>2. c \in Carried /\ Based(c, Log)
  BY <1>1, PlannedBased DEF Carried, Delivering, Planned
<1>3. label \in {"cleanup", "release"}
  OBVIOUS
<1> HIDE DEF label
<1>4. r \in WorkerStates /\ r.pc \in Delivering /\ r.c = c
  BY <1>1, <1>3 DEF WorkerStates, Delivering
<1>5. CASE HoldsPending(w) /\ Recorded(w, ObjWrites[c.ev])
  <2>1. Become(w, r) /\ UNCHANGED <<objects, edited>>
    BY <1>5 DEF Finalize, label
  <2>2. pending # None /\ pending.c = c
    BY <1>5 DEF HoldsPending
  <2> HIDE DEF r
  <2>3. CASE active.payload = c
    <3>1. UNCHANGED <<active, pending>>
      BY <1>5, <2>3 DEF Finalize
    <3>2. Log' = Log /\ Prefix(Log, Log')
      BY <1>1, <3>1, PrefixRefl DEF Log
    <3> QED
      BY <1>0, <1>2, <1>4, <2>1, <2>2, <3>1, <3>2, RecordQuiet
  <2>4. CASE active.payload # c
    <3>1. active' = [gen |-> active.gen + 1, payload |-> c]
          /\ pending' = IF RelWrites[c.ev] = <<>> THEN None ELSE [c |-> c, delivered |-> worker[w].delivered]
      BY <1>5, <2>4 DEF Finalize
    <3>2. c.log = Log /\ c \in Commits /\ IsInjective(Log)
      BY <1>2, <2>2, <2>4 DEF IInv, PendingOK, ActiveOK, Based
    <3>3. Log' = StateLog(c)
      BY <3>1 DEF Log
    <3>4. Prefix(Log, Log') /\ Published(c, Log')
      BY <1>1, <1>2, <3>2, <3>3, PublishLog
    <3>5. pending' # None => pending'.c \in Carried
      BY <1>2, <3>1
    <3>6. \A d \in Commits : Reserved(d, pending) => Published(d, Log')
      BY <2>2, <3>4 DEF Reserved
    <3> QED
      BY <1>0, <1>2, <1>4, <2>1, <3>4, <3>5, <3>6, RecordQuiet
  <2> QED
    BY <2>3, <2>4
<1>6. CASE Abort(w)
  BY <1>6, AbortQuiet
<1> QED
  BY <1>5, <1>6 DEF Finalize

(* The reservation ends only for a published commit. *)
LEMMA CompleteQuiet == ASSUME IInv, NEW w \in Workers, Complete(w) PROVE Kept /\ Quiet
<1> DEFINE c == worker[w].c
           r == [worker[w] EXCEPT !.pc = "cleanup", !.i = 1]
<1>0. IInv'
  BY CompleteInv
<1>1. worker[w] \in WorkerStates /\ worker[w].pc = "release" /\ Log \in Seq(Events)
      /\ RecordOK(worker[w], Log, objects, pending)
  BY LogType DEF IInv, TypeOK, Complete, WorkersOK
<1>2. c \in Carried /\ Published(c, Log)
  BY <1>1 DEF Carried, Delivering, Releasing, RecordOK
<1>3. r \in WorkerStates /\ r.pc \in Delivering /\ r.c = c
  BY <1>1 DEF WorkerStates, Delivering
<1>4. CASE HoldsPending(w) /\ active.payload = c /\ Recorded(w, RelWrites[c.ev])
  <2>1. Become(w, r) /\ UNCHANGED <<active, objects, edited>> /\ pending' = None
    BY <1>4 DEF Complete
  <2> HIDE DEF r
  <2>2. Log' = Log /\ Prefix(Log, Log')
    BY <1>1, <2>1, PrefixRefl DEF Log
  <2>3. \A d \in Commits : Reserved(d, pending) => Published(d, Log')
    BY <1>2, <1>4, <2>2 DEF Reserved, HoldsPending
  <2> QED
    BY <1>0, <1>2, <1>3, <2>1, <2>2, <2>3, RecordQuiet
<1>5. CASE Abort(w)
  BY <1>5, AbortQuiet
<1> QED
  BY <1>4, <1>5 DEF Complete

(* A nonempty set of places in a sequence has a last one. *)
LEMMA LastPlace ==
    ASSUME NEW n \in Nat, NEW S \in SUBSET (1..n), S # {}
    PROVE  \E i \in S : \A j \in S : j <= i
<1> DEFINE R == OpToRel(<, Nat)
           T == {n - i : i \in S}
<1>1. T \subseteq Nat /\ T # {}
  <2>1. \A i \in S : n - i \in Nat
    OBVIOUS
  <2>2. PICK i \in S : TRUE
    OBVIOUS
  <2>3. n - i \in T
    BY <2>2
  <2> QED
    BY <2>1, <2>3
<1>2. IsWellFoundedOn(R, Nat)
  BY NatLessThanWellFounded
<1>3. \A x, y \in Nat : <<y, x>> \in R <=> y < x
  BY DEF OpToRel
<1> HIDE DEF R, T
<1>4. PICK x \in T : \A y \in T : ~ (<<y, x>> \in R)
  BY <1>1, <1>2, WFMin
<1>5. ASSUME NEW y \in T PROVE x <= y
  <2>1. x \in Nat /\ y \in Nat
    BY <1>1
  <2>2. ~ (y < x)
    BY <1>3, <1>4, <2>1
  <2> QED
    BY <2>1, <2>2
<1>6. PICK i \in S : x = n - i
  BY DEF T
<1>7. ASSUME NEW j \in S PROVE j <= i
  BY <1>5, <1>6 DEF T
<1> QED
  BY <1>7

(* generated_views knows only edits its history has accepted. *)
LEMMA KnownEdit ==
    ASSUME NEW log \in Seq(Events), NEW p, GeneratedView(log, p) # None,
           GeneratedView(log, p).by = "device"
    PROVE  GeneratedView(log, p).ev \in Range(log)
<1> DEFINE touching == {i \in DOMAIN log : p \in Range(ObjWrites[log[i]]) \/ EditOf[log[i]] = p}
           last == CHOOSE i \in touching : \A j \in touching : j <= i
<1>1. touching \in SUBSET (1..Len(log)) /\ Len(log) \in Nat
  OBVIOUS
<1>2. GeneratedView(log, p) =
        IF touching = {} THEN None
        ELSE IF EditOf[log[last]] = p THEN Device(log[last])
        ELSE [by |-> "broker", ev |-> log[last], base |-> last - 1]
  BY DEF GeneratedView
<1> HIDE DEF touching
<1>3. touching # {}
  BY <1>2
<1>4. last \in touching
  BY <1>1, <1>3, LastPlace
<1> HIDE DEF last
<1>5. GeneratedView(log, p) = Device(log[last])
  BY <1>2, <1>3
<1>6. last \in DOMAIN log
  BY <1>4 DEF touching
<1> QED
  BY <1>5, <1>6 DEF Device, Range

(* A commit's writes are its ordinary outputs and its release signals. *)
LEMMA RangeConcat ==
    ASSUME NEW s \in Seq(Paths), NEW t \in Seq(Paths)
    PROVE  Range(s \o t) = Range(s) \cup Range(t)
<1> DEFINE u == s \o t
<1>1. Len(s) \in Nat /\ Len(t) \in Nat /\ DOMAIN s = 1..Len(s) /\ DOMAIN t = 1..Len(t)
  OBVIOUS
<1>2. DOMAIN u = 1..(Len(s) + Len(t))
  BY <1>1
<1>3. \A k \in 1..(Len(s) + Len(t)) : u[k] = IF k <= Len(s) THEN s[k] ELSE t[k - Len(s)]
  BY <1>1
<1>4. \A k \in 1..Len(s) : k \in 1..(Len(s) + Len(t)) /\ u[k] = s[k]
  BY <1>1, <1>3
<1>5. ASSUME NEW k \in 1..Len(t) PROVE \E j \in 1..(Len(s) + Len(t)) : u[j] = t[k]
  <2>1. Len(s) + k \in 1..(Len(s) + Len(t)) /\ ~(Len(s) + k <= Len(s)) /\ (Len(s) + k) - Len(s) = k
    BY <1>1
  <2> QED
    BY <1>3, <2>1
<1>6. \A k \in 1..(Len(s) + Len(t)) :
        \/ k \in 1..Len(s) /\ u[k] = s[k]
        \/ k - Len(s) \in 1..Len(t) /\ u[k] = t[k - Len(s)]
  BY <1>1, <1>3
<1> HIDE DEF u
<1>7. Range(u) \subseteq Range(s) \cup Range(t)
  BY <1>1, <1>2, <1>6 DEF Range
<1>8. Range(s) \cup Range(t) \subseteq Range(u)
  BY <1>1, <1>2, <1>4, <1>5 DEF Range
<1> QED
  BY <1>7, <1>8 DEF u

(* Planning reads the version its commit will replace. *)
LEMMA PlanContent ==
    ASSUME IInv, ContentInv, NEW w \in Workers, Plan(w) PROVE ContentInv'
<1> DEFINE e == worker[w].ev
           log == StateLog(worker[w].base.payload)
           pre == [p \in Paths |-> IF p \in Range(Writes(e)) THEN Precondition(p) ELSE 0]
           c == [ev |-> e, gen |-> worker[w].base.gen, log |-> log, pre |-> pre]
           r == [worker[w] EXCEPT !.pc = "stage", !.c = c]
<1>1. /\ worker[w].pc = "plan" /\ worker[w] \in WorkerStates
      /\ RecordOK(worker[w], Log, objects, pending) /\ objects \in [Paths -> Seq(Contents)]
  BY DEF Plan, IInv, TypeOK, WorkersOK
<1>2. e \in Events /\ worker[w].base \in ActiveStates
  BY <1>1 DEF RecordOK
<1>3. log \in Seq(Events) /\ worker[w].base.gen \in Nat
  BY <1>2, StateLogType DEF ActiveStates
<1>4. pre \in [Paths -> Nat]
  BY <1>1 DEF Precondition, Generation
<1>5. CASE /\ \A p \in Range(ObjWrites[e]) : DestinationSafe(log, p)
           /\ Become(w, r)
           /\ UNCHANGED <<active, pending, objects, payloads, edited, faults>>
  <2>1. ASSUME NEW p \in Paths
        PROVE  /\ pre[p] <= Len(objects[p])
               /\ (pre[p] > 0 /\ objects[p][pre[p]].by = "device") =>
                    objects[p][pre[p]].ev \in Range(log)
    <3>1. pre[p] = IF p \in Range(Writes(e)) THEN Precondition(p) ELSE 0
      OBVIOUS
    <3>2. Len(objects[p]) \in Nat
      BY <1>1
    <3>3. CASE pre[p] = 0
      BY <3>2, <3>3
    <3>4. CASE pre[p] # 0
      <4>1. p \in Range(Writes(e)) /\ p \in Tracked /\ pre[p] = Len(objects[p])
        BY <3>1, <3>4 DEF Precondition, Generation
      <4>2. p \in Range(ObjWrites[e])
        <5>1. ObjWrites[e] \in Seq(Paths) /\ RelWrites[e] \in Seq(Paths)
              /\ Range(RelWrites[e]) \cap Tracked = {}
          BY <1>2, OutboxAssumption
        <5>2. Range(Writes(e)) \subseteq Range(ObjWrites[e]) \cup Range(RelWrites[e])
          BY <5>1, RangeConcat DEF Writes
        <5> QED
          BY <4>1, <5>1, <5>2
      <4>3. DestinationSafe(log, p)
        BY <1>5, <4>2
      <4>4. GeneratedView(log, p) # None /\ objects[p][Len(objects[p])] = GeneratedView(log, p)
        BY <3>4, <4>1, <4>3 DEF DestinationSafe, Holds
      <4>5. objects[p][pre[p]].by = "device" => objects[p][pre[p]].ev \in Range(log)
        BY <1>3, <4>1, <4>4, KnownEdit
      <4> QED
        BY <3>2, <4>1, <4>5
    <3> QED
      BY <3>3, <3>4
  <2> HIDE DEF pre, log, e
  <2>2. c \in Commits /\ c.log = log /\ c.pre = pre
    BY <1>2, <1>3, <1>4 DEF Commits, e
  <2> HIDE DEF c
  <2>3. r \in WorkerStates /\ r.pc = "stage" /\ r.c = c
    BY <1>1, <2>2 DEF WorkerStates
  <2> HIDE DEF r
  <2>4. TypeOK /\ (pending' # None => pending'.c \in Carried)
    BY <1>5 DEF IInv, Carried
  <2>5. Carried' \subseteq Carried
    BY <1>5, <2>3, <2>4, CarriedAfter DEF Delivering
  <2>6. Planned' \subseteq Planned \cup {c}
    <3>1. Carried' \subseteq Planned \cup {c}
      BY <2>5 DEF Planned
    <3> QED
      BY <1>5, <2>3, <2>4, <3>1, PlannedAfter
  <2>7. ReplacesKnown'
    BY <1>5, <2>1, <2>2, <2>6 DEF ReplacesKnown, ContentInv
  <2>8. Log' = Log /\ Log \in Seq(Events)
    BY <1>5, LogType DEF IInv, Log
  <2>9. Kept
    BY <1>5, <2>8, PrefixRefl DEF Kept
  <2>10. VersionsKnown' /\ EditsNeverOverwritten'
    BY <1>5, <2>9, KnownKept, EditsKept DEF ContentInv
  <2> QED
    BY <1>5, <2>5, <2>7, <2>10 DEF ContentInv, GenerationPassed, NoDuplicateUpload
<1>6. CASE Abort(w)
  BY <1>6, AbortQuiet, QuietContent
<1> QED
  BY <1>5, <1>6 DEF Plan

(* The reservation is won: nothing of the commit has been uploaded yet. *)
LEMMA ReserveContent ==
    ASSUME IInv, ContentInv, NEW w \in Workers, Reserve(w) PROVE ContentInv'
<1> DEFINE c == worker[w].c
           r(d) == [worker[w] EXCEPT !.pc = "object", !.delivered = d, !.i = 1]
<1>1. worker[w].pc = "reserve" /\ worker[w] \in WorkerStates
      /\ RecordOK(worker[w], Log, objects, pending) /\ Log \in Seq(Events)
  BY LogType DEF Reserve, IInv, TypeOK, WorkersOK
<1>2. Based(c, Log) /\ c \in Commits /\ c \in Planned
  BY <1>1 DEF RecordOK, Based, Planned
<1>3. ASSUME NEW d \in Deliveries
      PROVE  r(d) \in WorkerStates /\ r(d).pc = "object" /\ r(d).c = c
  BY <1>1 DEF WorkerStates
<1> HIDE DEF r
<1>4. CASE /\ pending # None /\ pending.c = c
           /\ Become(w, r(pending.delivered))
           /\ UNCHANGED <<active, pending, objects, payloads, edited, faults>>
  <2>1. pending.delivered \in Deliveries /\ c \in Carried
    BY <1>4 DEF IInv, TypeOK, PendingCommits, Carried
  <2>2. r(pending.delivered) \in WorkerStates /\ r(pending.delivered).pc = "object"
        /\ r(pending.delivered).c = c
    BY <1>3, <2>1
  <2> QED
    BY <1>4, <2>1, <2>2, LocalQuiet, QuietContent
<1>5. CASE /\ pending = None /\ active.gen = c.gen
           /\ pending' = [c |-> c, delivered |-> Nowhere]
           /\ Become(w, r(Nowhere))
           /\ UNCHANGED <<active, objects, payloads, edited, faults>>
  <2>1. r(Nowhere) \in WorkerStates /\ r(Nowhere).pc = "object" /\ r(Nowhere).c = c
    BY <1>3 DEF Nowhere, Deliveries
  <2>2. TypeOK /\ pending'.c = c
    BY <1>5 DEF IInv
  <2>3. Carried' \subseteq Carried \cup {c}
    BY <1>5, <2>1, <2>2, CarriedAfter
  <2>4. Planned' \subseteq Planned
    <3>1. Carried' \subseteq Planned
      BY <1>2, <2>3 DEF Planned
    <3> QED
      BY <1>5, <2>1, <2>2, <3>1, PlannedAfter
  <2>5. Len(c.log) = Len(Log)
    BY <1>2, <1>5 DEF Based, IInv, ActiveOK
  <2>6. ASSUME NEW p \in Paths PROVE Output(c) \notin Range(objects[p])
    <3> SUFFICES ASSUME NEW k \in DOMAIN objects[p], objects[p][k] = Output(c) PROVE FALSE
      BY DEF Range
    <3>1. objects[p][k].base < Len(Log)
      BY <1>5 DEF ContentInv, VersionsKnown, Output
    <3> QED
      BY <1>1, <2>5, <3>1 DEF Output
  <2>7. GenerationPassed'
    BY <1>5, <2>3, <2>6 DEF GenerationPassed, ContentInv
  <2>8. Log' = Log /\ Kept
    BY <1>1, <1>5, PrefixRefl DEF Kept, Log, Reserved
  <2>9. VersionsKnown' /\ EditsNeverOverwritten'
    BY <1>5, <2>8, KnownKept, EditsKept DEF ContentInv
  <2> QED
    BY <1>5, <2>4, <2>7, <2>9 DEF ContentInv, ReplacesKnown, NoDuplicateUpload
<1>6. CASE Abort(w)
  BY <1>6, AbortQuiet, QuietContent
<1> QED
  BY <1>4, <1>5, <1>6 DEF Reserve, r

(* What a new version at p leaves alone. *)
LEMMA AddFacts ==
    ASSUME NEW p \in Paths, NEW v \in Contents, NEW objs \in [Paths -> Seq(Contents)],
           NEW objs2, objs2 = AddVersion(objs, p, v)
    PROVE  /\ Len(objs[p]) \in Nat /\ Len(objs2[p]) = Len(objs[p]) + 1
           /\ DOMAIN objs[p] = 1..Len(objs[p]) /\ DOMAIN objs2[p] = 1..(Len(objs[p]) + 1)
           /\ objs2[p][Len(objs[p]) + 1] = v
           /\ \A k \in 1..Len(objs[p]) : objs2[p][k] = objs[p][k]
           /\ \A q \in Paths : q # p => objs2[q] = objs[q]
<1>1. objs2[p] = Append(objs[p], v) /\ objs[p] \in Seq(Contents)
  BY DEF AddVersion
<1>2. \A q \in Paths : q # p => objs2[q] = objs[q]
  BY DEF AddVersion
<1> QED
  BY <1>1, <1>2

(* A new version that is known, new at its path, and that replaces no edit
   its own history has not accepted. *)
LEMMA GrowContent ==
    ASSUME IInv, ContentInv, NEW p \in Paths, NEW v \in Contents,
           objects' = AddVersion(objects, p, v), v \notin Range(objects[p]),
           Carried' \subseteq Carried, Planned' \subseteq Planned,
           UNCHANGED <<active, pending>>, edited \subseteq edited',
           v.by = "broker" =>
             \/ v.base < Len(Log)
             \/ pending # None /\ v = Output(pending.c),
           v.by = "device" => v.ev \in edited' /\ v = Device(v.ev),
           (/\ v.by = "broker" /\ Len(objects[p]) > 0
            /\ objects[p][Len(objects[p])].by = "device") =>
               \E j \in 1..v.base : j \in DOMAIN Log /\ Log[j] = objects[p][Len(objects[p])].ev
    PROVE  ContentInv'
<1> DEFINE n == Len(objects[p])
<1>1. /\ n \in Nat /\ Len(objects'[p]) = n + 1
      /\ DOMAIN objects[p] = 1..n /\ DOMAIN objects'[p] = 1..(n + 1)
      /\ objects'[p][n + 1] = v
      /\ \A k \in 1..n : objects'[p][k] = objects[p][k]
      /\ \A q \in Paths : q # p => objects'[q] = objects[q]
  BY AddFacts DEF IInv, TypeOK
<1>2. Log' = Log
  BY DEF Log
<1> HIDE DEF n
<1>3. \A k \in 1..(n + 1) : k \in 1..n \/ k = n + 1
  BY <1>1
<1>4. VersionsKnown'
  <2> SUFFICES ASSUME NEW q \in Paths, NEW k \in DOMAIN objects'[q]
               PROVE  /\ objects'[q][k].by = "broker" =>
                           \/ objects'[q][k].base < Len(Log)
                           \/ pending # None /\ objects'[q][k] = Output(pending.c)
                      /\ objects'[q][k].by = "device" =>
                           objects'[q][k].ev \in edited' /\ objects'[q][k] = Device(objects'[q][k].ev)
    BY <1>2 DEF VersionsKnown
  <2>1. CASE q = p /\ k = n + 1
    BY <1>1, <2>1
  <2>2. CASE k \in DOMAIN objects[q] /\ objects'[q][k] = objects[q][k]
    BY <2>2 DEF ContentInv, VersionsKnown
  <2> QED
    BY <1>1, <1>3, <2>1, <2>2
<1>5. \A c \in Carried : c.pre[p] <= n
  BY DEF ContentInv, ReplacesKnown, Planned, n
<1>6. GenerationPassed'
  <2> SUFFICES ASSUME NEW c \in Carried, NEW q \in Paths, Output(c) \in Range(objects'[q])
               PROVE  c.pre[q] < Len(objects'[q])
    BY DEF GenerationPassed
  <2>1. c.pre \in [Paths -> Nat]
    BY PlannedBased DEF Planned, Based, Commits
  <2>2. CASE q # p
    BY <1>1, <2>2 DEF ContentInv, GenerationPassed
  <2>3. CASE q = p
    BY <1>1, <1>5, <2>1, <2>3
  <2> QED
    BY <2>2, <2>3
<1>7. ReplacesKnown'
  <2> SUFFICES ASSUME NEW c \in Planned, NEW q \in Paths
               PROVE  /\ c.pre[q] <= Len(objects'[q])
                      /\ (c.pre[q] > 0 /\ objects'[q][c.pre[q]].by = "device") =>
                           objects'[q][c.pre[q]].ev \in Range(c.log)
    BY DEF ReplacesKnown
  <2>1. c.pre[q] \in Nat
    BY PlannedBased DEF Based, Commits
  <2>2. /\ c.pre[q] <= Len(objects[q])
        /\ (c.pre[q] > 0 /\ objects[q][c.pre[q]].by = "device") =>
              objects[q][c.pre[q]].ev \in Range(c.log)
    BY DEF ContentInv, ReplacesKnown
  <2>3. CASE q # p
    BY <1>1, <2>2, <2>3
  <2>4. CASE q = p
    <3>1. c.pre[p] <= n /\ c.pre[p] <= n + 1
      BY <1>1, <2>1, <2>2, <2>4 DEF n
    <3>2. c.pre[p] > 0 => objects'[p][c.pre[p]] = objects[p][c.pre[p]]
      BY <1>1, <2>1, <2>4, <3>1
    <3> QED
      BY <1>1, <2>2, <2>4, <3>1, <3>2
  <2> QED
    BY <2>3, <2>4
<1>8. NoDuplicateUpload'
  <2> SUFFICES ASSUME NEW q \in Paths, NEW a \in DOMAIN objects'[q], NEW b \in DOMAIN objects'[q],
                      objects'[q][a] = objects'[q][b]
               PROVE  a = b
    BY DEF NoDuplicateUpload, IsInjective
  <2>1. \A i, j \in DOMAIN objects[q] : objects[q][i] = objects[q][j] => i = j
    BY DEF ContentInv, NoDuplicateUpload, IsInjective
  <2>2. CASE q # p
    BY <1>1, <2>1, <2>2
  <2>3. CASE q = p
    <3>1. \A k \in 1..n : objects[p][k] # v
      BY <1>1 DEF Range
    <3> QED
      BY <1>1, <1>3, <2>1, <2>3, <3>1
  <2> QED
    BY <2>2, <2>3
<1>9. EditsNeverOverwritten'
  <2> SUFFICES ASSUME NEW q \in Paths, NEW k \in DOMAIN objects'[q], k + 1 \in DOMAIN objects'[q],
                      objects'[q][k].by = "device", objects'[q][k + 1].by = "broker"
               PROVE  \E j \in 1..objects'[q][k + 1].base : j \in DOMAIN Log /\ Log[j] = objects'[q][k].ev
    BY <1>2 DEF EditsNeverOverwritten
  <2>1. CASE q # p
    BY <1>1, <2>1 DEF ContentInv, EditsNeverOverwritten
  <2>2. CASE q = p /\ k + 1 \in 1..n
    <3>1. k \in 1..n
      BY <1>1, <2>2
    <3>2. objects'[q][k] = objects[p][k] /\ objects'[q][k + 1] = objects[p][k + 1]
      BY <1>1, <2>2, <3>1
    <3>3. k \in DOMAIN objects[p] /\ k + 1 \in DOMAIN objects[p]
      BY <1>1, <2>2, <3>1
    <3>4. objects[p][k].by = "device" /\ objects[p][k + 1].by = "broker"
      BY <3>2
    <3>5. \E j \in 1..objects[p][k + 1].base : j \in DOMAIN Log /\ Log[j] = objects[p][k].ev
      BY <3>3, <3>4 DEF ContentInv, EditsNeverOverwritten
    <3> QED
      BY <3>2, <3>5
  <2>3. CASE q = p /\ k = n
    <3>1. n \in 1..n /\ n > 0
      BY <1>1, <2>3
    <3>2. objects'[q][k] = objects[p][n] /\ objects'[q][k + 1] = v
      BY <1>1, <2>3, <3>1
    <3> QED
      BY <3>1, <3>2 DEF n
  <2> QED
    BY <1>1, <2>1, <2>2, <2>3
<1> QED
  BY <1>4, <1>6, <1>7, <1>8, <1>9 DEF ContentInv

(* An upload under its generation precondition, or none at all. *)
LEMMA DeliverWriteContent ==
    ASSUME IInv, ContentInv, NEW w \in Workers, NEW p \in Paths,
           NEW next \in {"saveObject", "saveRelease"},
           worker[w].pc \in {"object", "release"}, DeliverWrite(w, p, next)
    PROVE  ContentInv'
<1> DEFINE c == worker[w].c
           r(n) == Recording(w, p, n, next)
           n == Generation(p)
<1>1. worker[w] \in WorkerStates /\ TypeOK /\ objects[p] \in Seq(Contents) /\ Log \in Seq(Events)
  BY LogType DEF IInv, TypeOK
<1>2. c \in Carried /\ c \in Planned /\ Based(c, Log) /\ c \in Commits
  <2>1. c \in Carried /\ c \in Planned
    BY DEF Carried, Planned, Delivering
  <2> QED
    BY <2>1, PlannedBased DEF Based
<1>3. n \in Nat /\ n + 1 \in Nat /\ n = Len(objects[p])
  BY <1>1 DEF Generation
<1> HIDE DEF n
<1>4. ASSUME NEW m \in Nat
      PROVE  r(m) \in WorkerStates /\ r(m).pc \in Delivering /\ r(m).c = c
  <2>1. r(m) \in WorkerStates
    BY <1>1, RecordingType
  <2>2. r(m).pc = next /\ r(m).c = c
    BY <1>1 DEF Recording, WorkerStates
  <2> QED
    BY <2>1, <2>2 DEF Delivering
<1> HIDE DEF r
<1>5. CASE Become(w, r(n)) /\ UNCHANGED <<active, pending, objects, payloads, edited, faults>>
  <2>1. r(n) \in WorkerStates /\ r(n).pc \in Delivering /\ r(n).c \in Carried
    BY <1>2, <1>3, <1>4
  <2>2. r(n).pc \in {"stage", "reserve"} => r(n).c \in Planned
    BY <2>1 DEF Delivering
  <2> QED
    BY <1>5, <2>1, <2>2, LocalQuiet, QuietContent
<1>6. CASE /\ n = c.pre[p]
           /\ objects' = [objects EXCEPT ![p] = Append(@, Output(c))]
           /\ Become(w, r(n + 1))
           /\ UNCHANGED <<active, pending, payloads, edited, faults>>
  <2>1. r(n + 1) \in WorkerStates /\ r(n + 1).pc \in Delivering /\ r(n + 1).c \in Carried
    BY <1>2, <1>3, <1>4
  <2>2. pending' # None => pending'.c \in Carried
    BY <1>6 DEF Carried
  <2>3. Carried' \subseteq Carried
    BY <1>1, <1>6, <2>1, <2>2, CarriedAfter
  <2>4. Planned' \subseteq Planned
    <3>1. Carried' \subseteq Planned
      BY <2>3 DEF Planned
    <3> QED
      BY <1>1, <1>6, <2>1, <3>1, PlannedAfter DEF Delivering
  <2>5. Output(c) \in Contents /\ Output(c).by = "broker" /\ Output(c).base = Len(c.log)
    BY <1>2 DEF Output, Contents, Commits
  <2>6. Output(c) \notin Range(objects[p])
    <3>1. Output(c) \in Range(objects[p]) => c.pre[p] < Len(objects[p])
      BY <1>2 DEF ContentInv, GenerationPassed
    <3>2. ~(c.pre[p] < Len(objects[p]))
      BY <1>3, <1>6
    <3> QED
      BY <3>1, <3>2
  <2>7. objects' = AddVersion(objects, p, Output(c))
    BY <1>6 DEF AddVersion
  <2>8. Output(c).base < Len(Log) \/ (pending # None /\ Output(c) = Output(pending.c))
    <3>1. CASE Published(c, Log)
      BY <2>5, <3>1 DEF Published
    <3>2. CASE Reserved(c, pending)
      BY <3>2 DEF Reserved
    <3> QED
      BY <1>2, <3>1, <3>2, CarriedPlace
  <2>9. ASSUME n > 0, objects[p][n].by = "device"
        PROVE  \E j \in 1..Output(c).base : j \in DOMAIN Log /\ Log[j] = objects[p][n].ev
    <3>1. objects[p][n].ev \in Range(c.log)
      BY <1>2, <1>6, <2>9 DEF ContentInv, ReplacesKnown
    <3>2. PICK j \in DOMAIN c.log : c.log[j] = objects[p][n].ev
      BY <3>1 DEF Range
    <3>3. c.log \in Seq(Events) /\ DOMAIN c.log = 1..Len(c.log) /\ DOMAIN Log = 1..Len(Log)
      BY <1>1, <1>2 DEF Commits
    <3>4. j \in 1..Len(c.log) /\ j \in DOMAIN Log /\ Log[j] = c.log[j]
      BY <1>1, <1>2, <3>3 DEF Based, Prefix
    <3> QED
      BY <2>5, <3>2, <3>4
  <2> DEFINE v == Output(c)
  <2> HIDE DEF v
  <2>10. /\ v \in Contents /\ v.by = "broker" /\ v \notin Range(objects[p])
         /\ objects' = AddVersion(objects, p, v)
         /\ v.base < Len(Log) \/ (pending # None /\ v = Output(pending.c))
         /\ (Len(objects[p]) > 0 /\ objects[p][Len(objects[p])].by = "device") =>
              \E j \in 1..v.base : j \in DOMAIN Log /\ Log[j] = objects[p][Len(objects[p])].ev
    BY <1>3, <2>5, <2>6, <2>7, <2>8, <2>9 DEF v
  <2>11. UNCHANGED <<active, pending>> /\ edited \subseteq edited' /\ v.by # "device"
    BY <1>6, <2>10
  <2> QED
    BY <2>3, <2>4, <2>10, <2>11, GrowContent
<1>7. CASE Abort(w)
  BY <1>7, AbortQuiet, QuietContent
<1> QED
  BY <1>5, <1>6, <1>7 DEF DeliverWrite, r, n

(* deliver(), phase by phase. *)
LEMMA DeliverContent ==
    ASSUME IInv, ContentInv, NEW w \in Workers, DeliverObject(w) \/ DeliverRelease(w)
    PROVE  ContentInv'
<1>1. worker[w] \in WorkerStates /\ RecordOK(worker[w], Log, objects, pending)
      /\ worker[w].pc \in {"object", "release"}
  BY DEF IInv, TypeOK, WorkersOK, DeliverObject, DeliverRelease
<1>2. worker[w].c \in Commits /\ worker[w].i >= 1 /\ worker[w].i \in Nat
  BY <1>1 DEF RecordOK, Delivering, Based, WorkerStates
<1>3. ObjWrites[worker[w].c.ev] \in Seq(Paths) /\ RelWrites[worker[w].c.ev] \in Seq(Paths)
  BY <1>2, OutboxAssumption DEF Commits
<1>4. CASE DeliverObject(w)
  <2>1. ObjWrites[worker[w].c.ev][worker[w].i] \in Paths
    BY <1>2, <1>3, <1>4 DEF DeliverObject
  <2> QED
    BY <1>1, <1>4, <2>1, DeliverWriteContent DEF DeliverObject
<1>5. CASE DeliverRelease(w)
  <2>1. RelWrites[worker[w].c.ev][worker[w].i] \in Paths
    BY <1>2, <1>3, <1>5 DEF DeliverRelease
  <2> QED
    BY <1>1, <1>5, <2>1, DeliverWriteContent DEF DeliverRelease
<1> QED
  BY <1>4, <1>5

(* A device's edit is a new version, and no output. *)
LEMMA DeviceEditContent ==
    ASSUME IInv, ContentInv, NEW e \in Events, DeviceEdit(e) PROVE ContentInv'
<1> DEFINE p == EditOf[e]
           v == Device(e)
<1>1. p \in Paths
  BY OutboxAssumption DEF DeviceEdit
<1>2. v \in Contents /\ v.by = "device" /\ v.ev = e
  BY DEF Device, Contents
<1>3. objects' = AddVersion(objects, p, v) /\ UNCHANGED <<active, pending, worker>>
      /\ edited' = edited \cup {e} /\ e \notin edited
  BY DEF DeviceEdit, AddVersion
<1>4. v \notin Range(objects[p])
  <2> SUFFICES ASSUME NEW k \in DOMAIN objects[p], objects[p][k] = v PROVE FALSE
    BY DEF Range
  <2>1. objects[p][k].ev \in edited
    BY <1>1, <1>2 DEF ContentInv, VersionsKnown
  <2> QED
    BY <1>2, <1>3, <2>1
<1>5. Carried' = Carried /\ Planned' = Planned
  BY <1>3 DEF Carried, Planned
<1>6. v.ev \in edited' /\ v = Device(v.ev) /\ edited \subseteq edited'
  BY <1>2, <1>3
<1> HIDE DEF p, v
<1> QED
  BY <1>1, <1>2, <1>3, <1>4, <1>5, <1>6, GrowContent

(* Nothing is stored at the start. *)
LEMMA InitContent == ASSUME Init PROVE ContentInv
<1>1. \A p \in Paths : objects[p] = <<>> /\ DOMAIN objects[p] = {}
  BY DEF Init
<1>2. Carried = {} /\ Planned = {}
  BY DEF Init, Carried, Planned, Idle, Delivering
<1> QED
  BY <1>1, <1>2 DEF ContentInv, VersionsKnown, GenerationPassed, ReplacesKnown,
     NoDuplicateUpload, EditsNeverOverwritten, IsInjective

(* A step that changes no variable. *)
LEMMA StutterContent == ASSUME IInv, ContentInv, UNCHANGED vars PROVE ContentInv'
<1>1. Log' = Log /\ Log \in Seq(Events)
  BY LogType DEF IInv, Log, vars
<1>2. Kept
  BY <1>1, PrefixRefl DEF Kept, vars
<1>3. Quiet
  BY DEF Quiet, Carried, Planned, vars
<1> QED
  BY <1>2, <1>3, QuietContent

(* Every step keeps what is known about contents. *)
LEMMA NextContent == ASSUME IInv, ContentInv, [Next]_vars PROVE ContentInv'
<1>1. ASSUME NEW w \in Workers, Step(w) \/ Crash(w) PROVE ContentInv'
  BY <1>1, ReadStateQuiet, StageQuiet, CleanupQuiet, SavePendingQuiet, FinalizeQuiet, CompleteQuiet,
     AbortQuiet, QuietContent, PlanContent, ReserveContent, DeliverContent DEF Step
<1>2. ASSUME NEW w \in Workers, NEW e \in Events, Receive(w, e) PROVE ContentInv'
  BY <1>2, ReceiveQuiet, QuietContent
<1> QED
  BY <1>1, <1>2, DeviceEditContent, StutterContent DEF Next

(* The invariant of the stored contents. *)
THEOREM ContentsKnown == Spec => []ContentInv
<1>1. Init => IInv /\ ContentInv
  BY InitInv, InitContent
<1>2. IInv /\ ContentInv /\ [Next]_vars => IInv' /\ ContentInv'
  BY NextInv, NextContent
<1> QED
  BY <1>1, <1>2, PTL DEF Spec

(* "a crash after an object upload does not duplicate the object on retry". *)
THEOREM NeverUploadedTwice == Spec => []NoDuplicateUpload
<1>1. ContentInv => NoDuplicateUpload
  BY DEF ContentInv
<1> QED
  BY <1>1, ContentsKnown, PTL

(* "a stale destination generation cannot be overwritten". *)
THEOREM UnseenEditsStand == Spec => []EditsNeverOverwritten
<1>1. ContentInv => EditsNeverOverwritten
  BY DEF ContentInv
<1> QED
  BY <1>1, ContentsKnown, PTL

-----------------------------------------------------------------------------
(* The staged payloads: what a recovery reads is there. *)

(* Every output of c is staged. *)
StagedAll(c) == \A p \in Range(Writes(c.ev)) : <<c, p>> \in payloads

(* A commit that may still be reserved or delivered has its payloads: cleanup
   works for published commits whose reservation is over. *)
StagedInv ==
    /\ RecoverablePayloads
    /\ pending # None => <<pending.c, None>> \in payloads
    /\ \A w \in Workers :
         /\ worker[w].pc = "reserve" =>
              /\ <<worker[w].c, None>> \in payloads
              /\ Len(worker[w].c.log) = Len(Log) => StagedAll(worker[w].c)
         /\ worker[w].pc = "cleanup" /\ RelWrites[worker[w].c.ev] # <<>> =>
              ~ Reserved(worker[w].c, pending)

(* A step that moves one worker and removes no payload, with the record and
   the history unchanged. *)
LEMMA LocalStaged ==
    ASSUME IInv, StagedInv, NEW w \in Workers, NEW r \in WorkerStates, Become(w, r),
           UNCHANGED <<active, pending>>, payloads \subseteq payloads',
           r.pc # "cleanup",
           r.pc = "reserve" => \A p \in Range(Writes(r.c.ev)) \cup {None} : <<r.c, p>> \in payloads'
    PROVE  StagedInv'
<1>1. worker'[w] = r /\ \A v \in Workers : v # w => worker'[v] = worker[v]
  BY BecomeFacts DEF IInv, TypeOK
<1>2. Log' = Log
  BY DEF Log
<1>3. RecoverablePayloads' /\ (pending' # None => <<pending'.c, None>> \in payloads')
  BY DEF StagedInv, RecoverablePayloads
<1>4. ASSUME NEW v \in Workers
      PROVE  /\ worker'[v].pc = "reserve" =>
                  /\ <<worker'[v].c, None>> \in payloads'
                  /\ Len(worker'[v].c.log) = Len(Log) =>
                       \A p \in Range(Writes(worker'[v].c.ev)) : <<worker'[v].c, p>> \in payloads'
             /\ worker'[v].pc = "cleanup" /\ RelWrites[worker'[v].c.ev] # <<>> =>
                  ~ Reserved(worker'[v].c, pending)
  <2>1. CASE v = w
    BY <1>1, <2>1 DEF StagedAll
  <2>2. CASE v # w
    BY <1>1, <2>2 DEF StagedInv, StagedAll
  <2> QED
    BY <2>1, <2>2
<1> QED
  BY <1>2, <1>3, <1>4 DEF StagedInv, StagedAll

(* Error returns and crashes leave the payloads. *)
LEMMA AbortStaged == ASSUME IInv, StagedInv, NEW w \in Workers, Abort(w) \/ Crash(w) PROVE StagedInv'
<1>1. Idle \in WorkerStates /\ Idle.pc = "idle"
  BY IdleType DEF Idle
<1> QED
  BY <1>1, LocalStaged DEF Abort, Crash, Return

(* Taking an event stages nothing. *)
LEMMA ReceiveStaged ==
    ASSUME IInv, StagedInv, NEW w \in Workers, NEW e \in Events, Receive(w, e) PROVE StagedInv'
<1>1. CASE pending = None \/ e = Registration
  <2> DEFINE r == [Idle EXCEPT !.pc = "read", !.ev = e]
  <2>1. r \in WorkerStates /\ r.pc = "read" /\ Become(w, r)
    BY <1>1, IdleType DEF Idle, WorkerStates, Receive
  <2> HIDE DEF r
  <2> QED
    BY <2>1, LocalStaged DEF Receive
<1>2. CASE pending # None /\ e # Registration
  <2> DEFINE n == IF active.payload = pending.c THEN Len(ObjWrites[pending.c.ev]) + 1 ELSE 1
             r == [Idle EXCEPT !.pc = "object", !.ev = e, !.rec = TRUE, !.c = pending.c,
                               !.delivered = pending.delivered, !.i = n]
  <2>1. pending.c \in Commits /\ pending.delivered \in Deliveries
    BY <1>2 DEF IInv, TypeOK, PendingCommits
  <2>2. n \in Nat
    BY <2>1, OutboxAssumption DEF Commits
  <2> HIDE DEF n
  <2>3. r \in WorkerStates /\ r.pc = "object"
    BY <2>1, <2>2, IdleType DEF Idle, WorkerStates
  <2>4. Become(w, r)
    BY <1>2 DEF Receive, n
  <2> HIDE DEF r
  <2> QED
    BY <2>3, <2>4, LocalStaged DEF Receive
<1> QED
  BY <1>1, <1>2

(* Reading the state stages nothing. *)
LEMMA ReadStateStaged == ASSUME IInv, StagedInv, NEW w \in Workers, ReadState(w) PROVE StagedInv'
<1> DEFINE r == [worker[w] EXCEPT !.pc = "plan", !.base = active]
<1>1. r \in WorkerStates /\ r.pc = "plan"
  BY DEF IInv, TypeOK, WorkerStates
<1>2. CASE Become(w, r) /\ UNCHANGED <<active, pending, objects, payloads, edited, faults>>
  <2> HIDE DEF r
  <2> QED
    BY <1>1, <1>2, LocalStaged
<1> QED
  BY <1>2, AbortStaged DEF ReadState

(* Planning stages nothing. *)
LEMMA PlanStaged == ASSUME IInv, StagedInv, NEW w \in Workers, Plan(w) PROVE StagedInv'
<1> DEFINE e == worker[w].ev
           pre == [p \in Paths |-> IF p \in Range(Writes(e)) THEN Precondition(p) ELSE 0]
           c == [ev |-> e, gen |-> worker[w].base.gen, log |-> StateLog(worker[w].base.payload), pre |-> pre]
           r == [worker[w] EXCEPT !.pc = "stage", !.c = c]
<1>1. CASE Become(w, r) /\ UNCHANGED <<active, pending, objects, payloads, edited, faults>>
  <2>1. worker[w] \in WorkerStates /\ RecordOK(worker[w], Log, objects, pending) /\ worker[w].pc = "plan"
        /\ objects \in [Paths -> Seq(Contents)]
    BY DEF Plan, IInv, TypeOK, WorkersOK
  <2>2. e \in Events /\ worker[w].base \in ActiveStates
    BY <2>1 DEF RecordOK
  <2>3. StateLog(worker[w].base.payload) \in Seq(Events) /\ worker[w].base.gen \in Nat
    BY <2>2, StateLogType DEF ActiveStates
  <2>4. pre \in [Paths -> Nat]
    BY <2>1 DEF Precondition, Generation
  <2> HIDE DEF pre
  <2>5. c \in Commits
    BY <2>2, <2>3, <2>4 DEF Commits
  <2> HIDE DEF c
  <2>6. r \in WorkerStates /\ r.pc = "stage"
    BY <2>1, <2>5 DEF WorkerStates
  <2> HIDE DEF r
  <2> QED
    BY <1>1, <2>6, LocalStaged
<1> QED
  BY <1>1, AbortStaged DEF Plan

(* Staging stages the state and every output. *)
LEMMA StageStaged == ASSUME IInv, StagedInv, NEW w \in Workers, Stage(w) PROVE StagedInv'
<1> DEFINE c == worker[w].c
           r == [worker[w] EXCEPT !.pc = "reserve"]
<1>1. r \in WorkerStates /\ r.pc = "reserve" /\ r.c = c
  BY DEF IInv, TypeOK, WorkerStates
<1>2. CASE /\ payloads' = payloads \cup {<<c, p>> : p \in Range(Writes(c.ev)) \cup {None}}
           /\ Become(w, r) /\ UNCHANGED <<active, pending, objects, edited, faults>>
  <2>1. \A p \in Range(Writes(r.c.ev)) \cup {None} : <<r.c, p>> \in payloads'
    BY <1>1, <1>2
  <2> HIDE DEF r
  <2> QED
    BY <1>1, <1>2, <2>1, LocalStaged
<1> QED
  BY <1>2, AbortStaged DEF Stage

(* A step of a worker that holds the reservation or has ended it. *)
LEMMA RecordStaged ==
    ASSUME IInv, IInv', StagedInv, NEW w \in Workers, NEW r \in WorkerStates, Become(w, r),
           UNCHANGED payloads, Prefix(Log, Log'),
           r.pc # "reserve",
           r.pc = "cleanup" /\ RelWrites[r.c.ev] # <<>> => ~ Reserved(r.c, pending'),
           \A c \in Commits : Reserved(c, pending') => Reserved(c, pending),
           pending' # None => pending'.c \in Commits,
           active'.payload # None => <<active'.payload, None>> \in payloads,
           pending' # None /\ active'.payload # pending'.c => UNCHANGED active
    PROVE  StagedInv'
<1>1. worker'[w] = r /\ \A v \in Workers : v # w => worker'[v] = worker[v]
  BY BecomeFacts DEF IInv, TypeOK
<1>2. ASSUME pending' # None
      PROVE  /\ pending # None /\ pending.c = pending'.c
             /\ <<pending'.c, None>> \in payloads
             /\ \A p \in Range(IF active'.payload = pending'.c THEN RelWrites[pending'.c.ev]
                               ELSE Writes(pending'.c.ev)) : <<pending'.c, p>> \in payloads
  <2>1. pending # None /\ pending.c = pending'.c
    BY <1>2 DEF Reserved
  <2>2. <<pending'.c, None>> \in payloads
    BY <2>1 DEF StagedInv
  <2>3. Range(RelWrites[pending.c.ev]) \subseteq Range(Writes(pending.c.ev))
    <3>1. pending.c.ev \in Events
      BY <2>1, <1>2 DEF Commits
    <3>2. ObjWrites[pending.c.ev] \in Seq(Paths) /\ RelWrites[pending.c.ev] \in Seq(Paths)
      BY <3>1, OutboxAssumption
    <3> QED
      BY <3>2, RangeConcat DEF Writes
  <2>4. \A p \in Range(RelWrites[pending.c.ev]) : <<pending.c, p>> \in payloads
    BY <2>1, <2>3 DEF StagedInv, RecoverablePayloads
  <2>5. active'.payload # pending'.c =>
          \A p \in Range(Writes(pending.c.ev)) : <<pending.c, p>> \in payloads
    BY <1>2, <2>1 DEF StagedInv, RecoverablePayloads
  <2> QED
    BY <2>1, <2>2, <2>4, <2>5
<1>3. RecoverablePayloads' /\ (pending' # None => <<pending'.c, None>> \in payloads')
  BY <1>2 DEF RecoverablePayloads
<1>4. Log \in Seq(Events) /\ Log' \in Seq(Events)
  <2>1. TypeOK /\ TypeOK'
    BY DEF IInv
  <2>2. Log \in Seq(Events)
    BY <2>1, LogType
  <2>3. Log' \in Seq(Events)
    BY <2>1, StateLogType DEF Log, TypeOK, ActiveStates
  <2> QED
    BY <2>2, <2>3
<1>5. ASSUME NEW v \in Workers
      PROVE  /\ worker'[v].pc = "reserve" =>
                  /\ <<worker'[v].c, None>> \in payloads
                  /\ Len(worker'[v].c.log) = Len(Log') =>
                       \A p \in Range(Writes(worker'[v].c.ev)) : <<worker'[v].c, p>> \in payloads
             /\ worker'[v].pc = "cleanup" /\ RelWrites[worker'[v].c.ev] # <<>> =>
                  ~ Reserved(worker'[v].c, pending')
  <2>1. CASE v = w
    BY <1>1, <2>1
  <2>2. CASE v # w
    <3>1. worker'[v] = worker[v] /\ RecordOK(worker[v], Log, objects, pending)
      BY <1>1, <2>2 DEF IInv, WorkersOK
    <3>2. worker[v].pc = "reserve" => worker[v].c \in Commits /\ Len(worker[v].c.log) <= Len(Log)
      BY <3>1 DEF RecordOK, Based, Prefix
    <3>3. worker[v].pc = "cleanup" => worker[v].c \in Commits
      BY <3>1 DEF RecordOK, Based, Delivering
    <3>4. ASSUME worker[v].pc = "reserve", Len(worker[v].c.log) = Len(Log')
          PROVE  Len(worker[v].c.log) = Len(Log)
      BY <1>4, <3>2, <3>4 DEF Prefix, Commits
    <3> QED
      BY <3>1, <3>2, <3>3, <3>4 DEF StagedInv, StagedAll
  <2> QED
    BY <2>1, <2>2
<1> QED
  BY <1>3, <1>5 DEF StagedInv, StagedAll

(* The reservation is won for a commit whose payloads are staged. *)
LEMMA ReserveStaged == ASSUME IInv, StagedInv, NEW w \in Workers, Reserve(w) PROVE StagedInv'
<1> DEFINE c == worker[w].c
           r(d) == [worker[w] EXCEPT !.pc = "object", !.delivered = d, !.i = 1]
<1>1. worker[w].pc = "reserve" /\ worker[w] \in WorkerStates
      /\ RecordOK(worker[w], Log, objects, pending) /\ Log \in Seq(Events)
  BY LogType DEF Reserve, IInv, TypeOK, WorkersOK
<1>2. Based(c, Log) /\ c \in Commits
  BY <1>1 DEF RecordOK, Based
<1>3. ASSUME NEW d \in Deliveries PROVE r(d) \in WorkerStates /\ r(d).pc = "object"
  BY <1>1 DEF WorkerStates
<1> HIDE DEF r
<1>4. CASE /\ pending # None
           /\ Become(w, r(pending.delivered))
           /\ UNCHANGED <<active, pending, objects, payloads, edited, faults>>
  <2>1. pending.delivered \in Deliveries
    BY <1>4 DEF IInv, TypeOK, PendingCommits
  <2>2. r(pending.delivered) \in WorkerStates /\ r(pending.delivered).pc = "object"
    BY <1>3, <2>1
  <2> QED
    BY <1>4, <2>2, LocalStaged
<1>5. CASE /\ pending = None /\ active.gen = c.gen
           /\ pending' = [c |-> c, delivered |-> Nowhere]
           /\ Become(w, r(Nowhere))
           /\ UNCHANGED <<active, objects, payloads, edited, faults>>
  <2>1. r(Nowhere) \in WorkerStates /\ r(Nowhere).pc = "object"
    BY <1>3 DEF Nowhere, Deliveries
  <2>2. worker'[w] = r(Nowhere) /\ \A v \in Workers : v # w => worker'[v] = worker[v]
    BY <1>5, <2>1, BecomeFacts DEF IInv, TypeOK
  <2>3. Log' = Log /\ Len(c.log) = Len(Log) /\ Len(Log) \in Nat
    BY <1>1, <1>2, <1>5 DEF Log, Based, IInv, ActiveOK
  <2>4. <<c, None>> \in payloads /\ \A p \in Range(Writes(c.ev)) : <<c, p>> \in payloads
    BY <1>1, <2>3 DEF StagedInv, StagedAll
  <2>5. Range(RelWrites[c.ev]) \subseteq Range(Writes(c.ev))
    <3>1. ObjWrites[c.ev] \in Seq(Paths) /\ RelWrites[c.ev] \in Seq(Paths)
      BY <1>2, OutboxAssumption DEF Commits
    <3> QED
      BY <3>1, RangeConcat DEF Writes
  <2>6. pending'.c = c /\ (pending' # None => <<pending'.c, None>> \in payloads')
    BY <1>5, <2>4
  <2>7. RecoverablePayloads'
    BY <1>5, <2>4, <2>5, <2>6 DEF RecoverablePayloads, StagedInv
  <2>8. ASSUME NEW v \in Workers, worker'[v].pc = "cleanup" PROVE worker'[v].c # c
    <3>1. v # w /\ worker'[v] = worker[v]
      BY <2>1, <2>2, <2>8
    <3>2. Published(worker[v].c, Log)
      BY <2>8, <3>1 DEF IInv, WorkersOK, RecordOK, Releasing
    <3> QED
      BY <2>3, <3>1, <3>2 DEF Published
  <2>9. ASSUME NEW v \in Workers, worker'[v].pc = "reserve" PROVE worker'[v] = worker[v]
    BY <2>1, <2>2, <2>9
  <2>10. \A v \in Workers : worker'[v].pc = "cleanup" => ~ Reserved(worker'[v].c, pending')
    BY <2>6, <2>8 DEF Reserved
  <2> QED
    BY <1>5, <2>3, <2>6, <2>7, <2>9, <2>10 DEF StagedInv, StagedAll
<1>6. CASE Abort(w)
  BY <1>6, AbortStaged
<1> QED
  BY <1>4, <1>5, <1>6 DEF Reserve, r

(* An upload keeps its payload. *)
LEMMA DeliverStaged ==
    ASSUME IInv, StagedInv, NEW w \in Workers, DeliverObject(w) \/ DeliverRelease(w)
    PROVE  StagedInv'
<1>1. worker[w] \in WorkerStates /\ RecordOK(worker[w], Log, objects, pending)
      /\ worker[w].pc \in {"object", "release"} /\ TypeOK
  BY DEF IInv, TypeOK, WorkersOK, DeliverObject, DeliverRelease
<1>2. worker[w].c \in Commits /\ worker[w].i >= 1 /\ worker[w].i \in Nat
  BY <1>1 DEF RecordOK, Delivering, Based, WorkerStates
<1>3. ObjWrites[worker[w].c.ev] \in Seq(Paths) /\ RelWrites[worker[w].c.ev] \in Seq(Paths)
  BY <1>2, OutboxAssumption DEF Commits
<1>4. PICK p \in Paths, next \in {"saveObject", "saveRelease"} : DeliverWrite(w, p, next)
  <2>1. CASE DeliverObject(w)
    <3>1. ObjWrites[worker[w].c.ev][worker[w].i] \in Paths
      BY <1>2, <1>3, <2>1 DEF DeliverObject
    <3> QED
      BY <2>1, <3>1 DEF DeliverObject
  <2>2. CASE DeliverRelease(w)
    <3>1. RelWrites[worker[w].c.ev][worker[w].i] \in Paths
      BY <1>2, <1>3, <2>2 DEF DeliverRelease
    <3> QED
      BY <2>2, <3>1 DEF DeliverRelease
  <2> QED
    BY <2>1, <2>2
<1>5. Generation(p) \in Nat /\ Generation(p) + 1 \in Nat
  BY <1>1 DEF Generation, TypeOK
<1>6. ASSUME NEW m \in Nat, Become(w, Recording(w, p, m, next)), UNCHANGED <<active, pending, payloads>>
      PROVE  StagedInv'
  <2> DEFINE r == Recording(w, p, m, next)
  <2>1. r \in WorkerStates
    BY <1>1, RecordingType
  <2>2. r.pc = next
    BY <1>1 DEF Recording, WorkerStates
  <2> HIDE DEF r
  <2>3. Become(w, r)
    BY <1>6 DEF r
  <2>4. r.pc # "cleanup" /\ r.pc # "reserve"
    BY <2>2
  <2> QED
    BY <1>6, <2>1, <2>3, <2>4, LocalStaged
<1> QED
  BY <1>4, <1>5, <1>6, AbortStaged DEF DeliverWrite

(* The checkpoint keeps the reservation and its payloads. *)
LEMMA SavePendingStaged == ASSUME IInv, StagedInv, NEW w \in Workers, SavePending(w) PROVE StagedInv'
<1> DEFINE label == IF worker[w].pc = "saveObject" THEN "object" ELSE "release"
           n == worker[w].i + 1
           r == [worker[w] EXCEPT !.pc = label, !.i = n]
<1>0. IInv'
  BY SavePendingInv
<1>1. worker[w] \in WorkerStates
  BY DEF IInv, TypeOK
<1>2. label \in {"object", "release"} /\ n \in Nat
  BY <1>1 DEF WorkerStates
<1> HIDE DEF label, n
<1>3. r \in WorkerStates /\ r.pc = label
  BY <1>1, <1>2 DEF WorkerStates
<1>4. CASE HoldsPending(w)
  <2>1. Become(w, r) /\ UNCHANGED <<active, payloads>>
        /\ pending' = [pending EXCEPT !.delivered = worker[w].delivered]
    BY <1>4 DEF SavePending, label, n
  <2> HIDE DEF r
  <2>2. pending # None /\ pending \in PendingCommits
    BY <1>4 DEF HoldsPending, IInv, TypeOK
  <2>3. pending'.c = pending.c /\ pending'.c \in Commits
    BY <1>1, <2>1, <2>2 DEF PendingCommits, WorkerStates
  <2>4. Log' = Log /\ Prefix(Log, Log')
    BY <2>1, LogType, PrefixRefl DEF Log, IInv
  <2>5. \A c \in Commits : Reserved(c, pending') => Reserved(c, pending)
    BY <2>2, <2>3 DEF Reserved
  <2>6. r.pc # "cleanup" /\ r.pc # "reserve"
    BY <1>2, <1>3
  <2>7. active'.payload # None => <<active'.payload, None>> \in payloads
    BY <2>1 DEF StagedInv, RecoverablePayloads
  <2> QED
    BY <1>0, <1>3, <2>1, <2>3, <2>4, <2>5, <2>6, <2>7, RecordStaged
<1>5. CASE Abort(w)
  BY <1>5, AbortStaged
<1> QED
  BY <1>4, <1>5 DEF SavePending

(* The promotion needs the state payload only, and keeps the release signals'. *)
LEMMA FinalizeStaged == ASSUME IInv, StagedInv, NEW w \in Workers, Finalize(w) PROVE StagedInv'
<1> DEFINE c == worker[w].c
           label == IF RelWrites[c.ev] = <<>> THEN "cleanup" ELSE "release"
           r == [worker[w] EXCEPT !.pc = label, !.i = 1]
<1>0. IInv'
  BY FinalizeInv
<1>1. worker[w] \in WorkerStates /\ worker[w].pc = "object"
      /\ RecordOK(worker[w], Log, objects, pending) /\ Log \in Seq(Events)
  BY LogType DEF IInv, TypeOK, Finalize, WorkersOK
<1>2. Based(c, Log) /\ c \in Commits
  BY <1>1 DEF RecordOK, Based, Delivering
<1>3. label \in {"cleanup", "release"} /\ (label = "cleanup" => RelWrites[c.ev] = <<>>)
  OBVIOUS
<1> HIDE DEF label
<1>4. r \in WorkerStates /\ r.pc = label /\ r.c = c
  BY <1>1, <1>3 DEF WorkerStates
<1>5. r.pc # "reserve" /\ ~(r.pc = "cleanup" /\ RelWrites[r.c.ev] # <<>>)
  BY <1>3, <1>4
<1>6. CASE HoldsPending(w) /\ Recorded(w, ObjWrites[c.ev])
  <2>1. Become(w, r) /\ UNCHANGED payloads
    BY <1>6 DEF Finalize, label
  <2>2. pending # None /\ pending.c = c /\ <<c, None>> \in payloads
    BY <1>6 DEF HoldsPending, StagedInv
  <2> HIDE DEF r
  <2>3. CASE active.payload = c
    <3>1. UNCHANGED <<active, pending>>
      BY <1>6, <2>3 DEF Finalize
    <3>2. Log' = Log /\ Prefix(Log, Log')
      BY <1>1, <3>1, PrefixRefl DEF Log
    <3>3. active'.payload # None => <<active'.payload, None>> \in payloads
      BY <2>2, <2>3, <3>1
    <3> QED
      BY <1>0, <1>2, <1>4, <1>5, <2>1, <2>2, <3>1, <3>2, <3>3, RecordStaged
  <2>4. CASE active.payload # c
    <3>1. active' = [gen |-> active.gen + 1, payload |-> c]
          /\ pending' = IF RelWrites[c.ev] = <<>> THEN None ELSE [c |-> c, delivered |-> worker[w].delivered]
      BY <1>6, <2>4 DEF Finalize
    <3>2. c.log = Log /\ IsInjective(Log)
      BY <2>2, <2>4 DEF IInv, PendingOK, ActiveOK
    <3>3. Prefix(Log, Log')
      BY <1>1, <1>2, <3>1, <3>2, PublishLog DEF Log
    <3>4. active'.payload = c /\ (pending' # None => pending'.c = c)
      BY <3>1
    <3>5. \A d \in Commits : Reserved(d, pending') => Reserved(d, pending)
      BY <2>2, <3>4 DEF Reserved
    <3> QED
      BY <1>0, <1>2, <1>4, <1>5, <2>1, <2>2, <3>3, <3>4, <3>5, RecordStaged
  <2> QED
    BY <2>3, <2>4
<1>7. CASE Abort(w)
  BY <1>7, AbortStaged
<1> QED
  BY <1>6, <1>7 DEF Finalize

(* The reservation is gone before its payloads are. *)
LEMMA CompleteStaged == ASSUME IInv, StagedInv, NEW w \in Workers, Complete(w) PROVE StagedInv'
<1> DEFINE c == worker[w].c
           r == [worker[w] EXCEPT !.pc = "cleanup", !.i = 1]
<1>0. IInv'
  BY CompleteInv
<1>1. worker[w] \in WorkerStates /\ Log \in Seq(Events)
  BY LogType DEF IInv, TypeOK
<1>2. r \in WorkerStates /\ r.pc = "cleanup" /\ r.c = c
  BY <1>1 DEF WorkerStates
<1>3. CASE HoldsPending(w) /\ active.payload = c /\ Recorded(w, RelWrites[c.ev])
  <2>1. Become(w, r) /\ UNCHANGED <<active, payloads>> /\ pending' = None
    BY <1>3 DEF Complete
  <2> HIDE DEF r
  <2>2. Log' = Log /\ Prefix(Log, Log')
    BY <1>1, <2>1, PrefixRefl DEF Log
  <2>3. \A d : ~ Reserved(d, pending')
    BY <2>1 DEF Reserved
  <2>4. active'.payload # None => <<active'.payload, None>> \in payloads
    BY <2>1 DEF StagedInv, RecoverablePayloads
  <2> QED
    BY <1>0, <1>2, <2>1, <2>2, <2>3, <2>4, RecordStaged
<1>4. CASE Abort(w)
  BY <1>4, AbortStaged
<1> QED
  BY <1>3, <1>4 DEF Complete

(* Cleanup removes payloads of a published commit that is no longer reserved,
   or that has no release signal left to deliver. *)
LEMMA CleanupStaged == ASSUME IInv, StagedInv, NEW w \in Workers, Cleanup(w) PROVE StagedInv'
<1> DEFINE c == worker[w].c
           q == Writes(c.ev)[worker[w].i]
           r == [worker[w] EXCEPT !.i = worker[w].i + 1]
<1>1. worker[w] \in WorkerStates /\ worker[w].pc = "cleanup"
      /\ RecordOK(worker[w], Log, objects, pending) /\ Log \in Seq(Events)
  BY LogType DEF IInv, TypeOK, Cleanup, WorkersOK
<1>2. c \in Commits /\ Published(c, Log) /\ worker[w].i \in Nat /\ worker[w].i >= 1
  BY <1>1 DEF RecordOK, Based, Delivering, Releasing, WorkerStates
<1>3. r \in WorkerStates /\ r.pc = "cleanup" /\ r.c = c /\ Become(w, r)
  BY <1>1 DEF WorkerStates, Cleanup
<1> HIDE DEF r
<1>4. worker'[w] = r /\ \A v \in Workers : v # w => worker'[v] = worker[v]
  BY <1>3, BecomeFacts DEF IInv, TypeOK
<1>5. q \in Paths /\ q # None
  <2>1. ObjWrites[c.ev] \in Seq(Paths) /\ RelWrites[c.ev] \in Seq(Paths)
    BY <1>2, OutboxAssumption DEF Commits
  <2>4. Writes(c.ev) \in Seq(Paths)
    BY <2>1 DEF Writes
  <2>5. worker[w].i <= Len(Writes(c.ev))
    BY DEF Cleanup
  <2>2. Writes(c.ev) \in Seq(Paths) /\ worker[w].i \in 1..Len(Writes(c.ev))
    BY <1>2, <2>4, <2>5
  <2>3. \A s \in Seq(Paths) : \A k \in 1..Len(s) : s[k] \in Paths
    OBVIOUS
  <2> QED
    BY <2>2, <2>3, OutboxAssumption
<1> HIDE DEF q
<1>6. payloads \ {<<c, q>>} \subseteq payloads' /\ UNCHANGED <<active, pending>>
  BY DEF Cleanup, q
<1>7. Log' = Log
  BY <1>6 DEF Log
<1>8. ASSUME NEW d, NEW p, <<d, p>> \in payloads, d # c \/ p = None PROVE <<d, p>> \in payloads'
  BY <1>5, <1>6, <1>8
<1>9. pending # None => \/ pending.c # c
                        \/ active.payload = pending.c /\ RelWrites[pending.c.ev] = <<>>
  <2> SUFFICES ASSUME pending # None, pending.c = c
               PROVE  active.payload = c /\ RelWrites[c.ev] = <<>>
    OBVIOUS
  <2>1. RelWrites[c.ev] = <<>>
    BY <1>1 DEF StagedInv, Reserved
  <2>2. c.log # Log
    BY <1>1, <1>2 DEF Published
  <2> QED
    BY <2>1, <2>2 DEF IInv, PendingOK
<1>10. RecoverablePayloads'
  <2>1. active'.payload # None => <<active'.payload, None>> \in payloads'
    BY <1>6, <1>8 DEF StagedInv, RecoverablePayloads
  <2>2. ASSUME pending # None,
               NEW p \in Range(IF active.payload = pending.c THEN RelWrites[pending.c.ev]
                               ELSE Writes(pending.c.ev))
        PROVE  <<pending.c, p>> \in payloads'
    <3>1. <<pending.c, p>> \in payloads
      BY <2>2 DEF StagedInv, RecoverablePayloads
    <3>2. pending.c # c
      BY <1>9, <2>2 DEF Range
    <3> QED
      BY <1>8, <3>1, <3>2
  <2> QED
    BY <1>6, <2>1, <2>2 DEF RecoverablePayloads
<1>11. pending' # None => <<pending'.c, None>> \in payloads'
  BY <1>6, <1>8 DEF StagedInv
<1>12. ASSUME NEW v \in Workers, worker'[v].pc = "reserve"
       PROVE  /\ <<worker'[v].c, None>> \in payloads'
              /\ Len(worker'[v].c.log) = Len(Log) =>
                   \A p \in Range(Writes(worker'[v].c.ev)) : <<worker'[v].c, p>> \in payloads'
  <2>1. v # w /\ worker'[v] = worker[v]
    BY <1>3, <1>4, <1>12
  <2>2. <<worker[v].c, None>> \in payloads'
    BY <1>8, <1>12, <2>1 DEF StagedInv
  <2>3. ASSUME Len(worker[v].c.log) = Len(Log), NEW p \in Range(Writes(worker[v].c.ev))
        PROVE  <<worker[v].c, p>> \in payloads'
    <3>1. <<worker[v].c, p>> \in payloads
      BY <1>12, <2>1, <2>3 DEF StagedInv, StagedAll
    <3>2. worker[v].c # c
      BY <1>1, <1>2, <2>3 DEF Published
    <3> QED
      BY <1>8, <3>1, <3>2
  <2> QED
    BY <2>1, <2>2, <2>3
<1>13. ASSUME NEW v \in Workers, worker'[v].pc = "cleanup", RelWrites[worker'[v].c.ev] # <<>>
       PROVE  ~ Reserved(worker'[v].c, pending)
  BY <1>1, <1>3, <1>4, <1>13 DEF StagedInv
<1> QED
  BY <1>6, <1>7, <1>10, <1>11, <1>12, <1>13 DEF StagedInv, StagedAll

(* deliver() returns. *)
LEMMA DeliveredStaged == ASSUME IInv, StagedInv, NEW w \in Workers, Delivered(w) PROVE StagedInv'
<1> DEFINE r == IF worker[w].rec THEN [Idle EXCEPT !.pc = "read", !.ev = worker[w].ev] ELSE Idle
<1>1. r \in WorkerStates /\ r.pc \in {"read", "idle"}
  BY IdleType DEF WorkerStates, Idle, IInv, TypeOK
<1>2. Become(w, r)
  BY DEF Delivered
<1> HIDE DEF r
<1> QED
  BY <1>1, <1>2, LocalStaged DEF Delivered

(* Steps that concern neither the record, nor a worker, nor a payload. *)
LEMMA OtherStaged ==
    ASSUME StagedInv, UNCHANGED <<active, pending, payloads, worker>> PROVE StagedInv'
  BY DEF StagedInv, RecoverablePayloads, StagedAll, Log

(* Every step keeps the payloads a recovery needs. *)
LEMMA NextStaged == ASSUME IInv, StagedInv, [Next]_vars PROVE StagedInv'
<1>1. ASSUME NEW w \in Workers, Step(w) \/ Crash(w) PROVE StagedInv'
  BY <1>1, ReadStateStaged, PlanStaged, StageStaged, ReserveStaged, DeliverStaged, SavePendingStaged,
     FinalizeStaged, CompleteStaged, CleanupStaged, DeliveredStaged, AbortStaged DEF Step
<1>2. ASSUME NEW w \in Workers, NEW e \in Events, Receive(w, e) PROVE StagedInv'
  BY <1>2, ReceiveStaged
<1>3. ASSUME NEW e \in Events, DeviceEdit(e) PROVE StagedInv'
  BY <1>3, OtherStaged DEF DeviceEdit
<1>4. CASE UNCHANGED vars
  BY <1>4, OtherStaged DEF vars
<1> QED
  BY <1>1, <1>2, <1>3, <1>4 DEF Next

(* While a commit is pending the payloads its recovery will ask for are
   staged, and the active state can be read, whatever cleanups race. *)
THEOREM RecoveryPossible == Spec => []RecoverablePayloads
<1>1. Init => IInv /\ StagedInv
  BY InitInv DEF Init, StagedInv, RecoverablePayloads, Idle
<1>2. IInv /\ StagedInv /\ [Next]_vars => IInv' /\ StagedInv'
  BY NextInv, NextStaged
<1>3. StagedInv => RecoverablePayloads
  BY DEF StagedInv
<1> QED
  BY <1>1, <1>2, <1>3, PTL DEF Spec
=============================================================================
