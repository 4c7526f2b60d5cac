------------------------- MODULE RegistrationProofs -------------------------
(***************************************************************************)
(* Machine-checked theorems about Registration, for any number of workers, *)
(* names, uploads, crashes and expired objects: its types, that whoever    *)
(* was answered finds the registration and the stored original, and that   *)
(* the first registration stays.                                           *)
(*                                                                         *)
(* The inductive invariant follows the original from its upload: a worker  *)
(* that wrote it, a reservation that recorded it and a state that was      *)
(* published all vouch for it; and a reservation exists only before the    *)
(* state does, so that publishing it replaces nothing.                     *)
(***************************************************************************)
EXTENDS Registration, TLAPS

Steps == {"idle", "load", "stage", "reserve", "write", "checkpoint", "finalize", "clean"}

Running == [step : Steps, request : Requests \cup {None}, name : Names \cup {None}]

(* A running request has a name to register and is about an upload. *)
WorkersOK ==
    /\ worker \in [Workers -> Running]
    /\ \A w \in Workers :
        /\ worker[w].step # "idle" => worker[w].name \in Names
        /\ worker[w].request # None => worker[w].request.of \in Generations

(* Who vouches for the stored original. *)
OriginalVouched ==
    /\ original \in BOOLEAN
    /\ \A w \in Workers : worker[w].step = "checkpoint" => original
    /\ pending # None /\ pending.delivered => original
    /\ active # None => original

(* A reservation precedes the state; an answer follows it. *)
StateOrder ==
    /\ pending # None => active = None
    /\ \A w \in Workers : worker[w].step = "clean" => active # None
    /\ registered # {} => active # None

IInv == TypeOK /\ WorkersOK /\ OriginalVouched /\ StateOrder

LEMMA InitIInv == ASSUME RegistrationAssumption, Init PROVE IInv
<1>1. TypeOK
  BY DEF Init, TypeOK, Generations
<1>2. Idle \in Running
  BY DEF Idle, Running, Steps
<1>3. WorkersOK
  BY <1>2 DEF Init, WorkersOK, Idle
<1> QED
  BY <1>1, <1>3 DEF Init, IInv, OriginalVouched, StateOrder, Idle

(* A new upload is one more generation; nothing already known changes. *)
LEMMA UploadIInv ==
    ASSUME RegistrationAssumption, IInv,
           NEW n \in Names, NEW b \in {"pdf", "junk"}, NEW d \in BOOLEAN, Upload(n, b, d)
    PROVE  IInv'
<1>1. /\ staged \in Seq([name : Names, bytes : {"pdf", "junk"}]) /\ MaxUploads \in Nat
      /\ staged' = Append(staged, [name |-> n, bytes |-> b]) /\ Len(staged) < MaxUploads
  BY DEF RegistrationAssumption, IInv, TypeOK, Upload
<1>2. /\ staged' \in Seq([name : Names, bytes : {"pdf", "junk"}])
      /\ Len(staged') = Len(staged) + 1 /\ Len(staged') \in 1 .. MaxUploads
      /\ Generations \subseteq Generations'
      /\ Len(staged') \in Generations'
  BY <1>1 DEF Generations
<1>3. Request(Len(staged'), "event") \in Requests /\ Request(Len(staged'), "job") \in Requests
  BY <1>2 DEF Requests
<1>4. /\ alive' = alive \cup {Len(staged')}
      /\ asked' \subseteq asked \cup {Request(Len(staged'), "event"), Request(Len(staged'), "job")}
      /\ UNCHANGED <<registered, rejected, active, pending, original, payloads, worker>>
  BY DEF Upload, stores
<1>5. TypeOK'
  BY <1>2, <1>3, <1>4 DEF IInv, TypeOK
<1>6. WorkersOK'
  BY <1>2, <1>4 DEF IInv, WorkersOK
<1> QED
  BY <1>4, <1>5, <1>6 DEF IInv, OriginalVouched, StateOrder

(* What a step of a request may do to its worker: go on, or give up. *)
LEMMA WorkerSteps ==
    ASSUME IInv, NEW w \in Workers, UNCHANGED staged,
           \/ \E s \in Steps \ {"idle"} : Goto(w, s) /\ worker[w].step # "idle"
           \/ worker' = [worker EXCEPT ![w] = Idle]
    PROVE  WorkersOK'
<1>1. Idle \in Running /\ Idle.step = "idle" /\ Idle.request = None
  BY DEF Idle, Running, Steps
<1>2. CASE worker' = [worker EXCEPT ![w] = Idle]
  BY <1>1, <1>2 DEF IInv, WorkersOK, Generations
<1>3. ASSUME NEW s \in Steps \ {"idle"}, Goto(w, s), worker[w].step # "idle" PROVE WorkersOK'
  BY <1>3 DEF IInv, WorkersOK, Goto, Generations, Running
<1> QED
  BY <1>2, <1>3

(* A request answered as registered, or one that fails, leaves its worker idle. *)
LEMMA AnswerOK ==
    ASSUME IInv, NEW w \in Workers, Answer(w) \/ Fail(w), UNCHANGED staged,
           registered' # registered => active # None
    PROVE  /\ WorkersOK'
           /\ worker' = [worker EXCEPT ![w] = Idle]
           /\ asked' \subseteq asked /\ rejected' = rejected
           /\ registered' \subseteq Generations
           /\ registered' # {} => active # None
<1>1. worker' = [worker EXCEPT ![w] = Idle]
  BY DEF Answer, Fail
<1>2. WorkersOK'
  BY <1>1, WorkerSteps
<1>3. asked' \subseteq asked /\ rejected' = rejected /\ registered' \subseteq Generations
  BY DEF Answer, Fail, answers, IInv, TypeOK, WorkersOK
<1> QED
  BY <1>1, <1>2, <1>3 DEF IInv, StateOrder

(* The steps that touch neither the record nor the original. *)
LEMMA QuietIInv ==
    ASSUME IInv, NEW w \in Workers,
           UNCHANGED <<staged, alive, active, pending, original, rejected>>,
           WorkersOK', payloads' \subseteq Names, asked' \subseteq asked,
           registered' \subseteq Generations, registered' # {} => active # None,
           \A v \in Workers \ {w} : worker'[v] = worker[v],
           worker'[w].step \notin {"checkpoint", "clean"}
    PROVE  IInv'
<1>1. TypeOK'
  BY DEF IInv, TypeOK, Generations
<1>2. OriginalVouched' /\ StateOrder'
  BY DEF IInv, OriginalVouched, StateOrder
<1> QED
  BY <1>1, <1>2 DEF IInv

LEMMA IdleStep ==
    ASSUME IInv, NEW w \in Workers, worker' = [worker EXCEPT ![w] = Idle]
    PROVE  (\A v \in Workers \ {w} : worker'[v] = worker[v]) /\ worker'[w].step = "idle"
  BY DEF IInv, WorkersOK, Idle

LEMMA GotoStep ==
    ASSUME IInv, NEW w \in Workers, NEW s \in Steps \ {"idle"}, Goto(w, s), UNCHANGED staged,
           worker[w].step # "idle"
    PROVE  /\ WorkersOK'
           /\ \A v \in Workers \ {w} : worker'[v] = worker[v]
           /\ worker'[w].step = s
<1>1. WorkersOK'
  BY WorkerSteps
<1> QED
  BY <1>1 DEF IInv, WorkersOK, Goto, Running

(* A failed request changes nothing but its worker. *)
LEMMA FailIInv ==
    ASSUME IInv, NEW w \in Workers, Fail(w), UNCHANGED <<staged, alive, stores>>
    PROVE  IInv'
<1>1. UNCHANGED <<active, pending, original, payloads, registered>>
  BY DEF Fail, stores, answers
<1>2. payloads \subseteq Names
  BY DEF IInv, TypeOK
<1> QED
  BY <1>1, <1>2, AnswerOK, IdleStep, QuietIInv

LEMMA ElementOf == ASSUME NEW S, NEW q \in Seq(S), NEW i \in 1 .. Len(q) PROVE q[i] \in S
  OBVIOUS

LEMMA TakeIInv ==
    ASSUME RegistrationAssumption, IInv, NEW w \in Workers, NEW r \in asked, Take(w, r)
    PROVE  IInv'
<1>1. /\ r \in Requests /\ r.of \in Generations /\ r.of \in alive
      /\ UNCHANGED <<staged, alive, active, pending, original, payloads>>
      /\ payloads \subseteq Names /\ registered \subseteq Generations
      /\ registered # {} => active # None
  BY DEF Take, IInv, TypeOK, StateOrder, stores
<1>2. CASE staged[r.of].bytes = "pdf"
  <2> DEFINE run == [step |-> "load", request |-> r, name |-> staged[r.of].name]
  <2>1. worker' = [worker EXCEPT ![w] = run] /\ UNCHANGED <<asked, registered, rejected>>
    BY <1>2 DEF Take, answers
  <2>2. staged[r.of] \in [name : Names, bytes : {"pdf", "junk"}]
    BY <1>1, ElementOf DEF IInv, TypeOK, Generations
  <2>3. run \in Running /\ run.name \in Names /\ run.request.of \in Generations /\ run.step = "load"
    BY <1>1, <2>2 DEF Running, Steps
  <2>4. WorkersOK' /\ (\A v \in Workers \ {w} : worker'[v] = worker[v]) /\ worker'[w].step = "load"
    BY <1>1, <2>1, <2>3 DEF IInv, WorkersOK, Generations
  <2> QED
    BY <1>1, <2>1, <2>4, QuietIInv
<1>3. CASE staged[r.of].bytes # "pdf"
  <2>1. asked' = asked \ {r} /\ rejected' = rejected \cup {r.of} /\ UNCHANGED <<worker, registered>>
    BY <1>3 DEF Take
  <2> QED
    BY <1>1, <2>1 DEF IInv, TypeOK, WorkersOK, OriginalVouched, StateOrder, Generations
<1> QED
  BY <1>2, <1>3

LEMMA LoadIInv ==
    ASSUME IInv, NEW w \in Workers, Load(w), UNCHANGED <<staged, alive>> PROVE IInv'
<1>1. UNCHANGED <<active, pending, original, payloads>> /\ payloads \subseteq Names
  BY DEF Load, stores, IInv, TypeOK
<1>2. CASE active # None
  BY <1>1, <1>2, AnswerOK, IdleStep, QuietIInv DEF Load
<1>3. CASE active = None
  <2>1. Goto(w, "stage") /\ UNCHANGED <<asked, registered, rejected>>
    BY <1>3 DEF Load, answers
  <2>2. "stage" \in Steps \ {"idle"} /\ worker[w].step # "idle"
    BY DEF Load, At, Steps
  <2>3. registered \subseteq Generations /\ (registered # {} => active # None)
    BY DEF IInv, TypeOK, StateOrder
  <2>4. WorkersOK' /\ (\A v \in Workers \ {w} : worker'[v] = worker[v]) /\ worker'[w].step = "stage"
    BY <2>1, <2>2, GotoStep
  <2> QED
    BY <1>1, <2>1, <2>3, <2>4, QuietIInv
<1> QED
  BY <1>2, <1>3

LEMMA StageIInv ==
    ASSUME IInv, NEW w \in Workers, Stage(w), UNCHANGED <<staged, alive>> PROVE IInv'
<1>1. /\ Goto(w, "reserve") /\ payloads' = payloads \cup {worker[w].name}
      /\ UNCHANGED <<asked, registered, rejected, active, pending, original>>
      /\ worker[w].step = "stage" /\ "reserve" \in Steps \ {"idle"}
  BY DEF Stage, answers, At, Steps
<1>2. payloads' \subseteq Names /\ registered \subseteq Generations /\ (registered # {} => active # None)
  BY <1>1 DEF IInv, TypeOK, StateOrder, WorkersOK
<1>3. WorkersOK' /\ (\A v \in Workers \ {w} : worker'[v] = worker[v]) /\ worker'[w].step = "reserve"
  BY <1>1, GotoStep
<1> QED
  BY <1>1, <1>2, <1>3, QuietIInv

(* A reservation is made only while there is no state. *)
LEMMA ReserveIInv ==
    ASSUME IInv, NEW w \in Workers, Reserve(w), UNCHANGED <<staged, alive>> PROVE IInv'
<1>1. /\ worker[w].step = "reserve" /\ "write" \in Steps \ {"idle"}
      /\ worker[w].name \in Names /\ UNCHANGED <<active, original, payloads>>
      /\ registered \subseteq Generations /\ payloads \subseteq Names
      /\ registered # {} => active # None
  BY DEF Reserve, At, Steps, IInv, WorkersOK, TypeOK, StateOrder
<1>2. CASE Fail(w) /\ UNCHANGED pending
  BY <1>1, <1>2, FailIInv DEF stores
<1>3. CASE Goto(w, "write") /\ UNCHANGED <<asked, registered, rejected>>
  <2>1. WorkersOK' /\ (\A v \in Workers \ {w} : worker'[v] = worker[v]) /\ worker'[w].step = "write"
    BY <1>1, <1>3, GotoStep
  <2>2. CASE UNCHANGED pending
    BY <1>1, <1>3, <2>1, <2>2, QuietIInv
  <2>3. CASE active = None /\ pending' = [name |-> worker[w].name, delivered |-> FALSE]
    <3>1. pending' \in [name : Names, delivered : BOOLEAN] /\ ~ pending'.delivered
      BY <1>1, <2>3
    <3> QED
      BY <1>1, <1>3, <2>1, <2>3, <3>1
      DEF IInv, TypeOK, OriginalVouched, StateOrder, Generations
  <2>4. UNCHANGED pending \/ (active = None /\ pending' = [name |-> worker[w].name, delivered |-> FALSE])
    BY DEF Reserve, check_state_precondition
  <2> QED
    BY <2>2, <2>3, <2>4
<1> QED
  BY <1>2, <1>3 DEF Reserve, answers

(* The original is stored before it is recorded ... *)
LEMMA WriteOriginalIInv ==
    ASSUME IInv, NEW w \in Workers, WriteOriginal(w), UNCHANGED <<staged, alive>> PROVE IInv'
<1>1. /\ worker[w].step = "write" /\ "checkpoint" \in Steps \ {"idle"}
      /\ UNCHANGED <<active, pending, payloads>>
  BY DEF WriteOriginal, At, Steps
<1>2. CASE Fail(w) /\ UNCHANGED original
  BY <1>1, <1>2, FailIInv DEF stores
<1>3. CASE original' = TRUE /\ Goto(w, "checkpoint") /\ UNCHANGED <<asked, registered, rejected>>
  <2>1. WorkersOK' /\ (\A v \in Workers \ {w} : worker'[v] = worker[v]) /\ worker'[w].step = "checkpoint"
    BY <1>1, <1>3, GotoStep
  <2> QED
    BY <1>1, <1>3, <2>1 DEF IInv, TypeOK, OriginalVouched, StateOrder, Generations
<1> QED
  BY <1>2, <1>3 DEF WriteOriginal, answers

(* ... and recorded before the state is published. *)
LEMMA SavePendingIInv ==
    ASSUME IInv, NEW w \in Workers, SavePending(w), UNCHANGED <<staged, alive>> PROVE IInv'
<1>1. /\ worker[w].step = "checkpoint" /\ "finalize" \in Steps \ {"idle"} /\ original
      /\ UNCHANGED <<active, original, payloads>>
  BY DEF SavePending, At, Steps, IInv, OriginalVouched
<1>2. CASE Fail(w) /\ UNCHANGED pending
  BY <1>1, <1>2, FailIInv DEF stores
<1>3. CASE /\ pending # None /\ pending' = [pending EXCEPT !.delivered = TRUE]
           /\ Goto(w, "finalize") /\ UNCHANGED <<asked, registered, rejected>>
  <2>1. WorkersOK' /\ (\A v \in Workers \ {w} : worker'[v] = worker[v]) /\ worker'[w].step = "finalize"
    BY <1>1, <1>3, GotoStep
  <2>2. pending \in [name : Names, delivered : BOOLEAN]
    BY <1>3 DEF IInv, TypeOK
  <2>3. pending' \in [name : Names, delivered : BOOLEAN]
    BY <1>3, <2>2
  <2> QED
    BY <1>1, <1>3, <2>1, <2>3 DEF IInv, TypeOK, OriginalVouched, StateOrder, Generations
<1> QED
  BY <1>2, <1>3 DEF SavePending, Reserved, answers

LEMMA FinalizeIInv ==
    ASSUME RegistrationAssumption, IInv, NEW w \in Workers, Finalize(w), UNCHANGED <<staged, alive>>
    PROVE  IInv'
<1>1. /\ worker[w].step = "finalize" /\ "clean" \in Steps \ {"idle"}
      /\ UNCHANGED <<original, payloads>>
  BY DEF Finalize, At, Steps
<1>2. CASE Fail(w) /\ UNCHANGED <<active, pending>>
  BY <1>1, <1>2, FailIInv DEF stores
<1>3. CASE /\ pending # None /\ pending.delivered /\ active' = pending.name /\ pending' = None
           /\ Goto(w, "clean") /\ UNCHANGED <<asked, registered, rejected>>
  <2>1. WorkersOK' /\ (\A v \in Workers \ {w} : worker'[v] = worker[v]) /\ worker'[w].step = "clean"
    BY <1>1, <1>3, GotoStep
  <2>2. active' \in Names /\ active' # None /\ original
    BY <1>3 DEF RegistrationAssumption, IInv, TypeOK, OriginalVouched
  <2> QED
    BY <1>1, <1>3, <2>1, <2>2 DEF IInv, TypeOK, OriginalVouched, StateOrder, Generations
<1> QED
  BY <1>2, <1>3 DEF Finalize, Reserved, answers

LEMMA CleanIInv ==
    ASSUME IInv, NEW w \in Workers, Clean(w), UNCHANGED <<staged, alive>> PROVE IInv'
<1>1. /\ Answer(w) /\ active # None /\ UNCHANGED <<active, pending, original>>
      /\ payloads' \subseteq Names
  BY DEF Clean, At, IInv, StateOrder, TypeOK
<1> QED
  BY <1>1, AnswerOK, IdleStep, QuietIInv

(* Another request takes the reservation up: it has its name. *)
LEMMA RecoverIInv ==
    ASSUME IInv, NEW w \in Workers, Recover(w) PROVE IInv'
<1> DEFINE run == [step |-> "write", request |-> None, name |-> pending.name]
<1>1. /\ worker' = [worker EXCEPT ![w] = run] /\ pending.name \in Names
      /\ UNCHANGED <<staged, alive, asked, registered, rejected, active, pending, original, payloads>>
  BY DEF Recover, answers, stores, IInv, TypeOK
<1>2. run \in Running /\ run.name \in Names /\ run.request = None /\ run.step = "write"
  BY <1>1 DEF Running, Steps
<1>3. WorkersOK' /\ (\A v \in Workers \ {w} : worker'[v] = worker[v]) /\ worker'[w].step = "write"
  BY <1>1, <1>2 DEF IInv, WorkersOK, Generations
<1>4. registered \subseteq Generations /\ payloads \subseteq Names /\ (registered # {} => active # None)
  BY DEF IInv, TypeOK, StateOrder
<1> QED
  BY <1>1, <1>3, <1>4, QuietIInv

(* Every step keeps the invariant. *)
LEMMA NextIInv == ASSUME RegistrationAssumption, IInv, [Next]_vars PROVE IInv'
<1>1. ASSUME NEW g \in Generations, Expire(g) PROVE IInv'
  BY <1>1 DEF Expire, answers, stores, IInv, TypeOK, WorkersOK, OriginalVouched, StateOrder, Generations
<1>2. ASSUME NEW w \in Workers, Step(w) PROVE IInv'
  BY <1>2, LoadIInv, StageIInv, ReserveIInv, WriteOriginalIInv, SavePendingIInv, FinalizeIInv, CleanIInv
  DEF Step
<1>3. ASSUME NEW w \in Workers, Crash(w) PROVE IInv'
  BY <1>3, FailIInv DEF Crash
<1>4. ASSUME UNCHANGED vars PROVE IInv'
  BY <1>4 DEF vars, answers, stores, IInv, TypeOK, WorkersOK, OriginalVouched, StateOrder, Generations
<1> QED
  BY <1>1, <1>2, <1>3, <1>4, UploadIInv, TakeIInv, RecoverIInv DEF Next

(* The inductive invariant. *)
THEOREM Invariance == ASSUME RegistrationAssumption PROVE Spec => []IInv
  BY InitIInv, NextIInv, PTL DEF Spec

(* Types of the record, the stores and the running requests. *)
THEOREM TypeCorrect == ASSUME RegistrationAssumption PROVE Spec => []TypeOK
<1>1. IInv => TypeOK
  BY DEF IInv
<1> QED
  BY <1>1, Invariance, PTL

(* Whoever was told that the original is registered finds its state and the
   stored original, however many requests race, crash and are made again. *)
THEOREM Answered == ASSUME RegistrationAssumption PROVE Spec => []AnsweredIsRegistered
<1>1. IInv => AnsweredIsRegistered
  BY DEF IInv, OriginalVouched, StateOrder, AnsweredIsRegistered
<1> QED
  BY <1>1, Invariance, PTL

(* No step replaces the first registration: only Finalize writes the state,
   and the reservation it publishes rules an earlier state out. *)
THEOREM FirstRegistration == ASSUME RegistrationAssumption PROVE Spec => FirstNameStays
<1>1. ASSUME IInv, [Next]_vars PROVE FirstNameStaysStep
  <2>1. ASSUME NEW w \in Workers, Finalize(w) PROVE FirstNameStaysStep
    BY <1>1, <2>1 DEF FirstNameStaysStep, Finalize, Reserved, IInv, StateOrder
  <2>2. ASSUME NEW w \in Workers, Step(w) PROVE FirstNameStaysStep
    BY <2>1, <2>2 DEF FirstNameStaysStep, Step, Load, Stage, Reserve, WriteOriginal, SavePending, Clean, stores
  <2>3. ASSUME NEW w \in Workers, (\E r \in asked : Take(w, r)) \/ Recover(w) \/ Crash(w) PROVE UNCHANGED active
    BY <2>3 DEF Take, Recover, Crash, stores
  <2>4. ASSUME NEW n \in Names, NEW b \in {"pdf", "junk"}, NEW d \in BOOLEAN, Upload(n, b, d) PROVE UNCHANGED active
    BY <2>4 DEF Upload, stores
  <2>5. ASSUME NEW g \in Generations, Expire(g) PROVE UNCHANGED active
    BY <2>5 DEF Expire, stores
  <2>6. ASSUME UNCHANGED vars PROVE UNCHANGED active
    BY <2>6 DEF vars, stores
  <2> QED
    BY <1>1, <2>2, <2>3, <2>4, <2>5, <2>6 DEF Next, FirstNameStaysStep
<1>2. ASSUME IInv, [Next]_vars PROVE [FirstNameStaysStep]_vars
  BY <1>1, <1>2
<1> QED
  BY <1>2, Invariance, PTL DEF Spec, FirstNameStays
=============================================================================
