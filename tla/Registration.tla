---------------------------- MODULE Registration ----------------------------
(***************************************************************************)
(* Registering one immutable original (broker.rs register_document) from   *)
(* marked uploads under Staging/ and from the Drive job, whose evidence is *)
(* such an upload too, so that two services register it at once.  The      *)
(* commit goes through the outbox (Outbox.tla has its other commits); this *)
(* module asks what becomes of a reservation under competing names.        *)
(***************************************************************************)
EXTENDS Naturals, Sequences

CONSTANTS Workers,      \* Cloud Run instances and Drive jobs
          Names,        \* file names the same PDF is uploaded under
          MaxUploads, MaxCrashes, MaxExpiries,
          None

RegistrationAssumption == {MaxUploads, MaxCrashes, MaxExpiries} \subseteq Nat /\ None \notin Names

VARIABLES staged,      \* the uploads so far: generation -> name, bytes, sender
          alive,       \* generations that still exist
          asked,       \* requests to answer: Eventarc events and Drive approvals
          registered, rejected,   \* generations answered either way
          active, pending, original, payloads,   \* the canonical record, Originals/, BrokerOutbox/
          worker, crashes, expiries

stores == <<active, pending, original, payloads>>
answers == <<asked, registered, rejected>>
vars == <<staged, alive, answers, stores, worker, crashes, expiries>>

Generations == 1 .. Len(staged)
Idle == [step |-> "idle", request |-> None, name |-> None]

Init == /\ staged = <<>> /\ alive = {} /\ asked = {} /\ registered = {} /\ rejected = {}
        /\ active = None /\ pending = None /\ original = FALSE /\ payloads = {}
        /\ worker = [w \in Workers |-> Idle] /\ crashes = 0 /\ expiries = 0
-----------------------------------------------------------------------------
(* The uploads and the lifecycle rule of Staging/ *)

\* An operator's upload asks through its event; the Drive job asks itself, and
\* its evidence object raises an event as well.
Request(g, via) == [of |-> g, via |-> via]

Upload(name, bytes, drive) ==
    /\ Len(staged) < MaxUploads /\ (drive => bytes = "pdf")
    /\ staged' = Append(staged, [name |-> name, bytes |-> bytes])
    /\ LET g == Len(staged')
       IN  /\ alive' = alive \cup {g}
           /\ asked' = asked \cup {Request(g, "event")}
                             \cup (IF drive THEN {Request(g, "job")} ELSE {})
    /\ UNCHANGED <<registered, rejected, stores, worker, crashes, expiries>>

\* The object is a day old.
Expire(g) == /\ g \in alive /\ expiries < MaxExpiries /\ expiries' = expiries + 1
             /\ alive' = alive \ {g}
             /\ UNCHANGED <<staged, answers, stores, worker, crashes>>
-----------------------------------------------------------------------------
(* One request *)

At(w, step) == worker[w].step = step
Goto(w, step) == worker' = [worker EXCEPT ![w].step = step]
\* HTTP 500, or a failed job: the request is made again.
Fail(w) == worker' = [worker EXCEPT ![w] = Idle] /\ UNCHANGED answers

\* register_storage_event reads the generation of the event, register_document
\* the live object, which must have the expected generation.
Take(w, r) ==
    /\ At(w, "idle") /\ r \in asked /\ r.of \in alive
    /\ \A v \in Workers : worker[v].request # r
    /\ IF staged[r.of].bytes = "pdf"
       THEN /\ worker' = [worker EXCEPT ![w] = [step |-> "load", request |-> r,
                                               name |-> staged[r.of].name]]
            /\ UNCHANGED answers
       ELSE \* not a readable PDF: rejected, and acknowledged
            /\ asked' = asked \ {r} /\ rejected' = rejected \cup {r.of}
            /\ UNCHANGED <<worker, registered>>
    /\ UNCHANGED <<staged, alive, stores, crashes, expiries>>

Answer(w) == /\ worker' = [worker EXCEPT ![w] = Idle]
             /\ LET r == worker[w].request
                IN  IF r = None THEN UNCHANGED answers
                    ELSE /\ asked' = asked \ {r} /\ registered' = registered \cup {r.of}
                         /\ UNCHANGED rejected

\* Mutant: a reservation counts as a registration.
LoadReserved(w) == /\ At(w, "load")
                   /\ IF active # None \/ pending # None THEN Answer(w)
                      ELSE Goto(w, "stage") /\ UNCHANGED answers
                   /\ UNCHANGED stores

\* register_document: a state that exists is the answer, whatever its name (it
\* was created with its page count: older states are out of this model).
Load(w) == /\ At(w, "load")
           /\ IF active # None THEN Answer(w) ELSE Goto(w, "stage") /\ UNCHANGED answers
           /\ UNCHANGED stores

\* commit: the original's path is free or holds these bytes; payloads are
\* staged under the commit id, a hash of all that is written, the name included.
Stage(w) == /\ At(w, "stage") /\ Goto(w, "reserve")
            /\ payloads' = payloads \cup {worker[w].name}
            /\ UNCHANGED <<answers, active, pending, original>>

\* Mutant: the state's precondition is not checked again.
ReserveBlind(w) ==
    /\ At(w, "reserve")
    /\ \/ pending # None /\ pending.name = worker[w].name /\ Goto(w, "write") /\ UNCHANGED <<answers, pending>>
       \/ /\ pending = None
          /\ pending' = [name |-> worker[w].name, delivered |-> FALSE]
          /\ Goto(w, "write") /\ UNCHANGED answers
       \/ pending # None /\ pending.name # worker[w].name /\ Fail(w) /\ UNCHANGED pending
    /\ UNCHANGED <<active, original, payloads>>

\* The state is written under DoesNotExist.
check_state_precondition == active = None

\* reserve: the same commit is taken up, another one is in the way.
Reserve(w) ==
    /\ At(w, "reserve")
    /\ \/ pending # None /\ pending.name = worker[w].name /\ Goto(w, "write") /\ UNCHANGED <<answers, pending>>
       \/ /\ pending = None /\ check_state_precondition
          /\ pending' = [name |-> worker[w].name, delivered |-> FALSE]
          /\ Goto(w, "write") /\ UNCHANGED answers
       \/ /\ IF pending = None THEN ~check_state_precondition ELSE pending.name # worker[w].name
          /\ Fail(w) /\ UNCHANGED pending
    /\ UNCHANGED <<active, original, payloads>>

\* deliver_write: the payload is read, the original written create-only or
\* found with the same bytes ...
WriteOriginal(w) ==
    /\ At(w, "write")
    /\ \/ /\ worker[w].name \in payloads
          /\ original' = TRUE /\ Goto(w, "checkpoint") /\ UNCHANGED answers
       \/ worker[w].name \notin payloads /\ Fail(w) /\ UNCHANGED original
    /\ UNCHANGED <<active, pending, payloads>>

Reserved(w) == pending # None /\ pending.name = worker[w].name

\* ... and its generation recorded, if the reservation is still there.
SavePending(w) ==
    /\ At(w, "checkpoint")
    /\ \/ /\ Reserved(w) /\ pending' = [pending EXCEPT !.delivered = TRUE]
          /\ Goto(w, "finalize") /\ UNCHANGED answers
       \/ ~Reserved(w) /\ Fail(w) /\ UNCHANGED pending
    /\ UNCHANGED <<active, original, payloads>>

Finalize(w) ==
    /\ At(w, "finalize")
    /\ \/ /\ Reserved(w) /\ pending.delivered
          /\ active' = pending.name /\ pending' = None
          /\ Goto(w, "clean") /\ UNCHANGED answers
       \/ ~Reserved(w) /\ Fail(w) /\ UNCHANGED <<active, pending>>
    /\ UNCHANGED <<original, payloads>>

\* The delivered payload is removed and the state read back.
Clean(w) == /\ At(w, "clean") /\ Answer(w)
            /\ payloads' = payloads \ {worker[w].name}
            /\ UNCHANGED <<active, pending, original>>

\* Any other request about the document, a conflict listing say, recovers the
\* reservation first.  Registration itself does not.
Recover(w) == /\ At(w, "idle") /\ pending # None
              /\ worker' = [worker EXCEPT ![w] = [step |-> "write", request |-> None,
                                                  name |-> pending.name]]
              /\ UNCHANGED <<staged, alive, answers, stores, crashes, expiries>>

Crash(w) == /\ ~At(w, "idle") /\ crashes < MaxCrashes /\ crashes' = crashes + 1
            /\ Fail(w) /\ UNCHANGED <<staged, alive, stores, expiries>>

Step(w) == /\ \/ Load(w) \/ Stage(w) \/ Reserve(w) \/ WriteOriginal(w)
              \/ SavePending(w) \/ Finalize(w) \/ Clean(w)
           /\ UNCHANGED <<staged, alive, crashes, expiries>>
Next == \/ \E n \in Names, b \in {"pdf", "junk"}, d \in BOOLEAN : Upload(n, b, d)
        \/ \E g \in Generations : Expire(g)
        \/ \E w \in Workers : (\E r \in asked : Take(w, r)) \/ Step(w) \/ Recover(w) \/ Crash(w)

Requests == {Request(g, v) : g \in 1 .. MaxUploads, v \in {"event", "job"}}
\* A request begun goes on; an unanswered one is made again and again, though
\* other requests come in between (Eventarc's retries, the scheduled job).
\* Nobody has to upload anything or to ask about conflicts.
Spec == /\ Init /\ [][Next]_vars
        /\ \A w \in Workers : WF_vars(Step(w))
        /\ \A r \in Requests : SF_vars(\E w \in Workers : Take(w, r))
-----------------------------------------------------------------------------
\* Types of the record, the stores and the running requests
\* (outbox.rs StateRecord, PendingCommit).
TypeOK == /\ staged \in Seq([name : Names, bytes : {"pdf", "junk"}])
          /\ alive \subseteq Generations /\ asked \subseteq Requests
          /\ registered \cup rejected \subseteq Generations
          /\ active \in Names \cup {None} /\ payloads \subseteq Names
          /\ pending \in [name : Names, delivered : BOOLEAN] \cup {None}

\* Whoever was told that the original is registered finds its state and the
\* stored original, however many requests raced for the registration
\* (runtime.rs register_storage_event; drive runtime.rs register_original).
AnsweredIsRegistered == registered # {} => active # None /\ original

\* The first registration stays: a later one under another name, begun before
\* it was visible, replaces neither the state nor the name
\* (broker.rs register_document, the create precondition of its state).
FirstNameStaysStep == active # None => active' = active
FirstNameStays == [][FirstNameStaysStep]_vars

\* Every upload is answered in the end while its object exists: through crashes,
\* redeliveries and the race of two services under two names a retry always
\* finds its way, since failures of a pending outbox "remain eligible for
\* Eventarc retry" and recovery may be "arbitrarily delayed"
\* (docs/INKBRIDGE_CLOUD_RUNTIME.md:36 and 159).
Settled(g) == g \in registered \cup rejected \/ g \notin alive
EveryUploadAnswered == \A g \in 1 .. MaxUploads : g \in alive ~> Settled(g)
=============================================================================
