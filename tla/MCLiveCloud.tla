----------------------------- MODULE MCLiveCloud ----------------------------
(***************************************************************************)
(* What must happen in the cloud: pending commits end, events are          *)
(* accepted, uploads are answered, the Drive job takes edits in and brings *)
(* outputs back. A behaviour follows one instance, the scenario; the       *)
(* variables of the other modules are Parked, those of a module it EXTENDS *)
(* at rest.                                                                *)
(***************************************************************************)
EXTENDS Naturals, Sequences, Functions

CONSTANTS Scenarios, Parked, None, w1, w2, g1, a, b,
          reg, sup, res, original_pdf, view, manifest, marker

VARIABLES scenario,   \* the instance a behaviour follows
          objects, edited, faults,
          staged, alive, asked, registered, rejected, original, crashes, expiries,
          files, clock, approvals, checkpoint, evidence, broker, outputs, announced, job,
          nextId, left,
          active, pending, payloads, worker

outboxVars == <<objects, edited, faults>>
registrationVars == <<staged, alive, asked, registered, rejected, original, crashes,
                     expiries>>
driveVars == <<files, clock, approvals, checkpoint, evidence, broker, outputs, announced,
              job, nextId, left>>
vars == <<scenario, outboxVars, registrationVars, driveVars, active, pending, payloads,
          worker>>

\* A registration, a device event and a resolution, with their outputs and release signals.
ObjectsOf == [e \in {reg, sup, res} |->
    CASE e = reg -> <<original_pdf>> [] e = sup -> <<view>> [] e = res -> <<view, manifest>>]
SignalsOf == [e \in {reg, sup, res} |-> IF e = res THEN <<marker>> ELSE <<>>]

Registering == scenario \in {"services", "service"}
InDrive == scenario = "drive"

\* A device's edit, or two crashes, while the job brings the document in.
Calm == [jobs |-> {g1}, edits |-> 0, moves |-> 0, others |-> 0, crashes |-> 0, eventarc |-> FALSE]
TestBudgets == {[Calm EXCEPT !.edits = 1], [Calm EXCEPT !.crashes = 2]}

Commits == INSTANCE Outbox
    WITH Workers <- {w1}, Events <- {reg, sup, res}, Registration <- reg,
         Paths <- {original_pdf, view, manifest, marker}, Tracked <- {view},
         ObjWrites <- ObjectsOf, RelWrites <- SignalsOf,
         EditOf <- [e \in {reg, sup, res} |-> None], MaxFaults <- 3
Services == INSTANCE Registration
    WITH Workers <- {w1, w2}, Names <- {a, b}, MaxUploads <- 2, MaxCrashes <- 0,
         MaxExpiries <- 0
Service == INSTANCE Registration
    WITH Workers <- {w1}, Names <- {a, b}, MaxUploads <- 2, MaxCrashes <- 1,
         MaxExpiries <- 0
Drive == INSTANCE DriveGateway
    WITH Jobs <- {g1}, MaxFiles <- 4, Budgets <- TestBudgets

ASSUME Services!RegistrationAssumption /\ Service!RegistrationAssumption
       /\ Drive!DriveAssumption

NoOutbox == objects = Parked /\ edited = Parked /\ faults = Parked
NoRegistration == staged = Parked /\ alive = Parked /\ asked = Parked
               /\ registered = Parked /\ rejected = Parked /\ original = Parked
               /\ crashes = Parked /\ expiries = Parked
NoDrive == files = Parked /\ clock = Parked /\ approvals = Parked /\ checkpoint = Parked
        /\ evidence = Parked /\ broker = Parked /\ outputs = Parked /\ announced = Parked
        /\ job = Parked /\ nextId = Parked /\ left = Parked

Init ==
    /\ scenario \in Scenarios
    /\ \/ scenario = "outbox" /\ Commits!Init /\ NoRegistration /\ NoDrive
       \/ scenario = "services" /\ Services!Init /\ NoOutbox /\ NoDrive
       \/ scenario = "service" /\ Service!Init /\ NoOutbox /\ NoDrive
       \/ scenario = "drive" /\ Drive!Init /\ active = Parked /\ pending = Parked
          /\ payloads = Parked /\ worker = Parked /\ NoOutbox /\ NoRegistration

Next ==
    /\ UNCHANGED scenario
    /\ \/ scenario = "outbox" /\ Commits!Next /\ UNCHANGED <<registrationVars, driveVars>>
       \/ scenario = "services" /\ Services!Next /\ UNCHANGED <<outboxVars, driveVars>>
       \/ scenario = "service" /\ Service!Next /\ UNCHANGED <<outboxVars, driveVars>>
       \/ /\ scenario = "drive" /\ Drive!Next
          /\ UNCHANGED <<active, pending, payloads, worker, outboxVars, registrationVars>>

\* Events and requests that are delivered again and again until they are answered.
EventSeq == <<reg, sup, res>>
RequestSeq == <<Services!Request(1, "event"), Services!Request(1, "job"),
                Services!Request(2, "event"), Services!Request(2, "job")>>
Redelivered(i) ==
    \/ /\ scenario = "outbox" /\ i \in DOMAIN EventSeq /\ Commits!Receive(w1, EventSeq[i])
       /\ UNCHANGED registrationVars
    \/ /\ scenario = "services" /\ \E w \in {w1, w2} : Services!Take(w, RequestSeq[i])
       /\ UNCHANGED outboxVars
    \/ /\ scenario = "service" /\ Service!Take(w1, RequestSeq[i])
       /\ UNCHANGED outboxVars

\* The fairness of each module, in its scenario.
Fairness ==
    /\ WF_(Commits!vars)(scenario = "outbox" /\ Commits!Step(w1))
    /\ \A w \in {w1, w2} : WF_(Services!vars)(scenario = "services" /\ Services!Step(w))
    /\ WF_(Service!vars)(scenario = "service" /\ Service!Step(w1))
    /\ \A i \in DOMAIN RequestSeq : SF_<<outboxVars, registrationVars, worker>>(Redelivered(i))
    /\ WF_(Drive!vars)(InDrive /\ Drive!JobStep(g1))
    /\ WF_(Drive!vars)(InDrive /\ \E f \in DOMAIN files : Drive!Approve(f))
    /\ WF_(Drive!vars)(InDrive /\ \E e \in DOMAIN evidence : Drive!Announce(e))

Spec == Init /\ [][Next]_vars /\ Fairness
-----------------------------------------------------------------------------
\* Outbox and Registration: every commit and every request ends.
\*   - PendingResolves: once the crashes stop, redelivered events drive every
\*     pending commit to its end.
\*   - EventuallyAccepted: every event the broker is sent becomes part of the
\*     canonical history.
\*   - EveryUploadAnswered: every upload is answered through crashes,
\*     redeliveries and two services with two names.
CommitsEnd ==
    /\ (scenario = "outbox" /\ pending # None) ~> (scenario = "outbox" /\ pending = None)
    /\ \A e \in {reg, sup, res} : (scenario = "outbox") ~> (scenario = "outbox" /\ e \in Range(Commits!Log))
    /\ \A g \in 1 .. 2 : (Registering /\ g \in alive) ~> (Registering /\ Services!Settled(g))

\* DriveGateway: edits and outputs arrive.
\*   - DriveEditsArrive: what a bound file last contains is handed to the
\*     broker and accepted, in spite of crashes and of files that wait for an
\*     approval.
\*   - OutputsArrive: every output of the broker is copied to the Drive
\*     folder of its device.
DriveArrives ==
    /\ \A f \in 1 .. 4 : (InDrive /\ f \in DOMAIN checkpoint.bound) ~> (InDrive /\ Drive!TakenIn(f))
    /\ \A n \in 1 .. 4 : (InDrive /\ n \in DOMAIN outputs) ~> (InDrive /\ Drive!Copied(n))
=============================================================================
