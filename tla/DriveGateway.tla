---------------------------- MODULE DriveGateway ----------------------------
(***************************************************************************)
(* The Google Drive gateway: the planner of inkbridge-drive-gateway and    *)
(* the job of inkbridge-drive-runtime that drives it, for one document.    *)
(* Each run loads the Firestore checkpoint, finishes pending inputs and    *)
(* outputs, takes one page of Drive changes and moves the page token; the  *)
(* checkpoint is compared and swapped as a value.  Every call to Drive,    *)
(* Cloud Storage, the broker or Firestore is a step of its own, so several *)
(* jobs, the people editing, the folder transport and the Eventarc copies  *)
(* of the uploaded evidence interleave with it.                            *)
(***************************************************************************)
EXTENDS Naturals, FiniteSets

CONSTANTS Jobs,          \* pollers
          None,
          MaxFiles,      \* Drive file ids, the generated ones included
          Budgets        \* what may happen in a behaviour: one of these bounds

\* The pollers that run at the same time, user edits and touches of Drive files, files
\* put in the trash or another folder, events of the folder transport, crashes;
\* whether the bucket's trigger also delivers the evidence.
DriveAssumption ==
    /\ MaxFiles \in Nat /\ MaxFiles >= 2
    /\ Budgets \subseteq [jobs : SUBSET Jobs, edits : Nat, moves : Nat, others : Nat,
                         crashes : Nat, eventarc : BOOLEAN]

VARIABLES files,      \* Drive: file id -> its current revision
          clock,      \* the change feed's position
          approvals,  \* onboarding approvals: file id -> the approved revision
          checkpoint, \* the Firestore checkpoint
          evidence,   \* immutable uploads: Drive event -> its metadata
          broker,     \* the canonical state the broker keeps
          outputs,    \* broker outputs: number -> event, target, revisions
          announced,  \* evidence Eventarc has delivered
          job,        \* the local state of each job
          nextId,     \* files.generateIds
          left        \* what is left of the budget

vars == <<files, clock, approvals, checkpoint, evidence, broker, outputs, announced,
          job, nextId, left>>
driveVars == <<files, clock, approvals, nextId>>
cloudVars == <<checkpoint, evidence, broker, outputs, announced>>

Original == 1   \* the clean PDF in the BOOX folder
Export == 2     \* the first native export in the Supernote folder
Sides == {"boox", "supernote"}
Pairs == [Sides -> Nat]
Zero == [s \in Sides |-> 0]
Other(s) == IF s = "boox" THEN "supernote" ELSE "boox"
MaxOf(a, b) == IF a >= b THEN a ELSE b

\* Content is told apart by who wrote it: a device, the broker, the transport.
Bytes(by, n) == [by |-> by, n |-> n]
Clean == Bytes("user", 0)

\* drive_event_id: file, Drive version and content hash.
EventOf(f, rev) == [file |-> f, version |-> rev.version, content |-> rev.content]

Empty == [token |-> None, bound |-> <<>>, accepted |-> <<>>, front |-> <<>>,
          processed |-> {}, pendIn |-> {}, pendOut |-> {}, delivered |-> {}]

Idle == [pc |-> "idle", base |-> Empty, cp |-> Empty, todo |-> {}, succ |-> 0,
         phase |-> "recover", item |-> None, input |-> None, result |-> "none"]

Init ==
    /\ files = [f \in {Original} |-> [version |-> 1, content |-> Clean, place |-> "boox",
                                      changed |-> 1, delivery |-> 0, edited |-> FALSE]]
    /\ clock = 1
    /\ approvals = <<>>
    /\ checkpoint = Empty
    /\ evidence = <<>>
    /\ broker = [registered |-> FALSE, rev |-> Zero, content |-> [s \in Sides |-> None],
                 processed |-> {}, conflicts |-> {}, view |-> 0]
    /\ outputs = <<>>
    /\ announced = {}
    /\ job = [j \in Jobs |-> Idle]
    /\ nextId = 3
    /\ left \in Budgets

---------------------------------------------------------------------------
(* DriveGatewayCheckpoint::validate, and what it is asked. *)

Binding(c, f) == f \in DOMAIN c.bound

Valid(c) ==
    /\ \A p \in c.pendOut : ~ \E d \in c.delivered : d.delivery = p.delivery
    /\ \A d \in c.delivered : Binding(c, d.file) /\ c.bound[d.file] = d.target
    /\ DOMAIN c.accepted \subseteq DOMAIN c.bound
    /\ DOMAIN c.front = DOMAIN c.bound
    /\ \A p \in c.pendIn :
        /\ p.event \in c.processed
        /\ \A q \in c.pendIn : q.event.file = p.event.file => q = p
        /\ Binding(c, p.event.file) /\ c.bound[p.event.file] = p.side
        /\ c.front[p.event.file] = p.previous
        /\ p.proposed[p.side] > p.previous[p.side]
        /\ p.proposed[Other(p.side)] = p.previous[Other(p.side)]

With(fun, k, v) == [x \in DOMAIN fun \cup {k} |-> IF x = k THEN v ELSE fun[x]]

---------------------------------------------------------------------------
(* The broker as the gateway and Eventarc reach it (Broker.tla has the     *)
(* details): one event, its outcome and the canonical state it leaves.     *)

Outcome(b, id, side, rev, based, content) ==
    IF id \in b.processed THEN "duplicate"
    ELSE IF rev <= based[side] THEN "rejected"
    ELSE IF rev <= b.rev[side]
         THEN IF content # b.content[side] THEN "conflict" ELSE "stale"
    ELSE IF rev # b.rev[side] + 1
            /\ ~(based[side] = rev - 1 /\ [side |-> side, rev |-> rev - 1] \in b.conflicts)
         THEN "rejected"
    ELSE IF based # b.rev THEN "conflict" ELSE "applied"

Receive(id, side, rev, based, content) ==
    LET o == Outcome(broker, id, side, rev, based, content)
        n == Cardinality(DOMAIN outputs) + 1
        revs == [broker.rev EXCEPT ![side] = rev]
    IN  /\ broker' = CASE o \in {"duplicate", "rejected"} -> broker
                       [] o = "stale" -> [broker EXCEPT !.processed = @ \cup {id}]
                       [] o = "conflict" ->
                            [broker EXCEPT !.processed = @ \cup {id},
                                           !.conflicts = @ \cup {[side |-> side, rev |-> rev]}]
                       [] o = "applied" ->
                            [broker EXCEPT !.processed = @ \cup {id}, !.rev = revs,
                                           !.content[side] = content,
                                           !.view = IF side = "supernote" THEN n ELSE @]
        /\ outputs' = IF o = "applied"
                      THEN With(outputs, n, [event |-> id, target |-> Other(side), revs |-> revs])
                      ELSE outputs

\* The bucket's trigger delivers the same object under Eventarc's own event id.
ViaDrive(e) == [via |-> "drive", event |-> e]
ViaEventarc(e) == [via |-> "eventarc", event |-> e]

Announce(e) ==
    /\ left.eventarc /\ e \in DOMAIN evidence \ announced
    /\ LET m == evidence[e] IN Receive(ViaEventarc(e), m.side, m.rev, m.based, e.content)
    /\ announced' = announced \cup {e}
    /\ UNCHANGED <<driveVars, checkpoint, evidence, job, left>>

\* The folder transport uploads an export of its own, based on what is canonical.
OtherEvent(side) ==
    /\ left.others > 0 /\ broker.registered
    /\ LET content == Bytes("folder", left.others)
           id == [via |-> "folder", event |-> [file |-> 0, version |-> 0, content |-> content]]
       IN  Receive(id, side, broker.rev[side] + 1, broker.rev, content)
    /\ left' = [left EXCEPT !.others = @ - 1]
    /\ UNCHANGED <<driveVars, checkpoint, evidence, announced, job>>

---------------------------------------------------------------------------
(* People and devices on Drive. *)

Changed(f, r) == /\ files' = With(files, f, [r EXCEPT !.changed = clock + 1])
                 /\ clock' = clock + 1

\* A device writes new or earlier bytes, or the file is only renamed (n = 2): Drive
\* makes a new version each time.
EditFile(f, n) ==
    /\ left.edits > 0
    /\ files[f].place \in Sides
    /\ files[f].delivery # 0 => files[f].place = "boox"
    /\ LET r == files[f] IN
        Changed(f, [r EXCEPT !.version = @ + 1,
                             !.content = IF n = 2 THEN @ ELSE Bytes("user", n),
                             !.edited = @ \/ n # 2])
    /\ left' = [left EXCEPT !.edits = @ - 1]
    /\ UNCHANGED <<cloudVars, approvals, nextId, job>>

MoveFile(f, place) ==
    /\ left.moves > 0 /\ files[f].place \in Sides
    /\ Changed(f, [files[f] EXCEPT !.version = @ + 1, !.place = place])
    /\ left' = [left EXCEPT !.moves = @ - 1]
    /\ UNCHANGED <<cloudVars, approvals, nextId, job>>

\* The Supernote syncs its first export.
CreateExport ==
    /\ Export \notin DOMAIN files
    /\ Changed(Export, [version |-> 1, content |-> Bytes("user", 1), place |-> "supernote",
                        changed |-> 0, delivery |-> 0, edited |-> TRUE])
    /\ UNCHANGED <<cloudVars, approvals, nextId, job, left>>

\* The onboarding flow approves an exact revision: a clean original, or the
\* first artifact of a device, which builds on the original.
Approve(f) ==
    /\ f \in ({Original, Export} \cap DOMAIN files) \ DOMAIN checkpoint.bound
    /\ f = Original => files[f].content = Clean
    /\ approvals' = With(approvals, f, EventOf(f, files[f]))
    /\ approvals' # approvals
    /\ UNCHANGED <<cloudVars, files, clock, nextId, job, left>>

---------------------------------------------------------------------------
(* The job. *)

Goto(j, pc) == job' = [job EXCEPT ![j].pc = pc]
Stop(j) == job' = [job EXCEPT ![j] = Idle]

\* persist: validate, then compare and swap on what this job loaded; a stale
\* job stops, and so does one whose checkpoint is refused.
Persist(j, c, next) ==
    IF ~Valid(c) THEN job' = [job EXCEPT ![j] = [Idle EXCEPT !.result = "refused"]]
                      /\ UNCHANGED checkpoint
    ELSE IF checkpoint # job[j].base THEN Stop(j) /\ UNCHANGED checkpoint
    ELSE /\ checkpoint' = c
         /\ job' = [job EXCEPT ![j] = [next EXCEPT !.cp = c, !.base = c]]

Start(j) ==
    /\ job[j].pc = "idle" /\ j \in left.jobs
    /\ job' = [job EXCEPT ![j] = [Idle EXCEPT !.pc = "inputs", !.base = checkpoint,
                                              !.cp = checkpoint]]
    /\ UNCHANGED <<driveVars, cloudVars, left>>

\* recover_pending_inputs, and the tail of process_bound_change.
Process(j, p) ==
    /\ job[j].pc \in {"inputs", "finish"} /\ p \in job[j].cp.pendIn
    /\ job[j].pc = "finish" => p = job[j].input
    /\ LET m == evidence[p.event] IN
        /\ Receive(ViaDrive(p.event), m.side, m.rev, m.based, p.event.content)
        /\ job' = [job EXCEPT ![j].pc = "outcome", ![j].input = p,
                              ![j].result = Outcome(broker, ViaDrive(p.event), m.side, m.rev,
                                                    m.based, p.event.content)]
    /\ UNCHANGED <<driveVars, checkpoint, evidence, announced, left>>

\* output_for_event: manifests have a path of their own, the BOOX view only
\* its latest generation.
OutputFor(id) ==
    {n \in DOMAIN outputs : outputs[n].event = id
                            /\ (outputs[n].target = "boox" => n = broker.view)}

\* Mutants: the accepted content is not recorded, the pending record is kept.
AcceptInputForgets(c, p) ==
    [c EXCEPT !.pendIn = @ \ {p}, !.front = With(@, p.event.file, p.proposed)]
AcceptInputPending(c, p) ==
    [c EXCEPT !.front = With(@, p.event.file, p.proposed),
              !.accepted = With(@, p.event.file, p.event.content)]

AcceptInput(c, p) ==
    [c EXCEPT !.pendIn = @ \ {p}, !.front = With(@, p.event.file, p.proposed),
              !.accepted = With(@, p.event.file, p.event.content)]
RejectInput(c, p) == [c EXCEPT !.pendIn = @ \ {p}]

\* prepare_drive_output and reserve_drive_output with a pre-generated file id.
ReserveOutput(c, n, id) ==
    IF \E d \in c.pendOut \cup c.delivered : d.delivery = n THEN c
    ELSE [c EXCEPT !.pendOut = @ \cup {[delivery |-> n, file |-> id, target |-> outputs[n].target,
                                        revs |-> outputs[n].revs]}]

\* finish_pending_input, after the broker has answered.
FinishInput(j) ==
    LET me == job[j]
        found == OutputFor(ViaDrive(me.input.event))
        next == [me EXCEPT !.pc = "outputs", !.input = None]
    IN  /\ me.pc = "outcome"
        /\ \/ /\ me.result = "rejected"
              /\ Persist(j, RejectInput(me.cp, me.input), next)
              /\ UNCHANGED nextId
           \/ /\ me.result # "rejected" /\ found = {}
              /\ IF me.result \in {"applied", "duplicate"}
                 THEN Stop(j) /\ UNCHANGED checkpoint
                 ELSE Persist(j, AcceptInput(me.cp, me.input), next)
              /\ UNCHANGED nextId
           \/ /\ me.result # "rejected" /\ nextId <= MaxFiles
              /\ \E n \in found :
                    Persist(j, ReserveOutput(AcceptInput(me.cp, me.input), n, nextId), next)
              /\ nextId' = nextId + 1
        /\ UNCHANGED <<files, clock, approvals, evidence, broker, outputs, announced, left>>

\* Mutant: the create does not use the reserved id.
CreateOutputFresh(j, p) ==
    /\ job[j].pc = "outputs" /\ p \in job[j].cp.pendOut
    /\ \E f \in 3 .. MaxFiles \ DOMAIN files :
        Changed(f, [version |-> 1, content |-> Bytes("broker", p.delivery), place |-> p.target,
                    changed |-> 0, delivery |-> p.delivery, edited |-> FALSE])
    /\ job' = [job EXCEPT ![j].pc = "created", ![j].item = p, ![j].input = 1]
    /\ UNCHANGED <<approvals, nextId, cloudVars, left>>

\* recover_pending_outputs: find the delivery on Drive or create it with the
\* reserved id; a file that is in the trash or elsewhere stops the job.
CreateOutput(j, p) ==
    /\ job[j].pc = "outputs" /\ p \in job[j].cp.pendOut
    /\ IF p.file \in DOMAIN files
       THEN /\ IF files[p.file].place = p.target
               THEN job' = [job EXCEPT ![j].pc = "created", ![j].item = p,
                                       ![j].input = files[p.file].version]
               ELSE Stop(j)
            /\ UNCHANGED <<files, clock>>
       ELSE /\ Changed(p.file, [version |-> 1, content |-> Bytes("broker", p.delivery),
                                place |-> p.target, changed |-> 0, delivery |-> p.delivery,
                                edited |-> FALSE])
            /\ job' = [job EXCEPT ![j].pc = "created", ![j].item = p, ![j].input = 1]
    /\ UNCHANGED <<approvals, nextId, cloudVars, left>>

\* The file is bound, with the revisions the output was computed at as its base.
commit_drive_output(c, p, version) ==
    LET content == Bytes("broker", p.delivery)
    IN  [c EXCEPT !.bound = With(@, p.file, p.target),
                  !.processed = @ \cup {[file |-> p.file, version |-> version, content |-> content]},
                  !.accepted = With(@, p.file, content),
                  !.front = With(@, p.file, p.revs),
                  !.delivered = @ \cup {[delivery |-> p.delivery, file |-> p.file,
                                         target |-> p.target]},
                  !.pendOut = @ \ {p}]

CommitOutput(j) ==
    LET me == job[j]
    IN  /\ me.pc = "created"
        /\ Persist(j, commit_drive_output(me.cp, me.item, me.input),
                   [me EXCEPT !.pc = "outputs", !.item = None, !.input = None])
        /\ UNCHANGED <<driveVars, evidence, broker, outputs, announced, left>>

\* What is left: the next pending input, the page, or its next change.
NextPhase(j) ==
    /\ \/ job[j].pc = "outputs" /\ job[j].cp.pendOut = {}
       \/ job[j].pc = "inputs" /\ job[j].cp.pendIn = {} /\ job[j].cp.pendOut = {}
    /\ Goto(j, IF job[j].phase = "page" THEN "changes"
               ELSE IF job[j].cp.pendIn # {} THEN "inputs" ELSE "list")
    /\ UNCHANGED <<driveVars, cloudVars, left>>

RecoverOutputs(j) ==
    /\ job[j].pc = "inputs" /\ job[j].cp.pendIn = {} /\ job[j].cp.pendOut # {}
    /\ Goto(j, "outputs")
    /\ UNCHANGED <<driveVars, cloudVars, left>>

Listed(f) == [file |-> f, rev |-> files[f]]

\* One page of the change feed; the page may end before the feed does.
ListChanges(j, s) ==
    /\ job[j].pc = "list" /\ job[j].cp.token # None
    /\ s \in job[j].cp.token .. clock
    /\ s = clock \/ \E f \in DOMAIN files : files[f].changed \in job[j].cp.token + 1 .. s
    /\ job' = [job EXCEPT ![j].pc = "changes", ![j].phase = "page", ![j].succ = s,
                          ![j].todo = {Listed(f) : f \in {g \in DOMAIN files :
                                       files[g].changed \in job[j].cp.token + 1 .. s}}]
    /\ UNCHANGED <<driveVars, cloudVars, left>>

\* The first run takes the cursor before it lists the folders.
StartToken(j) ==
    /\ job[j].pc = "list" /\ job[j].cp.token = None
    /\ job' = [job EXCEPT ![j].pc = "boot", ![j].phase = "page", ![j].succ = clock]
    /\ UNCHANGED <<driveVars, cloudVars, left>>

InFolders(f) == files[f].place \in Sides

ListInitial(j) ==
    /\ job[j].pc = "boot"
    /\ job' = [job EXCEPT ![j].pc = "changes",
                          ![j].todo = {Listed(f) : f \in {g \in DOMAIN files : InFolders(g)}}]
    /\ UNCHANGED <<driveVars, cloudVars, left>>

\* order_changes: unbound files approved as originals come first.
ApprovedOriginal(j, ch) ==
    ch.file = Original /\ ~Binding(job[j].cp, Original) /\ Original \in DOMAIN approvals

Pick(j, ch) ==
    /\ job[j].pc = "changes" /\ ch \in job[j].todo
    /\ ApprovedOriginal(j, ch) \/ \A o \in job[j].todo : ~ApprovedOriginal(j, o)

Drop(j, ch) == job' = [job EXCEPT ![j].pc = "changes", ![j].todo = @ \ {ch}, ![j].item = None]

\* download_verified: Drive still has exactly the listed revision.
Unchanged(ch) == files[ch.file] = ch.rev

\* A file nobody bound: generated files and trash are ignored, anything else
\* needs an approval of exactly this revision in the right folder.
Approved(ch) == ch.file \in DOMAIN approvals /\ approvals[ch.file] = EventOf(ch.file, ch.rev)

prepare_original_registration(ch) == Approved(ch) /\ ch.rev.place = "boox"

prepare_device_artifact_binding(j, ch) ==
    /\ Approved(ch) /\ ch.rev.place = "supernote"
    /\ broker.registered /\ DOMAIN job[j].cp.bound # {}

ApprovalHolds(j, ch) ==
    IF ch.file = Original THEN prepare_original_registration(ch)
    ELSE prepare_device_artifact_binding(j, ch)

OnboardChange(j, ch) ==
    /\ Pick(j, ch) /\ ~Binding(job[j].cp, ch.file)
    /\ \/ /\ ch.rev.place = "trash" \/ ch.rev.delivery # 0
          /\ Drop(j, ch)
       \/ /\ ch.rev.place # "trash" /\ ch.rev.delivery = 0
          /\ IF Unchanged(ch) /\ ApprovalHolds(j, ch)
             THEN job' = [job EXCEPT ![j].item = ch,
                                     ![j].pc = IF ch.file = Original THEN "register" ELSE "bind"]
             ELSE Stop(j)
    /\ UNCHANGED <<driveVars, cloudVars, left>>

\* The staged original is registered by the broker before the file is bound.
RegisterOriginal(j) ==
    /\ job[j].pc = "register"
    /\ broker' = [broker EXCEPT !.registered = TRUE]
    /\ Goto(j, "registered")
    /\ UNCHANGED <<driveVars, checkpoint, evidence, outputs, announced, left>>

Bound(c, f, side, front) ==
    [c EXCEPT !.bound = With(@, f, side), !.front = With(@, f, front)]

commit_original_registration(c, ch) ==
    [Bound(c, ch.file, "boox", Zero) EXCEPT
        !.processed = @ \cup {EventOf(ch.file, ch.rev)},
        !.accepted = With(@, ch.file, ch.rev.content)]

CommitRegistration(j) ==
    LET me == job[j]
        ch == me.item
    IN  /\ me.pc = "registered"
        /\ Persist(j, commit_original_registration(me.cp, ch),
                   [me EXCEPT !.pc = "changes", !.todo = @ \ {ch}, !.item = None])
        /\ UNCHANGED <<driveVars, evidence, broker, outputs, announced, left>>

BindArtifact(j) ==
    /\ job[j].pc = "bind"
    /\ Persist(j, Bound(job[j].cp, job[j].item.file, "supernote", Zero),
               [job[j] EXCEPT !.pc = "bound"])
    /\ UNCHANGED <<driveVars, evidence, broker, outputs, announced, left>>

BoundChange(j, ch) ==
    /\ Pick(j, ch) /\ Binding(job[j].cp, ch.file)
    /\ IF ch.rev.place = "trash" THEN Drop(j, ch)
       ELSE IF Unchanged(ch) THEN job' = [job EXCEPT ![j].item = ch, ![j].pc = "bound"]
       ELSE Stop(j)
    /\ UNCHANGED <<driveVars, cloudVars, left>>

\* prepare_drive_input on a bound file.
Duplicated(c, ch) ==
    \/ ch.file \in DOMAIN c.accepted /\ c.accepted[ch.file] = ch.rev.content
    \/ EventOf(ch.file, ch.rev) \in c.processed

SourceRevision(based, side) == MaxOf(based[side], broker.rev[side]) + 1

prepare_drive_input(c, ch) ==
    CASE \E p \in c.pendIn : p.event.file = ch.file -> "deferred"
      [] Duplicated(c, ch) \/ ch.rev.place # c.bound[ch.file] -> "ignore"
      [] OTHER -> "upload"

PrepareInput(j) ==
    LET me == job[j]
        ch == me.item
        side == me.cp.bound[ch.file]
        based == me.cp.front[ch.file]
        decision == prepare_drive_input(me.cp, ch)
    IN  /\ me.pc = "bound"
        /\ IF decision = "deferred" THEN Stop(j)
           ELSE IF decision = "ignore" THEN Drop(j, ch)
           ELSE job' = [job EXCEPT ![j].pc = "put",
                  ![j].input = [event |-> EventOf(ch.file, ch.rev), side |-> side,
                                rev |-> SourceRevision(based, side), based |-> based]]
        /\ UNCHANGED <<driveVars, cloudVars, left>>

\* put_immutable: create-only; an existing object must be the very same.
PutEvidence(j) ==
    LET in == job[j].input
        meta == [side |-> in.side, rev |-> in.rev, based |-> in.based]
    IN  /\ job[j].pc = "put"
        /\ IF in.event \in DOMAIN evidence
           THEN /\ IF evidence[in.event] = meta THEN Goto(j, "save") ELSE Stop(j)
                /\ UNCHANGED evidence
           ELSE evidence' = With(evidence, in.event, meta) /\ Goto(j, "save")
        /\ UNCHANGED <<driveVars, checkpoint, broker, outputs, announced, left>>

PendingInput(in) ==
    [event |-> in.event, side |-> in.side, previous |-> in.based,
     proposed |-> [in.based EXCEPT ![in.side] = in.rev]]
commit_drive_input(c, p) == [c EXCEPT !.processed = @ \cup {p.event}, !.pendIn = @ \cup {p}]

SavePending(j) ==
    LET me == job[j]
        p == PendingInput(me.input)
    IN  /\ me.pc = "save"
        /\ Persist(j, commit_drive_input(me.cp, p),
                   [me EXCEPT !.pc = "finish", !.input = p, !.todo = @ \ {me.item},
                              !.item = None])
        /\ UNCHANGED <<driveVars, evidence, broker, outputs, announced, left>>

\* Once every change of the page is durable.
commit_page_token(c, s) == [c EXCEPT !.token = s]

CommitPage(j) ==
    /\ job[j].pc = "changes" /\ job[j].todo = {}
    /\ Persist(j, commit_page_token(job[j].cp, job[j].succ), Idle)
    /\ UNCHANGED <<driveVars, evidence, broker, outputs, announced, left>>

Crash(j) ==
    /\ left.crashes > 0 /\ job[j].pc # "idle"
    /\ Stop(j)
    /\ left' = [left EXCEPT !.crashes = @ - 1]
    /\ UNCHANGED <<driveVars, cloudVars>>

JobStep(j) ==
    \/ Start(j)
    \/ \E p \in job[j].cp.pendIn : Process(j, p)
    \/ FinishInput(j)
    \/ \E p \in job[j].cp.pendOut : CreateOutput(j, p)
    \/ CommitOutput(j)
    \/ NextPhase(j)
    \/ RecoverOutputs(j)
    \/ \E s \in 1 .. clock : ListChanges(j, s)
    \/ StartToken(j)
    \/ ListInitial(j)
    \/ \E ch \in job[j].todo : OnboardChange(j, ch) \/ BoundChange(j, ch)
    \/ RegisterOriginal(j)
    \/ CommitRegistration(j)
    \/ BindArtifact(j)
    \/ PrepareInput(j)
    \/ PutEvidence(j)
    \/ SavePending(j)
    \/ CommitPage(j)

Next ==
    \/ \E j \in Jobs : JobStep(j) \/ Crash(j)
    \/ \E e \in DOMAIN evidence : Announce(e)
    \/ \E s \in Sides : OtherEvent(s)
    \/ \E f \in DOMAIN files : Approve(f)
    \/ \E f \in DOMAIN files, n \in 0 .. 2 : EditFile(f, n)
    \/ \E f \in DOMAIN files, p \in {"trash", "elsewhere"} : MoveFile(f, p)
    \/ CreateExport

\* Cloud Run starts the job again and again and runs it to its end; the
\* approvals a blocked page asks for are given; the bucket's trigger retries.
Fairness ==
    /\ \A j \in Jobs : WF_vars(JobStep(j))
    /\ WF_vars(\E f \in DOMAIN files : Approve(f))
    /\ WF_vars(\E e \in DOMAIN evidence : Announce(e))

Spec == Init /\ [][Next]_vars /\ Fairness

---------------------------------------------------------------------------
(* Properties. *)

TypeOK ==
    /\ DOMAIN files \subseteq 1 .. MaxFiles /\ Original \in DOMAIN files
    /\ \A f \in DOMAIN files : files[f].place \in Sides \cup {"trash", "elsewhere"}
                               /\ files[f].changed \in 1 .. clock
    /\ checkpoint.token \in {None} \cup 1 .. clock
    /\ \A f \in DOMAIN checkpoint.bound : checkpoint.bound[f] \in Sides
                                          /\ checkpoint.front[f] \in Pairs
    /\ \A e \in DOMAIN evidence : evidence[e].side \in Sides /\ evidence[e].based \in Pairs
    /\ broker.rev \in Pairs /\ broker.view \in 0 .. Cardinality(DOMAIN outputs)

\* What the planner's commits make of a valid checkpoint passes validation: no
\* sequence of inputs, outputs, bindings and restarts leads to a checkpoint that
\* persist refuses, which would stop every later run at the same place.
NeverRefused == \A j \in Jobs : job[j].result # "refused"

\* A broker output becomes one Drive file, whatever jobs overlap or die between
\* the reservation, the create and the checkpoint (reserve_drive_output,
\* create_delivery, reconcile_drive_output).
OneFilePerDelivery ==
    \A f, g \in DOMAIN files : files[f].delivery # 0 /\ files[f].delivery = files[g].delivery => f = g

\* A file the gateway put on Drive comes back as device input only after a
\* device wrote other bytes to it: renames, restarts between create and
\* checkpoint and replays of the feed never make the broker read its own output.
NoEcho == \A e \in DOMAIN evidence : e.content.by # "broker"

\* The durable page token never passes a revision that is not safe: what Drive
\* still shows at or before the token is evidence, or is what the gateway
\* itself accepted, registered or delivered.
CursorBehindEvidence ==
    checkpoint.token # None =>
        \A f \in DOMAIN files :
            files[f].changed <= checkpoint.token /\ files[f].place \in Sides =>
                \/ EventOf(f, files[f]) \in DOMAIN evidence
                \/ files[f].delivery # 0 /\ files[f].content.by = "broker"
                \/ f \in DOMAIN checkpoint.accepted
                   /\ checkpoint.accepted[f] = files[f].content

\* A file's causal base and accepted content move only once the broker has
\* taken the very upload they describe.
AcceptedIsHandled ==
    \A f \in DOMAIN checkpoint.accepted :
        checkpoint.accepted[f].by = "user" /\ checkpoint.accepted[f] # Clean =>
            \E e \in DOMAIN evidence : /\ e.file = f /\ e.content = checkpoint.accepted[f]
                                       /\ ViaDrive(e) \in broker.processed

\* Every edit is taken in, as a revision the broker can take, before the feed
\* moves past it.
DriveInputsSafe == TypeOK /\ NeverRefused /\ CursorBehindEvidence /\ AcceptedIsHandled

\* What the job writes to Drive is written once and never comes back as an edit.
DriveOutputsOnce == OneFilePerDelivery /\ NoEcho

\* What a bound file last contains is handed to the broker and accepted, in
\* spite of a crash and of files that are still waiting for an approval.
TakenIn(f) == f \in DOMAIN checkpoint.accepted /\ checkpoint.accepted[f] = files[f].content
EditsArrive == \A f \in 1 .. MaxFiles : f \in DOMAIN checkpoint.bound ~> TakenIn(f)

\* "Broker outputs are copied to a target device folder as new versioned files"
\* (docs/INKBRIDGE_GOOGLE_DRIVE_GATEWAY.md:115).
Copied(n) == \E f \in DOMAIN files : files[f].delivery = n
OutputsArrive == \A n \in 1 .. MaxFiles : n \in DOMAIN outputs ~> Copied(n)
=============================================================================
