------------------------- MODULE DriveGatewayProofs -------------------------
(***************************************************************************)
(* Machine-checked theorems about DriveGateway, for any number of pollers, *)
(* file ids, edits, moves, other devices' events and crashes, with and     *)
(* without Eventarc: its types, that no checkpoint is ever refused, that   *)
(* the page token stays behind the evidence, that what is accepted has     *)
(* been handled, that an output becomes one file, and that the broker      *)
(* never reads its own output.                                             *)
(*                                                                         *)
(* Jobs work on copies of the checkpoint, so the inductive invariant       *)
(* speaks of every copy: CpFacts(c) is what any checkpoint ever loaded     *)
(* says about Drive, the evidence and the broker.  It survives whatever    *)
(* they do (Evolve), however old the copy is.  A page may pass over a      *)
(* generated file nobody bound yet: then another job has reserved it since *)
(* this one began, the copies differ in their entries, and the page token  *)
(* cannot be saved (JobPage).                                              *)
(***************************************************************************)
EXTENDS DriveGateway, FiniteSetTheorems, TLAPS

Places == Sides \cup {"trash", "elsewhere"}
Contents == [by : {"user", "broker"}, n : Nat]
Revisions == [version : Nat, content : Contents, place : Places, changed : Nat, delivery : Nat,
              edited : BOOLEAN]
Events == [file : Nat, version : Nat, content : Contents]
Items == [file : Nat, rev : Revisions]
Uploads == [event : Events, side : Sides, rev : Nat, based : Pairs]
Inputs == [event : Events, side : Sides, previous : Pairs, proposed : Pairs]
Reservations == [delivery : Nat, file : Nat, target : Sides, revs : Pairs]
Deliveries == [delivery : Nat, file : Nat, target : Sides]
---------------------------------------------------------------------------
(* Checkpoints. *)

CpFields == {"token", "bound", "accepted", "front", "processed", "pendIn", "pendOut", "delivered"}

CpType(c) ==
    /\ DOMAIN c = CpFields
    /\ c.token \in {None} \cup Nat
    /\ c.bound \in [DOMAIN c.bound -> Sides]
    /\ c.accepted \in [DOMAIN c.accepted -> Contents]
    /\ c.front \in [DOMAIN c.front -> Pairs]
    /\ c.processed \subseteq Events
    /\ c.pendIn \subseteq Inputs
    /\ c.pendOut \subseteq Reservations
    /\ c.delivered \subseteq Deliveries

(* What is bound is the original, the export or a delivery, a delivery is
   accepted as what was delivered, and only what is bound is processed. *)
CpSound(c) ==
    /\ Valid(c)
    /\ \A p, q \in c.pendOut : p.delivery = q.delivery => p = q
    /\ \A f \in DOMAIN c.bound : f \in {Original, Export} \/ \E d \in c.delivered : d.file = f
    /\ \A d \in c.delivered : d.file \in DOMAIN c.accepted
    /\ \A e \in c.processed : Binding(c, e.file)

(* What it says of the files: where they are, that a device's content never
   turns back into the broker's, and versions that have been. *)
CpFiles(c) ==
    /\ \A f \in DOMAIN c.bound :
        f \in DOMAIN files /\ (files[f].place \in Sides => files[f].place = c.bound[f])
    /\ \A f \in DOMAIN c.accepted :
        /\ c.accepted[f].by = "user" => files[f].content.by = "user"
        /\ c.accepted[f].by = "broker" => c.accepted[f] = Bytes("broker", files[f].delivery)
    /\ \A e \in c.processed : e.file \in DOMAIN files /\ e.version <= files[e.file].version

(* The file needs no further attention of a job with this checkpoint. *)
Handled(c, f) ==
    \/ EventOf(f, files[f]) \in DOMAIN evidence
    \/ files[f].delivery # 0 /\ files[f].content.by = "broker"
    \/ f \in DOMAIN c.accepted /\ c.accepted[f] = files[f].content

(* What of the feed it has passed. *)
CpFeed(c) ==
    /\ c.token # None => c.token \in 1 .. clock
    /\ \A f \in DOMAIN files : EventOf(f, files[f]) \in c.processed => Handled(c, f)
    /\ c.token # None =>
        \A f \in DOMAIN files :
            files[f].changed <= c.token /\ files[f].place \in Sides => Handled(c, f)

(* The file has what the pending input took, or changed after every position in s. *)
Settled(p, s) ==
    LET f == p.event.file
    IN  \/ EventOf(f, files[f]) = p.event
        \/ files[f].version > p.event.version /\ \A t \in s : files[f].changed > t

CpInputs(c) ==
    \A p \in c.pendIn :
        /\ p.event \in DOMAIN evidence
        /\ Settled(p, {c.token} \ {None})
        /\ \A e \in c.processed : e.file = p.event.file => e.version <= p.event.version

CpHandled(c) ==
    \A f \in DOMAIN c.accepted :
        c.accepted[f].by = "user" /\ c.accepted[f] # Clean =>
            \E e \in DOMAIN evidence : /\ e.file = f /\ e.content = c.accepted[f]
                                       /\ ViaDrive(e) \in broker.processed

CpFacts(c) == CpType(c) /\ CpSound(c) /\ CpFiles(c) /\ CpFeed(c) /\ CpInputs(c) /\ CpHandled(c)

(* The deliveries a checkpoint knows, reserved or made, and the file of each. *)
Entry(p) == [delivery |-> p.delivery, file |-> p.file, target |-> p.target]
Entries(c) == {Entry(p) : p \in c.pendOut} \cup c.delivered

Ledger(E, id) ==
    /\ \A r \in E : r.delivery # 0 /\ r.file \in 3 .. id - 1
    /\ \A r, s \in E : r.delivery = s.delivery \/ r.file = s.file => r = s
---------------------------------------------------------------------------
(* Drive, the evidence and the broker. *)

FileOK(f) ==
    /\ files[f].changed \in 1 .. clock
    /\ files[f].content.by = "broker" =>
          files[f].delivery # 0 /\ files[f].content = Bytes("broker", files[f].delivery)
    /\ f = Original => files[f].place # "supernote"
    /\ f = Export => files[f].place # "boox"
    /\ files[f].delivery = 0 <=> f \in {Original, Export}
    /\ files[f].delivery # 0 =>
          \E r \in Entries(checkpoint) :
              /\ r.delivery = files[f].delivery /\ r.file = f
              /\ files[f].place \in Sides => files[f].place = r.target

FilesOK ==
    /\ clock \in Nat /\ nextId \in 3 .. MaxFiles + 1
    /\ files \in [DOMAIN files -> Revisions]
    /\ Original \in DOMAIN files /\ DOMAIN files \subseteq 1 .. MaxFiles
    /\ \A f \in DOMAIN files : FileOK(f)
    /\ approvals \in [DOMAIN approvals -> Events]
    /\ Original \in DOMAIN approvals => approvals[Original].content = Clean

EvidenceOK ==
    /\ evidence \in [DOMAIN evidence -> [side : Sides, rev : Nat, based : Pairs]]
    /\ \A e \in DOMAIN evidence :
        /\ e \in Events /\ e.content.by = "user"
        /\ e.file \in DOMAIN files /\ files[e.file].content.by = "user"

BrokerFields == {"registered", "rev", "content", "processed", "conflicts", "view"}

BrokerOK ==
    /\ DOMAIN broker = BrokerFields
    /\ broker.rev \in Pairs
    /\ LET k == Cardinality(DOMAIN outputs)
       IN  k \in Nat /\ DOMAIN outputs = 1 .. k /\ broker.view \in 0 .. k
    /\ \A n \in DOMAIN outputs : outputs[n].target \in Sides /\ outputs[n].revs \in Pairs
---------------------------------------------------------------------------
(* A job. *)

OnItem == {"register", "registered", "bind", "bound", "put", "save"}
OfPage == OnItem \cup {"boot", "changes", "finish"}
Pcs == OfPage \cup {"idle", "inputs", "outcome", "outputs", "created", "list"}
JobFields == {"pc", "base", "cp", "todo", "succ", "phase", "item", "input", "result"}

JobType(m) ==
    /\ DOMAIN m = JobFields
    /\ m.pc \in Pcs /\ m.phase \in {"recover", "page"}
    /\ m.succ \in Nat
    /\ m.todo \subseteq Items
    /\ m.result # "refused"
    /\ m.base = m.cp
    /\ m.pc \in OnItem => m.item \in m.todo
    /\ m.pc \in {"put", "save"} => m.input \in Uploads
    /\ m.pc \in {"finish", "outcome"} => m.input \in m.cp.pendIn
    /\ m.pc = "created" => m.item \in m.cp.pendOut /\ m.input \in Nat

(* What is pending while a page is taken, and how far the page reaches. *)
JobPhase(m) ==
    /\ m.pc \in OfPage => m.phase = "page"
    /\ m.pc \in {"inputs", "list"} => m.phase = "recover"
    /\ m.pc \in OnItem \cup {"list", "boot", "changes"} => m.cp.pendIn = {} /\ m.cp.pendOut = {}
    /\ m.pc \in {"finish", "outcome"} /\ m.phase = "page" => m.cp.pendIn = {m.input}
    /\ m.pc \in {"outputs", "created"} /\ m.phase = "page" => m.cp.pendIn = {}
    /\ m.phase = "page" => m.succ \in 1 .. clock /\ (m.cp.token # None => m.cp.token <= m.succ)

(* The listed revisions were the files' own, *)
JobTodo(m) ==
    \A ch \in m.todo :
        /\ ch.file \in DOMAIN files /\ ch.rev.version <= files[ch.file].version
        /\ ch.rev.delivery = files[ch.file].delivery
        /\ ch.rev.content.by = "broker" =>
              ch.rev.delivery # 0 /\ ch.rev.content = Bytes("broker", ch.rev.delivery)

(* and that of the item still is, or the file changed after the page. *)
Fresh(ch, s) ==
    \/ files[ch.file] = ch.rev
    \/ files[ch.file].version > ch.rev.version /\ files[ch.file].changed > s

JobItem(m) ==
    /\ m.pc \in OnItem => Fresh(m.item, m.succ)
    /\ m.pc \in {"register", "registered"} =>
        m.item.file = Original /\ ~Binding(m.cp, Original) /\ m.item.rev.content = Clean
    /\ m.pc = "bind" => m.item.file = Export /\ ~Binding(m.cp, Export)
    /\ m.pc \in {"bound", "put", "save"} =>
        /\ Binding(m.cp, m.item.file)
        /\ \A e \in m.cp.processed : e.file = m.item.file => e.version <= m.item.rev.version
        /\ m.item.rev.content.by = "broker" => Duplicated(m.cp, m.item)
        /\ m.item.rev.content.by = "user" => files[m.item.file].content.by = "user"
    /\ m.pc \in {"put", "save"} =>
        /\ m.input.event = EventOf(m.item.file, m.item.rev) /\ m.input.event.content.by = "user"
        /\ m.input.side = m.cp.bound[m.item.file] /\ m.input.based = m.cp.front[m.item.file]
        /\ m.input.rev > m.input.based[m.input.side]
    /\ m.pc \in {"finish", "outcome"} /\ m.phase = "page" => Settled(m.input, {m.succ})

(* What the last step of the job has made. *)
JobMade(m) ==
    /\ m.pc = "save" => m.input.event \in DOMAIN evidence
    /\ m.pc = "outcome" /\ m.result # "rejected" => ViaDrive(m.input.event) \in broker.processed
    /\ m.pc = "created" =>
        /\ m.item.file \in DOMAIN files /\ m.input <= files[m.item.file].version
        /\ files[m.item.file].delivery = m.item.delivery

(* Every file the page saw is handled or still to do. *)
Covered(m) ==
    \A f \in DOMAIN files :
        files[f].changed <= m.succ /\ files[f].place \in Sides =>
            (\E ch \in m.todo : ch.file = f /\ ch.rev = files[f]) \/ Handled(m.cp, f)

JobPage(m) ==
    m.phase = "page" /\ m.pc # "boot" => Covered(m) \/ Entries(m.cp) # Entries(checkpoint)

JobCore(m) ==
    /\ JobType(m) /\ JobPhase(m) /\ JobTodo(m) /\ JobItem(m)
    /\ CpFacts(m.cp) /\ Entries(m.cp) \subseteq Entries(checkpoint)

JobOK(m) == JobCore(m) /\ JobMade(m) /\ JobPage(m)

IInv ==
    /\ FilesOK /\ EvidenceOK /\ BrokerOK
    /\ CpFacts(checkpoint) /\ Ledger(Entries(checkpoint), nextId)
    /\ DOMAIN job = Jobs
    /\ \A j \in Jobs : JobOK(job[j])
---------------------------------------------------------------------------
(* Functions, pairs of revisions and checkpoints with a new value. *)

LEMMA WithType ==
  ASSUME NEW S, NEW f, f \in [DOMAIN f -> S], NEW k, NEW v \in S
  PROVE  With(f, k, v) \in [DOMAIN With(f, k, v) -> S]
  BY DEF With

LEMMA PairUpdate ==
  ASSUME NEW x \in Pairs, NEW s \in Sides, NEW n \in Nat
  PROVE  LET y == [x EXCEPT ![s] = n] IN y \in Pairs /\ y[s] = n /\ y[Other(s)] = x[Other(s)]
  BY DEF Pairs, Sides, Other

LEMMA ZeroPair == Zero \in Pairs
  BY DEF Zero, Pairs

LEMMA RejectInputFields ==
  ASSUME NEW c, DOMAIN c = CpFields, NEW p
  PROVE  LET d == RejectInput(c, p)
         IN  /\ DOMAIN d = CpFields /\ d.token = c.token /\ d.bound = c.bound
             /\ d.accepted = c.accepted /\ d.front = c.front /\ d.processed = c.processed
             /\ d.pendIn = c.pendIn \ {p} /\ d.pendOut = c.pendOut /\ d.delivered = c.delivered
  BY DEF RejectInput, CpFields

Reservation(n, id) ==
    [delivery |-> n, file |-> id, target |-> outputs[n].target, revs |-> outputs[n].revs]

LEMMA ReserveOutputFields ==
  ASSUME NEW c, DOMAIN c = CpFields, NEW n, NEW id,
         ~ \E d \in c.pendOut \cup c.delivered : d.delivery = n
  PROVE  LET d == ReserveOutput(c, n, id)
         IN  /\ DOMAIN d = CpFields /\ d.token = c.token /\ d.bound = c.bound
             /\ d.accepted = c.accepted /\ d.front = c.front /\ d.processed = c.processed
             /\ d.pendIn = c.pendIn /\ d.pendOut = c.pendOut \cup {Reservation(n, id)}
             /\ d.delivered = c.delivered
  BY DEF ReserveOutput, Reservation, CpFields

LEMMA DriveOutputFields ==
  ASSUME NEW c, DOMAIN c = CpFields, NEW p, NEW v
  PROVE  LET d == commit_drive_output(c, p, v)
         IN  /\ DOMAIN d = CpFields /\ d.token = c.token /\ d.bound = With(c.bound, p.file, p.target)
             /\ d.accepted = With(c.accepted, p.file, Bytes("broker", p.delivery))
             /\ d.front = With(c.front, p.file, p.revs)
             /\ d.processed = c.processed \cup {[file |-> p.file, version |-> v,
                                                 content |-> Bytes("broker", p.delivery)]}
             /\ d.pendIn = c.pendIn /\ d.pendOut = c.pendOut \ {p}
             /\ d.delivered = c.delivered \cup {Entry(p)}
  BY DEF commit_drive_output, Entry, CpFields

LEMMA BoundFields ==
  ASSUME NEW c, DOMAIN c = CpFields, NEW f, NEW s, NEW v
  PROVE  LET d == Bound(c, f, s, v)
         IN  /\ DOMAIN d = CpFields /\ d.token = c.token /\ d.bound = With(c.bound, f, s)
             /\ d.accepted = c.accepted /\ d.front = With(c.front, f, v) /\ d.processed = c.processed
             /\ d.pendIn = c.pendIn /\ d.pendOut = c.pendOut /\ d.delivered = c.delivered
  BY DEF Bound, CpFields

LEMMA PageTokenFields ==
  ASSUME NEW c, DOMAIN c = CpFields, NEW s
  PROVE  LET d == commit_page_token(c, s)
         IN  /\ DOMAIN d = CpFields /\ d.token = s /\ d.bound = c.bound /\ d.accepted = c.accepted
             /\ d.front = c.front /\ d.processed = c.processed /\ d.pendIn = c.pendIn
             /\ d.pendOut = c.pendOut /\ d.delivered = c.delivered
  BY DEF commit_page_token, CpFields
---------------------------------------------------------------------------
(* What happens to Drive, the evidence, the broker and the checkpoint. *)

Newer(f) ==
    /\ files'[f].version > files[f].version /\ files'[f].changed > clock
    /\ files'[f].delivery = files[f].delivery
    /\ files'[f].place \in Sides => files'[f].place = files[f].place
    /\ files'[f].content = files[f].content \/ files'[f].content.by = "user"

Evolve ==
    /\ clock <= clock'
    /\ DOMAIN files \subseteq DOMAIN files'
    /\ \A f \in DOMAIN files : files'[f] = files[f] \/ Newer(f)
    /\ \A f \in DOMAIN files' \ DOMAIN files : files'[f].changed > clock
    /\ DOMAIN evidence \subseteq DOMAIN evidence'
    /\ broker.processed \subseteq broker'.processed
    /\ Entries(checkpoint) \subseteq Entries(checkpoint')

LEMMA SettledEvolves ==
  ASSUME FilesOK, FilesOK', Evolve, NEW p \in Inputs, p.event.file \in DOMAIN files,
         p.event.version <= files[p.event.file].version,
         NEW s, \A t \in s : t \in Nat /\ t <= clock, Settled(p, s)
  PROVE  Settled(p, s)'
<1> DEFINE f == p.event.file
<1>1. CASE files'[f] = files[f]
  BY <1>1 DEF Settled, EventOf
<1>2. CASE Newer(f)
  <2>1. files[f].version \in Nat /\ files'[f].version \in Nat /\ p.event.version \in Nat
        /\ files'[f].changed \in Nat /\ clock \in Nat
    BY DEF FilesOK, Evolve, Revisions, Inputs, Events
  <2> QED
    BY <1>2, <2>1 DEF Newer, Settled
<1> QED
  BY <1>1, <1>2 DEF Evolve

LEMMA HandledEvolves ==
  ASSUME Evolve, NEW c, NEW f \in DOMAIN files, files'[f] = files[f], Handled(c, f)
  PROVE  Handled(c, f)'
  BY DEF Handled, Evolve, EventOf

(* A checkpoint somebody loaded stays true of the world, however old it is. *)
LEMMA CpEvolves ==
  ASSUME FilesOK, FilesOK', Evolve, NEW c, CpFacts(c)
  PROVE  CpFacts(c)'
<1> USE DEF CpFacts
<1>1. CpType(c)' /\ CpSound(c)'
  BY DEF CpType, CpSound, Valid, Binding
<1>2. \A f \in DOMAIN files :
        /\ files[f].version \in Nat /\ files'[f].version \in Nat
        /\ files[f].changed \in Nat /\ files'[f].changed \in Nat
  BY DEF FilesOK, Evolve, Revisions
<1>3. /\ clock \in Nat /\ clock' \in Nat /\ clock <= clock' /\ c.token \in {None} \cup Nat
      /\ \A f \in DOMAIN files' \ DOMAIN files : files'[f].changed > clock /\ files'[f].changed \in Nat
  BY DEF FilesOK, Evolve, CpType, Revisions
<1>4. \A e \in c.processed : e.version \in Nat /\ e \in Events
  BY DEF CpType, Events
<1>5. CpFiles(c)'
  <2>1. \A f \in DOMAIN c.bound : f \in DOMAIN files'
                /\ (files'[f].place \in Sides => files'[f].place = c.bound[f])
    BY DEF CpFiles, Evolve, Newer
  <2>2. \A f \in DOMAIN c.accepted :
          /\ c.accepted[f].by = "user" => files'[f].content.by = "user"
          /\ c.accepted[f].by = "broker" => c.accepted[f] = Bytes("broker", files'[f].delivery)
    <3>1. \A f \in DOMAIN c.accepted : f \in DOMAIN files
      BY DEF CpFiles, CpSound, Valid
    <3> QED
      BY <3>1 DEF CpFiles, Evolve, Newer
  <2>3. \A e \in c.processed : e.file \in DOMAIN files' /\ e.version <= files'[e.file].version
    <3> SUFFICES ASSUME NEW e \in c.processed
                 PROVE  e.file \in DOMAIN files' /\ e.version <= files'[e.file].version
      OBVIOUS
    <3>1. e.file \in DOMAIN files /\ e.version <= files[e.file].version
      BY DEF CpFiles
    <3>2. files'[e.file] = files[e.file] \/ files'[e.file].version > files[e.file].version
      BY <3>1 DEF Evolve, Newer
    <3> QED
      BY <1>2, <1>4, <3>1, <3>2 DEF Evolve
  <2> QED
    BY <2>1, <2>2, <2>3 DEF CpFiles
<1>6. \A f \in DOMAIN files' :
          EventOf(f, files'[f]) \in c.processed => f \in DOMAIN files /\ files'[f] = files[f]
  <2> SUFFICES ASSUME NEW f \in DOMAIN files', EventOf(f, files'[f]) \in c.processed
               PROVE  f \in DOMAIN files /\ files'[f] = files[f]
    OBVIOUS
  <2>1. f \in DOMAIN files /\ files'[f].version <= files[f].version
    BY DEF EventOf, CpFiles
  <2> QED
    BY <1>2, <2>1 DEF Evolve, Newer
<1>7. c.token # None =>
        \A f \in DOMAIN files' : files'[f].changed <= c.token => f \in DOMAIN files /\ files'[f] = files[f]
  <2> SUFFICES ASSUME c.token # None, NEW f \in DOMAIN files', files'[f].changed <= c.token
               PROVE  f \in DOMAIN files /\ files'[f] = files[f]
    OBVIOUS
  <2>1. c.token \in Nat /\ c.token <= clock
    BY <1>3 DEF CpFeed
  <2> QED
    BY <1>2, <1>3, <2>1 DEF Evolve, Newer
<1>8. CpFeed(c)'
  <2>1. (c.token # None => c.token \in 1 .. clock)'
    BY <1>3 DEF CpFeed
  <2>2. \A f \in DOMAIN files' : EventOf(f, files'[f]) \in c.processed => Handled(c, f)'
    BY <1>6, HandledEvolves DEF CpFeed
  <2>3. c.token # None =>
          \A f \in DOMAIN files' :
              files'[f].changed <= c.token /\ files'[f].place \in Sides => Handled(c, f)'
    BY <1>7, HandledEvolves DEF CpFeed
  <2> QED
    BY <2>1, <2>2, <2>3 DEF CpFeed
<1>9. CpInputs(c)'
  <2> SUFFICES ASSUME NEW p \in c.pendIn
               PROVE  p.event \in DOMAIN evidence' /\ Settled(p, {c.token} \ {None})'
    BY DEF CpInputs
  <2>1. p \in Inputs /\ p.event \in c.processed
    BY DEF CpType, CpSound, Valid
  <2>2. p.event.file \in DOMAIN files /\ p.event.version <= files[p.event.file].version
    BY <2>1 DEF CpFiles
  <2>3. c.token # None => c.token \in Nat /\ c.token <= clock
    BY <1>3 DEF CpFeed
  <2>4. p.event \in DOMAIN evidence /\ Settled(p, {c.token} \ {None})
    BY DEF CpInputs
  <2> QED
    BY <2>1, <2>2, <2>3, <2>4, SettledEvolves DEF Evolve
<1>10. CpHandled(c)'
  BY DEF CpHandled, Evolve
<1> QED
  BY <1>1, <1>5, <1>8, <1>9, <1>10

(* Neither does a job lose what it relies on, except for the page of a job
   whose entries have become out of date. *)
LEMMA CoreEvolves ==
  ASSUME FilesOK, FilesOK', Evolve, NEW m, JobCore(m)
  PROVE  JobCore(m)'
<1>1. JobType(m)'
  BY DEF JobCore, JobType
<1>2. clock \in Nat /\ clock' \in Nat /\ clock <= clock' /\ m.succ \in Nat
  BY DEF FilesOK, Evolve, JobCore, JobType
<1>3. JobPhase(m)'
  BY <1>2 DEF JobCore, JobPhase
<1>4. \A f \in DOMAIN files :
        /\ files[f].version \in Nat /\ files'[f].version \in Nat
        /\ files[f].changed \in Nat /\ files'[f].changed \in Nat
  BY DEF FilesOK, Evolve, Revisions
<1>5. \A ch \in m.todo : ch.file \in DOMAIN files /\ ch.rev.version \in Nat
  BY DEF JobCore, JobType, JobTodo, Items, Revisions
<1>6. JobTodo(m)'
  <2> SUFFICES ASSUME NEW ch \in m.todo
               PROVE  /\ ch.file \in DOMAIN files' /\ ch.rev.version <= files'[ch.file].version
                      /\ ch.rev.delivery = files'[ch.file].delivery
    BY DEF JobCore, JobTodo
  <2>1. ch.rev.version <= files[ch.file].version /\ ch.rev.delivery = files[ch.file].delivery
    BY DEF JobCore, JobTodo
  <2> QED
    BY <1>4, <1>5, <2>1 DEF Evolve, Newer
<1>7. JobItem(m)'
  <2>1. m.pc \in OnItem => Fresh(m.item, m.succ)'
    <3> SUFFICES ASSUME m.pc \in OnItem PROVE Fresh(m.item, m.succ)'
      OBVIOUS
    <3>1. m.item \in m.todo /\ Fresh(m.item, m.succ) /\ m.phase = "page" /\ m.succ <= clock
      BY DEF JobCore, JobType, JobItem, JobPhase, OfPage
    <3>2. files'[m.item.file] = files[m.item.file]
          \/ (files'[m.item.file].version > files[m.item.file].version /\ files'[m.item.file].changed > clock)
      BY <1>5, <3>1 DEF Evolve, Newer
    <3>3. m.item.rev.version <= files[m.item.file].version
      BY <3>1 DEF JobCore, JobTodo
    <3> QED
      BY <1>2, <1>4, <1>5, <3>1, <3>2, <3>3 DEF Fresh
  <2>2. m.pc \in {"bound", "put", "save"} /\ m.item.rev.content.by = "user" =>
            files'[m.item.file].content.by = "user"
    <3>1. m.pc \in {"bound", "put", "save"} =>
            /\ m.item \in m.todo
            /\ m.item.rev.content.by = "user" => files[m.item.file].content.by = "user"
      BY DEF JobCore, JobType, JobItem, OnItem
    <3> QED
      BY <1>5, <3>1 DEF Evolve, Newer
  <2>3. m.pc \in {"finish", "outcome"} /\ m.phase = "page" => Settled(m.input, {m.succ})'
    <3> SUFFICES ASSUME m.pc \in {"finish", "outcome"}, m.phase = "page" PROVE Settled(m.input, {m.succ})'
      OBVIOUS
    <3>1. m.input \in m.cp.pendIn /\ m.input \in Inputs /\ m.input.event \in m.cp.processed
      BY DEF JobCore, JobType, CpFacts, CpType, CpSound, Valid
    <3>2. m.input.event.file \in DOMAIN files /\ m.input.event.version <= files[m.input.event.file].version
      BY <3>1 DEF JobCore, CpFacts, CpFiles
    <3>3. m.succ \in Nat /\ m.succ <= clock /\ Settled(m.input, {m.succ})
      BY <1>2 DEF JobCore, JobPhase, JobItem
    <3> QED
      BY <3>1, <3>2, <3>3, SettledEvolves
  <2> QED
    BY <2>1, <2>2, <2>3 DEF JobCore, JobItem, Binding, Duplicated
<1>8. CpFacts(m.cp)'
  BY CpEvolves DEF JobCore
<1>9. Entries(m.cp)' \subseteq Entries(checkpoint)'
  BY DEF JobCore, Evolve, Entries
<1> QED
  BY <1>1, <1>3, <1>6, <1>7, <1>8, <1>9 DEF JobCore

LEMMA MadeEvolves ==
  ASSUME FilesOK, FilesOK', Evolve, NEW m, JobType(m), JobMade(m)
  PROVE  JobMade(m)'
<1>1. m.pc = "created" => /\ m.item.file \in DOMAIN files' /\ m.input <= files'[m.item.file].version
                          /\ files'[m.item.file].delivery = m.item.delivery
  <2> SUFFICES ASSUME m.pc = "created"
               PROVE  /\ m.item.file \in DOMAIN files' /\ m.input <= files'[m.item.file].version
                      /\ files'[m.item.file].delivery = m.item.delivery
    OBVIOUS
  <2>1. m.item.file \in DOMAIN files /\ m.input <= files[m.item.file].version /\ m.input \in Nat
        /\ files[m.item.file].delivery = m.item.delivery
    BY DEF JobMade, JobType
  <2>2. files[m.item.file].version \in Nat /\ files'[m.item.file].version \in Nat
    BY <2>1 DEF FilesOK, Evolve, Revisions
  <2> QED
    BY <2>1, <2>2 DEF Evolve, Newer
<1> QED
  BY <1>1 DEF JobMade, Evolve

LEMMA CoveredEvolves ==
  ASSUME FilesOK, FilesOK', Evolve, NEW m, m.succ \in Nat, m.succ <= clock, Covered(m)
  PROVE  Covered(m)'
<1> SUFFICES ASSUME NEW f \in DOMAIN files', files'[f].changed <= m.succ, files'[f].place \in Sides
             PROVE  (\E ch \in m.todo : ch.file = f /\ ch.rev = files'[f]) \/ Handled(m.cp, f)'
  BY DEF Covered
<1>1. clock \in Nat /\ files'[f].changed \in Nat
  BY DEF FilesOK, Revisions
<1>2. f \in DOMAIN files /\ files'[f] = files[f]
  BY <1>1 DEF Evolve, Newer
<1>3. (\E ch \in m.todo : ch.file = f /\ ch.rev = files[f]) \/ Handled(m.cp, f)
  BY <1>2 DEF Covered
<1> QED
  BY <1>2, <1>3, HandledEvolves

LEMMA PageEvolves ==
  ASSUME FilesOK, FilesOK', Evolve, NEW m, JobCore(m), JobPage(m)
  PROVE  JobPage(m)'
<1> SUFFICES ASSUME m.phase = "page", m.pc # "boot"
             PROVE  Covered(m)' \/ Entries(m.cp) # Entries(checkpoint')
  BY DEF JobPage, Entries
<1>1. m.succ \in Nat /\ m.succ <= clock
  BY DEF JobCore, JobType, JobPhase, FilesOK
<1>2. CASE Covered(m)
  BY <1>1, <1>2, CoveredEvolves
<1>3. CASE Entries(m.cp) # Entries(checkpoint)
  BY <1>3 DEF JobCore, Evolve
<1> QED
  BY <1>2, <1>3 DEF JobPage
---------------------------------------------------------------------------
(* What has to be shown of a step. *)

(* A step that changes the world but no checkpoint, and perhaps one job. *)
LEMMA WorldMoves ==
  ASSUME IInv, FilesOK', EvidenceOK', BrokerOK', Evolve, UNCHANGED checkpoint,
         UNCHANGED nextId \/ nextId' \in nextId .. MaxFiles + 1,
         DOMAIN job' = Jobs,
         \A j \in Jobs : job'[j] = job[j] \/ JobOK(job[j])'
  PROVE  IInv'
<1>1. PICK c : c = checkpoint
  OBVIOUS
<1>2. CpFacts(c)'
  BY <1>1, CpEvolves DEF IInv
<1>3. CpFacts(checkpoint)'
  BY <1>1, <1>2
<1>4. ASSUME NEW j \in Jobs PROVE JobOK(job[j])'
  <2>1. SUFFICES ASSUME job'[j] = job[j] PROVE JobOK(job[j])'
    OBVIOUS
  <2>2. PICK m : m = job[j]
    OBVIOUS
  <2>3. JobCore(m) /\ JobMade(m) /\ JobPage(m) /\ JobType(m) /\ FilesOK
    BY <2>2 DEF IInv, JobOK, JobCore
  <2>4. JobCore(m)' /\ JobMade(m)' /\ JobPage(m)'
    BY <2>3, CoreEvolves, MadeEvolves, PageEvolves
  <2> QED
    BY <2>1, <2>2, <2>4 DEF JobOK
<1>5. Ledger(Entries(checkpoint), nextId)'
  BY DEF IInv, FilesOK, Ledger, Entries
<1> QED
  BY <1>3, <1>4, <1>5 DEF IInv

LEMMA NothingMoves ==
  ASSUME IInv, UNCHANGED <<files, clock, approvals, checkpoint, evidence, broker, outputs>>,
         UNCHANGED nextId \/ nextId' \in nextId .. MaxFiles + 1
  PROVE  FilesOK' /\ EvidenceOK' /\ BrokerOK' /\ Evolve
<1>1. FilesOK' /\ EvidenceOK' /\ BrokerOK'
  BY DEF IInv, FilesOK, FileOK, EvidenceOK, BrokerOK
<1> QED
  BY <1>1 DEF Evolve, Entries, FilesOK

(* A step of one job on its own. *)
LEMMA JobMoves ==
  ASSUME IInv, UNCHANGED <<files, clock, approvals, checkpoint, evidence, broker, outputs>>,
         UNCHANGED nextId \/ nextId' \in nextId .. MaxFiles + 1,
         NEW j \in Jobs, NEW n, job' = [job EXCEPT ![j] = n], JobOK(n)
  PROVE  IInv'
<1>1. FilesOK' /\ EvidenceOK' /\ BrokerOK' /\ Evolve /\ FilesOK
  BY NothingMoves DEF IInv
<1>2. JobCore(n)' /\ JobMade(n)' /\ JobPage(n)'
  BY <1>1, CoreEvolves, MadeEvolves, PageEvolves DEF JobOK, JobCore
<1>3. DOMAIN job' = Jobs /\ job'[j] = n /\ \A k \in Jobs \ {j} : job'[k] = job[k]
  BY DEF IInv
<1>4. JobOK(job[j])'
  BY <1>2, <1>3 DEF JobOK
<1> QED
  BY <1>1, <1>3, <1>4, WorldMoves

(* A job that is at rest, or stopped. *)
LEMMA EmptyFacts == CpFacts(Empty) /\ Entries(Empty) = {}
<1>1. /\ DOMAIN Empty = CpFields /\ Empty.token = None /\ Empty.bound = <<>> /\ Empty.accepted = <<>>
      /\ Empty.front = <<>> /\ Empty.processed = {} /\ Empty.pendIn = {} /\ Empty.pendOut = {}
      /\ Empty.delivered = {}
  BY DEF Empty, CpFields
<1>2. DOMAIN <<>> = {} /\ \A S : <<>> \in [{} -> S]
  OBVIOUS
<1>3. CpType(Empty) /\ CpSound(Empty)
  BY <1>1, <1>2 DEF CpType, CpSound, Valid
<1>4. CpFiles(Empty) /\ CpFeed(Empty) /\ CpInputs(Empty) /\ CpHandled(Empty)
  BY <1>1, <1>2 DEF CpFiles, CpFeed, CpInputs, CpHandled
<1> QED
  BY <1>1, <1>3, <1>4 DEF CpFacts, Entries

LEMMA AtRest ==
  ASSUME NEW n, DOMAIN n = JobFields, n.pc = "idle", n.phase = "recover", n.succ = 0, n.todo = {},
         n.result = "none", n.base = n.cp, CpFacts(n.cp), Entries(n.cp) \subseteq Entries(checkpoint)
  PROVE  JobOK(n)
<1>1. JobType(n) /\ JobPhase(n) /\ JobTodo(n) /\ JobItem(n) /\ JobMade(n) /\ JobPage(n)
  BY DEF JobType, JobPhase, JobTodo, JobItem, JobMade, JobPage, Pcs, OfPage, OnItem
<1> QED
  BY <1>1 DEF JobOK, JobCore

LEMMA IdleOK == JobOK(Idle)
<1>1. /\ DOMAIN Idle = JobFields /\ Idle.pc = "idle" /\ Idle.phase = "recover" /\ Idle.succ = 0
      /\ Idle.todo = {} /\ Idle.result = "none" /\ Idle.base = Empty /\ Idle.cp = Empty
  BY DEF Idle, JobFields
<1> QED
  BY <1>1, EmptyFacts, AtRest

LEMMA StopIInv ==
  ASSUME IInv, UNCHANGED <<files, clock, approvals, checkpoint, evidence, broker, outputs>>,
         UNCHANGED nextId \/ nextId' \in nextId .. MaxFiles + 1,
         NEW j \in Jobs, Stop(j)
  PROVE  IInv'
<1>1. PICK n : n = Idle
  OBVIOUS
<1>2. JobOK(n) /\ job' = [job EXCEPT ![j] = n]
  BY <1>1, IdleOK DEF Stop
<1> QED
  BY <1>2, JobMoves

(* A checkpoint that passes validation is saved, or the job stops. *)
LEMMA PersistCases ==
  ASSUME NEW j \in Jobs, NEW c, NEW next, Valid(c), Persist(j, c, next)
  PROVE  \/ Stop(j) /\ UNCHANGED checkpoint
         \/ /\ checkpoint = job[j].base /\ checkpoint' = c
            /\ job' = [job EXCEPT ![j] = [next EXCEPT !.cp = c, !.base = c]]
  BY DEF Persist

LEMMA Persisted ==
  ASSUME IInv, UNCHANGED <<files, clock, approvals, evidence, broker, outputs>>,
         UNCHANGED nextId \/ nextId' \in nextId .. MaxFiles + 1, NEW j \in Jobs, NEW c, NEW n,
         checkpoint' = c, job' = [job EXCEPT ![j] = n],
         CpFacts(c), Entries(checkpoint) \subseteq Entries(c), Ledger(Entries(c), nextId'),
         n.cp = c, JobType(n), JobPhase(n), JobTodo(n), JobItem(n), JobMade(n),
         n.phase = "page" /\ n.pc # "boot" => Covered(n)
  PROVE  IInv'
<1>1. EvidenceOK' /\ BrokerOK' /\ FilesOK
  BY DEF IInv, EvidenceOK, BrokerOK
<1>2. Entries(checkpoint)' = Entries(c)
  BY DEF Entries
<1>3. FilesOK'
  <2>1. \A f \in DOMAIN files' : FileOK(f)'
    BY <1>2 DEF IInv, FilesOK, FileOK
  <2>2. nextId' \in 3 .. MaxFiles + 1
    BY DEF IInv, FilesOK
  <2> QED
    BY <2>1, <2>2 DEF IInv, FilesOK
<1>4. Evolve
  BY <1>2 DEF Evolve, IInv, FilesOK, Entries
<1>5. CpFacts(c)'
  BY <1>1, <1>3, <1>4, CpEvolves
<1>6. DOMAIN job' = Jobs /\ job'[j] = n /\ \A k \in Jobs \ {j} : job'[k] = job[k]
  BY DEF IInv
<1>7. JobOK(n)'
  <2>1. JobType(n)' /\ JobPhase(n)' /\ JobTodo(n)' /\ JobItem(n)' /\ JobMade(n)'
    BY DEF JobType, JobPhase, JobTodo, JobItem, JobMade, Fresh, Settled, Binding, Duplicated
  <2>2. JobPage(n)'
    BY DEF JobPage, Covered, Handled
  <2>3. Entries(n.cp)' \subseteq Entries(checkpoint)'
    BY DEF Entries
  <2> QED
    BY <1>5, <2>1, <2>2, <2>3 DEF JobOK, JobCore
<1>8. ASSUME NEW k \in Jobs PROVE JobOK(job[k])'
  <2>1. CASE k = j
    BY <1>6, <1>7, <2>1
  <2>2. CASE k # j
    <3>1. PICK m : m = job[k]
      OBVIOUS
    <3>2. JobCore(m) /\ JobMade(m) /\ JobPage(m) /\ JobType(m)
      BY <3>1 DEF IInv, JobOK, JobCore
    <3>3. JobCore(m)' /\ JobMade(m)' /\ JobPage(m)'
      BY <1>1, <1>3, <1>4, <3>2, CoreEvolves, MadeEvolves, PageEvolves
    <3> QED
      BY <1>6, <2>2, <3>1, <3>3 DEF JobOK
  <2> QED
    BY <2>1, <2>2
<1> QED
  BY <1>1, <1>2, <1>3, <1>5, <1>6, <1>8 DEF IInv
---------------------------------------------------------------------------
(* The initial state. *)

LEMMA InitIInv == ASSUME DriveAssumption, Init PROVE IInv
<1>1. FilesOK
  <2>1. /\ DOMAIN files = {1} /\ files[1].version = 1 /\ files[1].content = Clean /\ files[1].place = "boox"
        /\ files[1].changed = 1 /\ files[1].delivery = 0 /\ files[1] \in Revisions
    BY DEF Init, Original, Revisions, Contents, Clean, Bytes, Places, Sides
  <2>2. files \in [DOMAIN files -> Revisions]
    BY <2>1 DEF Init, Original
  <2>3. Clean.by = "user"
    BY DEF Clean, Bytes
  <2>4. \A f \in DOMAIN files : FileOK(f)
    BY <2>1, <2>3 DEF FileOK, Init, Original, Export
  <2>5. DOMAIN approvals = {} /\ approvals \in [DOMAIN approvals -> Events]
    BY DEF Init
  <2> QED
    BY <2>1, <2>2, <2>4, <2>5 DEF FilesOK, Init, Original, DriveAssumption
<1>2. EvidenceOK
  BY DEF Init, EvidenceOK
<1>3. BrokerOK
  <2>1. DOMAIN outputs = {} /\ Cardinality(DOMAIN outputs) = 0 /\ 1 .. 0 = {}
    BY FS_EmptySet DEF Init
  <2>2. DOMAIN broker = BrokerFields /\ broker.rev = Zero /\ broker.view = 0
    BY DEF Init, BrokerFields
  <2> QED
    BY <2>1, <2>2, ZeroPair DEF BrokerOK
<1>4. checkpoint = Empty /\ CpFacts(Empty) /\ Entries(Empty) = {}
  BY EmptyFacts DEF Init
<1>5. DOMAIN job = Jobs /\ \A j \in Jobs : JobOK(job[j])
  BY IdleOK DEF Init
<1> QED
  BY <1>1, <1>2, <1>3, <1>4, <1>5 DEF IInv, Ledger
---------------------------------------------------------------------------
(* The broker and the people. *)

LEMMA Received ==
  ASSUME BrokerOK, NEW id, NEW side \in Sides, NEW rev \in Nat, NEW based, NEW content,
         Receive(id, side, rev, based, content)
  PROVE  /\ BrokerOK' /\ broker.processed \subseteq broker'.processed
         /\ Outcome(broker, id, side, rev, based, content) # "rejected" => id \in broker'.processed
<1> DEFINE o == Outcome(broker, id, side, rev, based, content)
           k == Cardinality(DOMAIN outputs)
           revs == [broker.rev EXCEPT ![side] = rev]
<1>1. o \in {"duplicate", "rejected", "stale", "conflict", "applied"}
      /\ (o = "duplicate" => id \in broker.processed)
  BY DEF Outcome
<1>2. /\ DOMAIN broker = BrokerFields /\ broker.rev \in Pairs
      /\ k \in Nat /\ DOMAIN outputs = 1 .. k /\ broker.view \in 0 .. k
      /\ \A n \in DOMAIN outputs : outputs[n].target \in Sides /\ outputs[n].revs \in Pairs
  BY DEF BrokerOK
<1>3. CASE o # "applied"
  <2>1. UNCHANGED outputs /\ DOMAIN broker' = BrokerFields /\ broker'.rev = broker.rev
        /\ broker'.view = broker.view /\ broker.processed \subseteq broker'.processed
        /\ (o # "rejected" => id \in broker'.processed)
    BY <1>1, <1>2, <1>3 DEF Receive, BrokerFields
  <2> QED
    BY <1>2, <2>1 DEF BrokerOK
<1>4. CASE o = "applied"
  <2> DEFINE out == [event |-> id, target |-> Other(side), revs |-> revs]
  <2>1. outputs' = With(outputs, k + 1, out)
    BY <1>4 DEF Receive
  <2>2. /\ DOMAIN broker' = BrokerFields /\ broker'.rev = revs
        /\ broker'.view \in {k + 1, broker.view}
        /\ broker'.processed = broker.processed \cup {id}
    BY <1>2, <1>4 DEF Receive, BrokerFields
  <2>3. revs \in Pairs /\ Other(side) \in Sides
    BY <1>2, PairUpdate DEF Other, Sides
  <2>4. DOMAIN outputs' = 1 .. k + 1 /\ outputs'[k + 1] = out /\ \A n \in 1 .. k : outputs'[n] = outputs[n]
    <3>1. /\ DOMAIN outputs' = DOMAIN outputs \cup {k + 1} /\ outputs'[k + 1] = out
          /\ \A n \in DOMAIN outputs \ {k + 1} : outputs'[n] = outputs[n]
      BY <2>1 DEF With
    <3>2. (1 .. k) \cup {k + 1} = 1 .. k + 1 /\ (1 .. k) \ {k + 1} = 1 .. k
      BY <1>2
    <3> QED
      BY <1>2, <3>1, <3>2
  <2>5. Cardinality(DOMAIN outputs') = k + 1
    BY <1>2, <2>4, FS_Interval
  <2>6. \A n \in DOMAIN outputs' : outputs'[n].target \in Sides /\ outputs'[n].revs \in Pairs
    BY <1>2, <2>3, <2>4
  <2>7. broker'.view \in 0 .. k + 1
    BY <1>2, <2>2
  <2> HIDE DEF k, revs, out
  <2>8. BrokerOK'
    BY <1>2, <2>2, <2>3, <2>4, <2>5, <2>6, <2>7 DEF BrokerOK
  <2> QED
    BY <2>2, <2>8
<1> QED
  BY <1>3, <1>4

(* The broker moves; so may a job. *)
LEMMA BrokerMoves ==
  ASSUME IInv, UNCHANGED <<files, clock, approvals, nextId, checkpoint, evidence>>,
         BrokerOK', broker.processed \subseteq broker'.processed
  PROVE  FilesOK' /\ EvidenceOK' /\ Evolve
<1>1. FilesOK' /\ EvidenceOK'
  BY DEF IInv, FilesOK, FileOK, EvidenceOK
<1> QED
  BY <1>1 DEF Evolve, Entries, FilesOK

LEMMA AnnounceIInv == ASSUME IInv, NEW e, Announce(e) PROVE IInv'
<1> DEFINE m == evidence[e]
<1>1. e \in DOMAIN evidence /\ UNCHANGED <<files, clock, approvals, nextId, checkpoint, evidence, job>>
      /\ Receive(ViaEventarc(e), m.side, m.rev, m.based, e.content)
  BY DEF Announce, driveVars
<1>2. m.side \in Sides /\ m.rev \in Nat
  BY <1>1 DEF IInv, EvidenceOK
<1> HIDE DEF m
<1>3. BrokerOK' /\ broker.processed \subseteq broker'.processed
  BY <1>1, <1>2, Received DEF IInv
<1>4. FilesOK' /\ EvidenceOK' /\ Evolve /\ DOMAIN job' = Jobs
  BY <1>1, <1>3, BrokerMoves DEF IInv
<1> QED
  BY <1>1, <1>3, <1>4, WorldMoves

LEMMA OtherEventIInv == ASSUME IInv, NEW side \in Sides, OtherEvent(side) PROVE IInv'
<1>1. PICK id, content : Receive(id, side, broker.rev[side] + 1, broker.rev, content)
  BY DEF OtherEvent
<1>2. UNCHANGED <<files, clock, approvals, nextId, checkpoint, evidence, job>>
  BY DEF OtherEvent, driveVars
<1>3. broker.rev[side] + 1 \in Nat
  BY DEF IInv, BrokerOK, Pairs
<1>4. BrokerOK' /\ broker.processed \subseteq broker'.processed
  BY <1>1, <1>3, Received DEF IInv
<1>5. FilesOK' /\ EvidenceOK' /\ Evolve /\ DOMAIN job' = Jobs
  BY <1>2, <1>4, BrokerMoves DEF IInv
<1> QED
  BY <1>2, <1>4, <1>5, WorldMoves

(* A file that was there gets a new revision. *)
LEMMA Revised ==
  ASSUME IInv, NEW f \in DOMAIN files, NEW r \in Revisions, Changed(f, r),
         r.version = files[f].version + 1, r.delivery = files[f].delivery,
         r.place \in Sides => r.place = files[f].place,
         r.content = files[f].content \/ r.content.by = "user",
         UNCHANGED <<approvals, nextId, checkpoint, evidence, broker, outputs>>
  PROVE  FilesOK' /\ EvidenceOK' /\ BrokerOK' /\ Evolve
<1> DEFINE q == [r EXCEPT !.changed = clock + 1]
<1>1. /\ files[f].version \in Nat /\ clock \in Nat /\ files \in [DOMAIN files -> Revisions]
      /\ files[f] \in Revisions /\ clock' = clock + 1 /\ files' = With(files, f, q)
  BY DEF IInv, FilesOK, Revisions, Changed
<1>2. /\ q \in Revisions /\ q.changed = clock + 1 /\ q.version = r.version /\ q.content = r.content
      /\ q.place = r.place /\ q.delivery = r.delivery
  BY <1>1 DEF Revisions
<1> HIDE DEF q
<1>3. /\ DOMAIN files' = DOMAIN files /\ files'[f] = q /\ \A g \in DOMAIN files \ {f} : files'[g] = files[g]
      /\ files' \in [DOMAIN files' -> Revisions]
  <2>1. files' \in [DOMAIN files' -> Revisions]
    BY <1>1, <1>2, WithType
  <2>2. /\ DOMAIN files' = DOMAIN files \cup {f} /\ files'[f] = q
        /\ \A g \in DOMAIN files \ {f} : files'[g] = files[g]
    BY <1>1 DEF With
  <2> QED
    BY <2>1, <2>2
<1>4. Newer(f)
  BY <1>1, <1>2, <1>3 DEF Newer
<1>5. Evolve
  BY <1>1, <1>3, <1>4 DEF Evolve, Entries
<1>6. FileOK(f)'
  <2>1. q.changed \in 1 .. clock'
    BY <1>1, <1>2
  <2>2. FileOK(f)
    BY DEF IInv, FilesOK
  <2> QED
    BY <1>2, <1>3, <2>1, <2>2 DEF FileOK, Entries, Sides
<1>7. \A g \in DOMAIN files \ {f} : FileOK(g)'
  <2> SUFFICES ASSUME NEW g \in DOMAIN files, g # f PROVE FileOK(g)'
    OBVIOUS
  <2>1. FileOK(g) /\ files'[g] = files[g]
    BY <1>3 DEF IInv, FilesOK
  <2>2. files'[g].changed \in 1 .. clock'
    BY <1>1, <2>1 DEF FileOK
  <2> QED
    BY <2>1, <2>2 DEF FileOK, Entries
<1>8. FilesOK'
  BY <1>1, <1>3, <1>6, <1>7 DEF IInv, FilesOK
<1>9. EvidenceOK' /\ BrokerOK'
  <2>1. \A g \in DOMAIN files : files[g].content.by = "user" => files'[g].content.by = "user"
    BY <1>2, <1>3
  <2> QED
    BY <1>3, <2>1 DEF IInv, EvidenceOK, BrokerOK
<1> QED
  BY <1>5, <1>8, <1>9

LEMMA EditFileIInv ==
  ASSUME IInv, NEW f \in DOMAIN files, NEW n \in 0 .. 2, EditFile(f, n) PROVE IInv'
<1> DEFINE s == files[f]
           content == IF n = 2 THEN s.content ELSE Bytes("user", n)
           r == [s EXCEPT !.version = @ + 1, !.content = IF n = 2 THEN @ ELSE Bytes("user", n),
                          !.edited = @ \/ n # 2]
<1>1. UNCHANGED <<approvals, nextId, checkpoint, evidence, broker, outputs, job>> /\ Changed(f, r)
  BY DEF EditFile, cloudVars
<1>2. s \in Revisions
  BY DEF IInv, FilesOK
<1>3. Bytes("user", n) \in Contents /\ Bytes("user", n).by = "user"
  BY DEF Bytes, Contents
<1>4. /\ r \in Revisions /\ r.version = s.version + 1 /\ r.delivery = s.delivery /\ r.place = s.place
      /\ r.content \in {s.content, Bytes("user", n)}
  <2>1. s.version + 1 \in Nat /\ s.content \in Contents /\ (s.edited \/ n # 2) \in BOOLEAN
    BY <1>2 DEF Revisions
  <2>2. content \in Contents /\ content \in {s.content, Bytes("user", n)}
    BY <1>3, <2>1
  <2>3. r = [s EXCEPT !.version = s.version + 1, !.content = content, !.edited = (s.edited \/ n # 2)]
    OBVIOUS
  <2> HIDE DEF r, s, content
  <2> QED
    BY <1>2, <2>1, <2>2, <2>3 DEF Revisions
<1> HIDE DEF r
<1>5. FilesOK' /\ EvidenceOK' /\ BrokerOK' /\ Evolve
  BY <1>1, <1>3, <1>4, Revised
<1> QED
  BY <1>1, <1>5, WorldMoves DEF IInv

LEMMA MoveFileIInv ==
  ASSUME IInv, NEW f \in DOMAIN files, NEW place \in {"trash", "elsewhere"}, MoveFile(f, place) PROVE IInv'
<1> DEFINE s == files[f]
           r == [s EXCEPT !.version = @ + 1, !.place = place]
<1>1. UNCHANGED <<approvals, nextId, checkpoint, evidence, broker, outputs, job>> /\ Changed(f, r)
  BY DEF MoveFile, cloudVars
<1>2. s \in Revisions
  BY DEF IInv, FilesOK
<1>3. /\ r \in Revisions /\ r.version = s.version + 1 /\ r.delivery = s.delivery /\ r.place \notin Sides
      /\ r.content = s.content
  <2>1. s.version + 1 \in Nat /\ place \in Places /\ place \notin Sides
    BY <1>2 DEF Revisions, Places, Sides
  <2> HIDE DEF s
  <2> QED
    BY <1>2, <2>1 DEF Revisions
<1> HIDE DEF r
<1>4. FilesOK' /\ EvidenceOK' /\ BrokerOK' /\ Evolve
  BY <1>1, <1>3, Revised
<1> QED
  BY <1>1, <1>4, WorldMoves DEF IInv

(* A file appears. *)
LEMMA Created ==
  ASSUME IInv, NEW f \in 1 .. MaxFiles, f \notin DOMAIN files, NEW r \in Revisions, Changed(f, r),
         r.content.by = "broker" => r.delivery # 0 /\ r.content = Bytes("broker", r.delivery),
         r.delivery = 0 <=> f = Export, f = Export => r.place # "boox",
         r.delivery # 0 => \E e \in Entries(checkpoint) :
                              e.delivery = r.delivery /\ e.file = f /\ e.target = r.place,
         UNCHANGED <<approvals, nextId, checkpoint, evidence, broker, outputs>>
  PROVE  /\ FilesOK' /\ EvidenceOK' /\ BrokerOK' /\ Evolve
         /\ f \in DOMAIN files' /\ files'[f].version = r.version /\ files'[f].delivery = r.delivery
<1> DEFINE q == [r EXCEPT !.changed = clock + 1]
<1>1. /\ clock \in Nat /\ files \in [DOMAIN files -> Revisions] /\ clock' = clock + 1
      /\ files' = With(files, f, q) /\ f # Original
  BY DEF IInv, FilesOK, Changed
<1>2. /\ q \in Revisions /\ q.changed = clock + 1 /\ q.version = r.version /\ q.content = r.content
      /\ q.place = r.place /\ q.delivery = r.delivery
  BY <1>1 DEF Revisions
<1> HIDE DEF q
<1>3. /\ DOMAIN files' = DOMAIN files \cup {f} /\ files'[f] = q
      /\ \A g \in DOMAIN files : files'[g] = files[g]
  <2>1. /\ DOMAIN files' = DOMAIN files \cup {f} /\ files'[f] = q
        /\ \A g \in DOMAIN files \ {f} : files'[g] = files[g]
    BY <1>1 DEF With
  <2> QED
    BY <2>1
<1>4. Evolve
  BY <1>1, <1>2, <1>3 DEF Evolve, Entries
<1>5. FileOK(f)'
  <2>1. q.changed \in 1 .. clock'
    BY <1>1, <1>2
  <2> QED
    BY <1>1, <1>2, <1>3, <2>1 DEF FileOK, Entries, Original, Export
<1>6. \A g \in DOMAIN files : FileOK(g)'
  <2> SUFFICES ASSUME NEW g \in DOMAIN files PROVE FileOK(g)'
    OBVIOUS
  <2>1. FileOK(g) /\ files'[g] = files[g]
    BY <1>3 DEF IInv, FilesOK
  <2>2. files'[g].changed \in 1 .. clock'
    BY <1>1, <2>1 DEF FileOK
  <2> QED
    BY <2>1, <2>2 DEF FileOK, Entries
<1>7. FilesOK'
  <2>1. files' \in [DOMAIN files' -> Revisions]
    BY <1>1, <1>2, WithType
  <2> QED
    BY <1>1, <1>3, <1>5, <1>6, <2>1 DEF IInv, FilesOK
<1>8. EvidenceOK' /\ BrokerOK'
  BY <1>3 DEF IInv, EvidenceOK, BrokerOK
<1> QED
  BY <1>2, <1>3, <1>4, <1>7, <1>8

LEMMA CreateExportIInv == ASSUME DriveAssumption, IInv, CreateExport PROVE IInv'
<1> DEFINE r == [version |-> 1, content |-> Bytes("user", 1), place |-> "supernote",
                 changed |-> 0, delivery |-> 0, edited |-> TRUE]
<1>1. UNCHANGED <<approvals, nextId, checkpoint, evidence, broker, outputs, job>> /\ Changed(Export, r)
      /\ Export \notin DOMAIN files
  BY DEF CreateExport, cloudVars
<1>2. /\ r \in Revisions /\ r.content.by = "user" /\ r.delivery = 0 /\ r.place = "supernote"
  BY DEF Revisions, Contents, Bytes, Places, Sides
<1>3. Export \in 1 .. MaxFiles
  BY DEF DriveAssumption, Export
<1> HIDE DEF r
<1>4. FilesOK' /\ EvidenceOK' /\ BrokerOK' /\ Evolve
  BY <1>1, <1>2, <1>3, Created
<1> QED
  BY <1>1, <1>4, WorldMoves DEF IInv

LEMMA ApproveIInv == ASSUME IInv, NEW f \in DOMAIN files, Approve(f) PROVE IInv'
<1>1. /\ UNCHANGED <<files, clock, nextId, checkpoint, evidence, broker, outputs, job>>
      /\ f = Original => files[f].content = Clean
      /\ approvals' = With(approvals, f, EventOf(f, files[f]))
  BY DEF Approve, cloudVars
<1>2. EventOf(f, files[f]) \in Events /\ EventOf(f, files[f]).content = files[f].content
  BY DEF IInv, FilesOK, EventOf, Events, Revisions
<1>3. approvals' \in [DOMAIN approvals' -> Events]
  BY <1>1, <1>2, WithType DEF IInv, FilesOK
<1>4. Original \in DOMAIN approvals' => approvals'[Original].content = Clean
  <2>1. /\ DOMAIN approvals' = DOMAIN approvals \cup {f} /\ approvals'[f] = EventOf(f, files[f])
        /\ \A g \in DOMAIN approvals \ {f} : approvals'[g] = approvals[g]
    BY <1>1 DEF With
  <2> QED
    BY <1>1, <1>2, <2>1 DEF IInv, FilesOK
<1>5. FilesOK'
  <2>1. \A g \in DOMAIN files' : FileOK(g)'
    BY <1>1 DEF IInv, FilesOK, FileOK, Entries
  <2> QED
    BY <1>1, <1>3, <1>4, <2>1 DEF IInv, FilesOK
<1>6. EvidenceOK' /\ BrokerOK' /\ Evolve
  BY <1>1 DEF IInv, EvidenceOK, BrokerOK, Evolve, Entries, FilesOK
<1> QED
  BY <1>1, <1>5, <1>6, WorldMoves DEF IInv
---------------------------------------------------------------------------
(* The commits of the planner keep a checkpoint true and valid. *)

(* Facts of one file against a ledger that has its delivery. *)
LEMMA FileOfEntry ==
  ASSUME IInv, NEW p \in Reservations, Entry(p) \in Entries(checkpoint), p.file \in DOMAIN files
  PROVE  /\ files[p.file].delivery = p.delivery /\ p.delivery # 0
         /\ files[p.file].place \in Sides => files[p.file].place = p.target
<1>1. /\ Entry(p).file = p.file /\ Entry(p).delivery = p.delivery /\ Entry(p).target = p.target
  BY DEF Entry
<1>2. p.file \in 3 .. nextId - 1 /\ p.delivery # 0
  BY <1>1 DEF IInv, Ledger
<1>3. p.file \notin {Original, Export}
  BY <1>2 DEF Original, Export
<1>4. PICK r \in Entries(checkpoint) : /\ r.delivery = files[p.file].delivery /\ r.file = p.file
                                       /\ files[p.file].place \in Sides => files[p.file].place = r.target
  BY <1>3 DEF IInv, FilesOK, FileOK
<1>5. r = Entry(p)
  BY <1>1, <1>4 DEF IInv, Ledger
<1> QED
  BY <1>1, <1>2, <1>4, <1>5

LEMMA AcceptInputFacts ==
  ASSUME IInv, NEW c, CpFacts(c), NEW p \in c.pendIn, ViaDrive(p.event) \in broker.processed
  PROVE  /\ CpFacts(AcceptInput(c, p)) /\ Entries(AcceptInput(c, p)) = Entries(c)
         /\ AcceptInput(c, p).pendIn = c.pendIn \ {p} /\ AcceptInput(c, p).token = c.token
<1>1. PICK d : d = AcceptInput(c, p)
  OBVIOUS
<1> DEFINE f == p.event.file
<1>2. /\ DOMAIN d = CpFields /\ d.token = c.token /\ d.bound = c.bound
      /\ d.accepted = With(c.accepted, f, p.event.content)
      /\ d.front = With(c.front, f, p.proposed) /\ d.processed = c.processed
      /\ d.pendIn = c.pendIn \ {p} /\ d.pendOut = c.pendOut /\ d.delivered = c.delivered
  BY <1>1 DEF AcceptInput, CpFacts, CpType, CpFields
<1>3. /\ p \in Inputs /\ p.event \in Events /\ p.event.content \in Contents /\ p.proposed \in Pairs
      /\ p.event \in c.processed /\ f \in DOMAIN c.bound /\ f \in DOMAIN c.front
      /\ p.event \in DOMAIN evidence
  BY DEF CpFacts, CpType, Inputs, Events, CpSound, Valid, Binding, CpInputs
<1>4. /\ p.event.content.by = "user" /\ f \in DOMAIN files /\ files[f].content.by = "user"
      /\ files[f].version \in Nat /\ files[f].changed \in Nat /\ p.event.version \in Nat
  BY <1>3 DEF IInv, EvidenceOK, FilesOK, Revisions, Events
<1>5. /\ DOMAIN d.accepted = DOMAIN c.accepted \cup {f} /\ d.accepted[f] = p.event.content
      /\ \A g \in DOMAIN c.accepted \ {f} : d.accepted[g] = c.accepted[g]
  BY <1>2 DEF With
<1>6. /\ DOMAIN d.front = DOMAIN c.front \cup {f} /\ d.front[f] = p.proposed
      /\ \A g \in DOMAIN c.front \ {f} : d.front[g] = c.front[g]
  BY <1>2 DEF With
<1>7. CpType(d)
  <2>1. d.accepted \in [DOMAIN d.accepted -> Contents]
    BY <1>2, <1>3 DEF CpFacts, CpType, With
  <2>2. d.front \in [DOMAIN d.front -> Pairs]
    BY <1>2, <1>3 DEF CpFacts, CpType, With
  <2> QED
    BY <1>2, <2>1, <2>2 DEF CpFacts, CpType
<1>8. CpSound(d)
  <2>1. Valid(d)
    <3>1. DOMAIN d.accepted \subseteq DOMAIN d.bound /\ DOMAIN d.front = DOMAIN d.bound
      BY <1>2, <1>3, <1>5, <1>6 DEF CpFacts, CpSound, Valid
    <3>2. \A q \in d.pendIn : q \in c.pendIn /\ q.event.file # f
      BY <1>2 DEF CpFacts, CpSound, Valid
    <3>3. \A q \in d.pendIn : d.front[q.event.file] = q.previous
      BY <1>6, <3>2 DEF CpFacts, CpSound, Valid, Binding
    <3>4. \A q \in d.pendIn :
            /\ q.event \in d.processed
            /\ \A s \in d.pendIn : s.event.file = q.event.file => s = q
            /\ Binding(d, q.event.file) /\ d.bound[q.event.file] = q.side
            /\ q.proposed[q.side] > q.previous[q.side]
            /\ q.proposed[Other(q.side)] = q.previous[Other(q.side)]
      BY <1>2 DEF CpFacts, CpSound, Valid, Binding
    <3>5. /\ \A q \in d.pendOut : ~ \E x \in d.delivered : x.delivery = q.delivery
          /\ \A x \in d.delivered : Binding(d, x.file) /\ d.bound[x.file] = x.target
      BY <1>2 DEF CpFacts, CpSound, Valid, Binding
    <3> QED
      BY <3>1, <3>3, <3>4, <3>5 DEF Valid
  <2> QED
    BY <1>2, <1>5, <2>1 DEF CpFacts, CpSound, Binding
<1>9. CpFiles(d)
  BY <1>2, <1>4, <1>5 DEF CpFacts, CpFiles
<1>10. ASSUME NEW g \in DOMAIN files, Handled(c, g),
              EventOf(g, files[g]) \in c.processed \/ (c.token # None /\ files[g].changed <= c.token)
       PROVE  Handled(d, g)
  <2>1. CASE g # f
    BY <1>5, <1>10, <2>1 DEF Handled
  <2>2. CASE g = f /\ EventOf(f, files[f]) = p.event
    BY <1>3, <2>2 DEF Handled
  <2>3. CASE g = f /\ files[f].version > p.event.version
                   /\ (c.token # None => files[f].changed > c.token)
    <3>1. EventOf(f, files[f]) \notin c.processed
      <4>1. EventOf(f, files[f]).file = f /\ EventOf(f, files[f]).version = files[f].version
        BY DEF EventOf
      <4> QED
        BY <1>4, <2>3, <4>1 DEF CpFacts, CpInputs
    <3>2. c.token # None => c.token \in Nat
      BY DEF CpFacts, CpType
    <3> QED
      BY <1>4, <1>10, <2>3, <3>1, <3>2
  <2> QED
    BY <2>1, <2>2, <2>3 DEF CpFacts, CpInputs, Settled
<1>11. CpFeed(d)
  BY <1>2, <1>10 DEF CpFacts, CpFeed
<1>12. CpInputs(d)
  BY <1>2 DEF CpFacts, CpInputs
<1>13. CpHandled(d)
  BY <1>3, <1>5 DEF CpFacts, CpHandled
<1>14. Entries(d) = Entries(c)
  BY <1>2 DEF Entries
<1> QED
  BY <1>1, <1>2, <1>7, <1>8, <1>9, <1>11, <1>12, <1>13, <1>14 DEF CpFacts

LEMMA RejectInputFacts ==
  ASSUME NEW c, CpFacts(c), NEW p \in c.pendIn
  PROVE  /\ CpFacts(RejectInput(c, p)) /\ Entries(RejectInput(c, p)) = Entries(c)
         /\ RejectInput(c, p).pendIn = c.pendIn \ {p} /\ RejectInput(c, p).token = c.token
         /\ RejectInput(c, p).accepted = c.accepted
<1>1. PICK d : d = RejectInput(c, p)
  OBVIOUS
<1>2. /\ DOMAIN d = CpFields /\ d.token = c.token /\ d.bound = c.bound
      /\ d.accepted = c.accepted /\ d.front = c.front /\ d.processed = c.processed
      /\ d.pendIn = c.pendIn \ {p} /\ d.pendOut = c.pendOut /\ d.delivered = c.delivered
  BY <1>1, RejectInputFields DEF CpFacts, CpType
<1>3. CpType(d)
  BY <1>2 DEF CpFacts, CpType
<1>4. CpSound(d)
  BY <1>2 DEF CpFacts, CpSound, Valid, Binding
<1>5. CpFiles(d) /\ CpFeed(d) /\ CpInputs(d) /\ CpHandled(d)
  <2>1. CpInputs(d)
    BY <1>2 DEF CpFacts, CpInputs
  <2> QED
    BY <1>2, <2>1 DEF CpFacts, CpFiles, CpFeed, CpHandled, Handled
<1>6. Entries(d) = Entries(c)
  BY <1>2 DEF Entries
<1> QED
  BY <1>1, <1>2, <1>3, <1>4, <1>5, <1>6 DEF CpFacts

LEMMA ReserveOutputFacts ==
  ASSUME BrokerOK, NEW c, CpFacts(c), NEW n \in DOMAIN outputs, NEW id \in Nat, id >= 3,
         Ledger(Entries(c), id)
  PROVE  LET d == ReserveOutput(c, n, id)
         IN  /\ CpFacts(d) /\ Entries(c) \subseteq Entries(d) /\ Ledger(Entries(d), id + 1)
             /\ d.pendIn = c.pendIn /\ d.token = c.token /\ d.accepted = c.accepted
<1>1. PICK d : d = ReserveOutput(c, n, id)
  OBVIOUS
<1>2. CASE \E r \in c.pendOut \cup c.delivered : r.delivery = n
  <2>1. d = c
    BY <1>1, <1>2 DEF ReserveOutput
  <2>2. Ledger(Entries(c), id + 1)
    BY DEF Ledger
  <2> QED
    BY <1>1, <2>1, <2>2
<1>3. CASE ~ \E r \in c.pendOut \cup c.delivered : r.delivery = n
  <2>1. PICK r : r = Reservation(n, id)
    OBVIOUS
  <2>2. /\ DOMAIN d = CpFields /\ d.token = c.token /\ d.bound = c.bound
        /\ d.accepted = c.accepted /\ d.front = c.front /\ d.processed = c.processed
        /\ d.pendIn = c.pendIn /\ d.pendOut = c.pendOut \cup {r} /\ d.delivered = c.delivered
    BY <1>1, <1>3, <2>1, ReserveOutputFields DEF CpFacts, CpType
  <2>3. r \in Reservations /\ r.delivery = n /\ n # 0 /\ r.file = id
    BY <2>1 DEF Reservation, BrokerOK, Reservations
  <2>4. CpType(d)
    BY <2>2, <2>3 DEF CpFacts, CpType
  <2>5. CpSound(d)
    <3>1. \A q \in d.pendOut : ~ \E x \in d.delivered : x.delivery = q.delivery
      BY <1>3, <2>2, <2>3 DEF CpFacts, CpSound, Valid
    <3>2. \A q, s \in d.pendOut : q.delivery = s.delivery => q = s
      BY <1>3, <2>2, <2>3 DEF CpFacts, CpSound
    <3> QED
      BY <2>2, <3>1, <3>2 DEF CpFacts, CpSound, Valid, Binding
  <2>6. CpFiles(d) /\ CpFeed(d) /\ CpInputs(d) /\ CpHandled(d)
    <3>1. CpInputs(d)
      BY <2>2 DEF CpFacts, CpInputs
    <3> QED
      BY <2>2, <3>1 DEF CpFacts, CpFiles, CpFeed, CpHandled, Handled
  <2>7. Entries(d) = Entries(c) \cup {Entry(r)}
    BY <2>2 DEF Entries
  <2>8. Entry(r).delivery = n /\ Entry(r).file = id
    BY <2>3 DEF Entry
  <2>9. \A x \in Entries(c) : x.delivery # n /\ x.file \in 3 .. id - 1
    BY <1>3 DEF Entries, Entry, Ledger
  <2>10. Ledger(Entries(d), id + 1)
    <3>1. \A x \in Entries(d) : x.delivery # 0 /\ x.file \in 3 .. (id + 1) - 1
      BY <2>3, <2>7, <2>8, <2>9 DEF Ledger
    <3>2. \A x, y \in Entries(d) : x.delivery = y.delivery \/ x.file = y.file => x = y
      BY <2>7, <2>8, <2>9 DEF Ledger
    <3> QED
      BY <3>1, <3>2 DEF Ledger
  <2> QED
    BY <1>1, <2>2, <2>4, <2>5, <2>6, <2>7, <2>10 DEF CpFacts
<1> QED
  BY <1>2, <1>3

LEMMA DriveOutputFacts ==
  ASSUME IInv, NEW c, CpFacts(c), Entries(c) \subseteq Entries(checkpoint),
         NEW p \in c.pendOut, NEW v \in Nat,
         p.file \in DOMAIN files, v <= files[p.file].version
  PROVE  LET d == commit_drive_output(c, p, v)
         IN  /\ CpFacts(d) /\ Entries(d) = Entries(c)
             /\ d.pendIn = c.pendIn /\ d.token = c.token
             /\ \A g \in DOMAIN files : Handled(c, g) => Handled(d, g)
<1>1. PICK d : d = commit_drive_output(c, p, v)
  OBVIOUS
<1> DEFINE f == p.file
           content == Bytes("broker", p.delivery)
           ev == [file |-> f, version |-> v, content |-> content]
<1>2. CpFacts(c) /\ p \in c.pendOut
  OBVIOUS
<1>3. /\ DOMAIN d = CpFields /\ d.token = c.token /\ d.bound = With(c.bound, f, p.target)
      /\ d.accepted = With(c.accepted, f, content) /\ d.front = With(c.front, f, p.revs)
      /\ d.processed = c.processed \cup {ev} /\ d.pendIn = c.pendIn
      /\ d.pendOut = c.pendOut \ {p} /\ d.delivered = c.delivered \cup {Entry(p)}
  BY <1>1, <1>2, DriveOutputFields DEF CpFacts, CpType
<1>4. /\ p \in Reservations /\ p.delivery \in Nat /\ f \in Nat /\ p.target \in Sides /\ p.revs \in Pairs
      /\ Entry(p) \in Entries(c) /\ Entry(p) \in Deliveries
      /\ Entry(p).delivery = p.delivery /\ Entry(p).file = f /\ Entry(p).target = p.target
  BY <1>1, <1>2 DEF CpFacts, CpType, Reservations, Deliveries, Entry, Entries
<1>5. /\ files[f].delivery = p.delivery /\ p.delivery # 0
      /\ files[f].place \in Sides => files[f].place = p.target
  BY <1>4, FileOfEntry
<1>6. f \notin DOMAIN c.bound
  <2> SUFFICES ASSUME f \in DOMAIN c.bound PROVE FALSE
    OBVIOUS
  <2>1. f \notin {Original, Export}
    BY <1>4 DEF IInv, Ledger, Original, Export
  <2>2. PICK x \in c.delivered : x.file = f
    BY <1>2, <2>1 DEF CpFacts, CpSound
  <2>3. x = Entry(p)
    BY <1>4, <2>2 DEF IInv, Ledger, Entries
  <2> QED
    BY <1>2, <1>4, <2>2, <2>3 DEF CpFacts, CpSound, Valid
<1>7. f \notin DOMAIN c.accepted /\ f \notin DOMAIN c.front
  BY <1>2, <1>6 DEF CpFacts, CpSound, Valid
<1>8. /\ DOMAIN d.bound = DOMAIN c.bound \cup {f} /\ d.bound[f] = p.target
      /\ \A g \in DOMAIN c.bound : d.bound[g] = c.bound[g]
  BY <1>3, <1>6 DEF With
<1>9. /\ DOMAIN d.accepted = DOMAIN c.accepted \cup {f} /\ d.accepted[f] = content
      /\ \A g \in DOMAIN c.accepted : d.accepted[g] = c.accepted[g]
  BY <1>3, <1>7 DEF With
<1>10. /\ DOMAIN d.front = DOMAIN c.front \cup {f}
       /\ \A g \in DOMAIN c.front : d.front[g] = c.front[g]
  BY <1>3, <1>7 DEF With
<1>11. /\ content \in Contents /\ content.by = "broker" /\ ev \in Events /\ ev.file = f /\ ev.version = v
       /\ ev.content = content
  BY <1>4 DEF Bytes, Contents, Events
<1>12. CpType(d)
  <2>1. d.bound \in [DOMAIN d.bound -> Sides]
    BY <1>2, <1>3, <1>4 DEF CpFacts, CpType, With
  <2>2. d.accepted \in [DOMAIN d.accepted -> Contents]
    BY <1>2, <1>3, <1>11 DEF CpFacts, CpType, With
  <2>3. d.front \in [DOMAIN d.front -> Pairs]
    BY <1>2, <1>3, <1>4 DEF CpFacts, CpType, With
  <2> QED
    BY <1>2, <1>3, <1>4, <1>11, <2>1, <2>2, <2>3 DEF CpFacts, CpType
<1>13. CpSound(d)
  <2>1. \A q \in d.pendOut : ~ \E x \in d.delivered : x.delivery = q.delivery
    BY <1>2, <1>3, <1>4 DEF CpFacts, CpSound, Valid
  <2>2. \A x \in d.delivered : x.file \in DOMAIN d.bound /\ d.bound[x.file] = x.target
    BY <1>2, <1>3, <1>4, <1>8 DEF CpFacts, CpSound, Valid, Binding
  <2>3. DOMAIN d.accepted \subseteq DOMAIN d.bound /\ DOMAIN d.front = DOMAIN d.bound
    BY <1>2, <1>8, <1>9, <1>10 DEF CpFacts, CpSound, Valid
  <2>4. \A q \in d.pendIn :
          /\ q.event \in d.processed
          /\ \A s \in d.pendIn : s.event.file = q.event.file => s = q
          /\ q.event.file \in DOMAIN c.bound /\ c.bound[q.event.file] = q.side
          /\ c.front[q.event.file] = q.previous /\ q.event.file \in DOMAIN c.front
          /\ q.proposed[q.side] > q.previous[q.side]
          /\ q.proposed[Other(q.side)] = q.previous[Other(q.side)]
    BY <1>2, <1>3 DEF CpFacts, CpSound, Valid, Binding
  <2>5. Valid(d)
    BY <1>8, <1>10, <2>1, <2>2, <2>3, <2>4 DEF Valid, Binding
  <2>6. \A g \in DOMAIN d.bound : g \in {Original, Export} \/ \E x \in d.delivered : x.file = g
    BY <1>2, <1>3, <1>4, <1>8 DEF CpFacts, CpSound
  <2>7. \A x \in d.delivered : x.file \in DOMAIN d.accepted
    BY <1>2, <1>3, <1>4, <1>9 DEF CpFacts, CpSound
  <2>8. \A e \in d.processed : Binding(d, e.file)
    BY <1>2, <1>3, <1>8, <1>11 DEF CpFacts, CpSound, Binding
  <2> QED
    BY <1>2, <1>3, <2>5, <2>6, <2>7, <2>8 DEF CpFacts, CpSound
<1>14. CpFiles(d)
  <2>1. \A g \in DOMAIN d.bound :
          g \in DOMAIN files /\ (files[g].place \in Sides => files[g].place = d.bound[g])
    BY <1>2, <1>5, <1>8 DEF CpFacts, CpFiles
  <2>2. \A g \in DOMAIN d.accepted :
          /\ d.accepted[g].by = "user" => files[g].content.by = "user"
          /\ d.accepted[g].by = "broker" => d.accepted[g] = Bytes("broker", files[g].delivery)
    BY <1>2, <1>5, <1>9, <1>11 DEF CpFacts, CpFiles
  <2>3. \A e \in d.processed : e.file \in DOMAIN files /\ e.version <= files[e.file].version
    BY <1>2, <1>3, <1>11 DEF CpFacts, CpFiles
  <2> QED
    BY <2>1, <2>2, <2>3 DEF CpFiles
<1>15. \A g \in DOMAIN files : Handled(c, g) => Handled(d, g)
  BY <1>9 DEF Handled
<1>16. CpFeed(d)
  <2>1. \A g \in DOMAIN files : EventOf(g, files[g]) = ev => Handled(d, g)
    BY <1>5, <1>11 DEF EventOf, Handled
  <2> QED
    BY <1>2, <1>3, <1>15, <2>1 DEF CpFacts, CpFeed
<1>17. CpInputs(d)
  <2>1. \A q \in c.pendIn : q.event.file # f
    BY <1>2, <1>6 DEF CpFacts, CpSound, Valid, Binding
  <2> QED
    BY <1>2, <1>3, <1>11, <2>1 DEF CpFacts, CpInputs
<1>18. CpHandled(d)
  BY <1>2, <1>9, <1>11 DEF CpFacts, CpHandled
<1>19. Entries(d) = Entries(c)
  BY <1>2, <1>3 DEF Entries
<1> QED
  BY <1>1, <1>3, <1>12, <1>13, <1>14, <1>15, <1>16, <1>17, <1>18, <1>19 DEF CpFacts

(* A file nobody bound is bound, by an approval. *)
LEMMA BindFacts ==
  ASSUME IInv, NEW c, CpFacts(c), Entries(c) \subseteq Entries(checkpoint), c.pendIn = {},
         NEW f \in {Original, Export}, f \in DOMAIN files, f \notin DOMAIN c.bound,
         NEW s \in Sides, files[f].place \in Sides => files[f].place = s
  PROVE  LET d == Bound(c, f, s, Zero)
         IN  /\ CpFacts(d) /\ Entries(d) = Entries(c) /\ DOMAIN d.bound = DOMAIN c.bound \cup {f}
             /\ DOMAIN d = CpFields
             /\ d.pendIn = {} /\ d.pendOut = c.pendOut /\ d.token = c.token
             /\ d.accepted = c.accepted /\ d.processed = c.processed /\ d.delivered = c.delivered
<1>1. PICK d : d = Bound(c, f, s, Zero)
  OBVIOUS
<1>2. /\ DOMAIN d = CpFields /\ d.token = c.token /\ d.bound = With(c.bound, f, s)
      /\ d.accepted = c.accepted /\ d.front = With(c.front, f, Zero) /\ d.processed = c.processed
      /\ d.pendIn = c.pendIn /\ d.pendOut = c.pendOut /\ d.delivered = c.delivered
  BY <1>1, BoundFields DEF CpFacts, CpType
<1>3. f \notin DOMAIN c.front
  BY DEF CpFacts, CpSound, Valid
<1>4. /\ DOMAIN d.bound = DOMAIN c.bound \cup {f} /\ d.bound[f] = s
      /\ \A g \in DOMAIN c.bound : d.bound[g] = c.bound[g]
  BY <1>2 DEF With
<1>5. DOMAIN d.front = DOMAIN c.front \cup {f}
  BY <1>2 DEF With
<1>6. CpType(d)
  <2>1. d.bound \in [DOMAIN d.bound -> Sides]
    BY <1>2 DEF CpFacts, CpType, With
  <2>2. d.front \in [DOMAIN d.front -> Pairs]
    BY <1>2, ZeroPair DEF CpFacts, CpType, With
  <2> QED
    BY <1>2, <2>1, <2>2 DEF CpFacts, CpType
<1>7. CpSound(d)
  <2>1. \A x \in d.delivered : x.file \in DOMAIN d.bound /\ d.bound[x.file] = x.target
    BY <1>2, <1>4 DEF CpFacts, CpSound, Valid, Binding
  <2>2. DOMAIN d.accepted \subseteq DOMAIN d.bound /\ DOMAIN d.front = DOMAIN d.bound
    BY <1>2, <1>4, <1>5 DEF CpFacts, CpSound, Valid
  <2>3. Valid(d)
    BY <1>2, <2>1, <2>2 DEF CpFacts, CpSound, Valid, Binding
  <2> QED
    BY <1>2, <1>4, <2>3 DEF CpFacts, CpSound, Binding
<1>8. CpFiles(d)
  BY <1>2, <1>4 DEF CpFacts, CpFiles
<1>9. CpFeed(d) /\ CpInputs(d) /\ CpHandled(d)
  BY <1>2 DEF CpFacts, CpFeed, CpInputs, CpHandled, Handled
<1>10. Entries(d) = Entries(c)
  BY <1>2 DEF Entries
<1> QED
  BY <1>1, <1>2, <1>4, <1>6, <1>7, <1>8, <1>9, <1>10 DEF CpFacts

LEMMA RegistrationFacts ==
  ASSUME IInv, NEW c, CpFacts(c), Entries(c) \subseteq Entries(checkpoint), c.pendIn = {},
         NEW ch \in Items, ch.file = Original, Original \notin DOMAIN c.bound,
         ch.rev.content = Clean, ch.rev.version <= files[Original].version
  PROVE  LET d == commit_original_registration(c, ch)
         IN  /\ CpFacts(d) /\ Entries(d) = Entries(c) /\ d.pendIn = {} /\ d.pendOut = c.pendOut
             /\ d.token = c.token /\ Original \in DOMAIN d.accepted /\ d.accepted[Original] = Clean
             /\ \A g \in DOMAIN files : Handled(c, g) => Handled(d, g)
<1>1. PICK d, b : d = commit_original_registration(c, ch) /\ b = Bound(c, Original, "boox", Zero)
  OBVIOUS
<1> DEFINE ev == EventOf(Original, ch.rev)
<1>2. Original \in DOMAIN files /\ files[Original].place # "supernote" /\ "boox" \in Sides
      /\ files[Original].delivery = 0 /\ files[Original].content \in Contents
      /\ files[Original].content.by # "broker"
  BY DEF IInv, FilesOK, FileOK, Sides, Revisions
<1>3. /\ CpFacts(b) /\ Entries(b) = Entries(c) /\ DOMAIN b.bound = DOMAIN c.bound \cup {Original}
      /\ DOMAIN b = CpFields /\ b.pendIn = {} /\ b.pendOut = c.pendOut /\ b.token = c.token
      /\ b.accepted = c.accepted /\ b.processed = c.processed /\ b.delivered = c.delivered
  BY <1>1, <1>2, BindFacts DEF Sides
<1>4. /\ DOMAIN d = CpFields /\ d.token = b.token /\ d.bound = b.bound /\ d.front = b.front
      /\ d.accepted = With(b.accepted, Original, Clean) /\ d.processed = b.processed \cup {ev}
      /\ d.pendIn = b.pendIn /\ d.pendOut = b.pendOut /\ d.delivered = b.delivered
  BY <1>1, <1>3 DEF commit_original_registration, CpFields
<1>5. Original \notin DOMAIN b.accepted
  BY <1>3 DEF CpFacts, CpSound, Valid
<1>6. /\ DOMAIN d.accepted = DOMAIN b.accepted \cup {Original} /\ d.accepted[Original] = Clean
      /\ \A g \in DOMAIN b.accepted : d.accepted[g] = b.accepted[g]
  BY <1>4, <1>5 DEF With
<1>7. /\ ev \in Events /\ ev.file = Original /\ ev.version = ch.rev.version /\ ev.content = Clean
      /\ Clean \in Contents /\ Clean.by = "user"
  BY DEF EventOf, Events, Items, Revisions, Clean, Bytes, Contents
<1>8. CpType(d)
  <2>1. d.accepted \in [DOMAIN d.accepted -> Contents]
    BY <1>3, <1>4, <1>7 DEF CpFacts, CpType, With
  <2> QED
    BY <1>3, <1>4, <1>7, <2>1 DEF CpFacts, CpType
<1>9. CpSound(d)
  <2>1. \A q \in d.pendOut : ~ \E x \in d.delivered : x.delivery = q.delivery
    BY <1>3, <1>4 DEF CpFacts, CpSound, Valid
  <2>2. \A x \in d.delivered : x.file \in DOMAIN d.bound /\ d.bound[x.file] = x.target
    BY <1>3, <1>4 DEF CpFacts, CpSound, Valid, Binding
  <2>3. DOMAIN d.accepted \subseteq DOMAIN d.bound /\ DOMAIN d.front = DOMAIN d.bound
    BY <1>3, <1>4, <1>6 DEF CpFacts, CpSound, Valid
  <2>4. Valid(d)
    BY <1>3, <1>4, <2>1, <2>2, <2>3 DEF Valid, Binding
  <2> QED
    BY <1>3, <1>4, <1>6, <1>7, <2>4 DEF CpFacts, CpSound, Binding
<1>10. CpFiles(d)
  <2>1. files[Original].content.by = "user"
    BY <1>2 DEF Contents
  <2>2. \A g \in DOMAIN d.accepted :
          /\ d.accepted[g].by = "user" => files[g].content.by = "user"
          /\ d.accepted[g].by = "broker" => d.accepted[g] = Bytes("broker", files[g].delivery)
    BY <1>3, <1>6, <1>7, <2>1 DEF CpFacts, CpFiles
  <2>3. \A e \in d.processed : e.file \in DOMAIN files /\ e.version <= files[e.file].version
    BY <1>2, <1>3, <1>4, <1>7 DEF CpFacts, CpFiles
  <2> QED
    BY <1>3, <1>4, <2>2, <2>3 DEF CpFacts, CpFiles
<1>11. \A g \in DOMAIN files : Handled(c, g) => Handled(d, g)
  BY <1>3, <1>6 DEF Handled
<1>12. \A g \in DOMAIN files : Handled(b, g) => Handled(d, g)
  BY <1>6 DEF Handled
<1>13. CpFeed(d)
  <2>1. \A g \in DOMAIN files : EventOf(g, files[g]) = ev => Handled(d, g)
    BY <1>6, <1>7 DEF EventOf, Handled
  <2> QED
    BY <1>3, <1>4, <1>12, <2>1 DEF CpFacts, CpFeed
<1>14. CpInputs(d) /\ CpHandled(d)
  BY <1>3, <1>4, <1>6 DEF CpFacts, CpInputs, CpHandled
<1>15. Entries(d) = Entries(c)
  BY <1>3, <1>4 DEF Entries
<1> QED
  BY <1>1, <1>3, <1>4, <1>6, <1>8, <1>9, <1>10, <1>11, <1>13, <1>14, <1>15 DEF CpFacts

LEMMA DriveInputFacts ==
  ASSUME IInv, NEW c, CpFacts(c), c.pendIn = {}, NEW p \in Inputs,
         p.event \in DOMAIN evidence, p.event.file \in DOMAIN c.bound,
         p.side = c.bound[p.event.file], p.previous = c.front[p.event.file],
         p.proposed[p.side] > p.previous[p.side],
         p.proposed[Other(p.side)] = p.previous[Other(p.side)],
         p.event.version <= files[p.event.file].version, Settled(p, {c.token} \ {None}),
         \A e \in c.processed : e.file = p.event.file => e.version <= p.event.version
  PROVE  LET d == commit_drive_input(c, p)
         IN  /\ CpFacts(d) /\ Entries(d) = Entries(c) /\ d.pendIn = {p} /\ d.pendOut = c.pendOut
             /\ d.token = c.token /\ d.accepted = c.accepted
<1>1. PICK d : d = commit_drive_input(c, p)
  OBVIOUS
<1>2. /\ DOMAIN d = CpFields /\ d.token = c.token /\ d.bound = c.bound
      /\ d.accepted = c.accepted /\ d.front = c.front
      /\ d.processed = c.processed \cup {p.event} /\ d.pendIn = {p}
      /\ d.pendOut = c.pendOut /\ d.delivered = c.delivered
  BY <1>1 DEF commit_drive_input, CpFacts, CpType, CpFields
<1>3. p.event \in Events /\ p.event.version \in Nat
  BY DEF Inputs, Events
<1>4. CpType(d)
  BY <1>2, <1>3 DEF CpFacts, CpType
<1>5. CpSound(d)
  <2>1. Valid(d)
    BY <1>2 DEF CpFacts, CpSound, Valid, Binding
  <2> QED
    BY <1>2, <2>1 DEF CpFacts, CpSound, Binding
<1>6. CpFiles(d)
  <2>1. p.event.file \in DOMAIN files
    BY DEF CpFacts, CpFiles
  <2> QED
    BY <1>2, <2>1 DEF CpFacts, CpFiles
<1>7. CpFeed(d)
  BY <1>2 DEF CpFacts, CpFeed, Handled
<1>8. CpInputs(d)
  BY <1>2, <1>3 DEF CpInputs
<1>9. CpHandled(d)
  BY <1>2 DEF CpFacts, CpHandled
<1>10. Entries(d) = Entries(c)
  BY <1>2 DEF Entries
<1> QED
  BY <1>1, <1>2, <1>4, <1>5, <1>6, <1>7, <1>8, <1>9, <1>10 DEF CpFacts

LEMMA PageTokenFacts ==
  ASSUME IInv, NEW c, CpFacts(c), c.pendIn = {}, NEW s \in 1 .. clock,
         \A f \in DOMAIN files : files[f].changed <= s /\ files[f].place \in Sides => Handled(c, f)
  PROVE  LET d == commit_page_token(c, s) IN CpFacts(d) /\ Entries(d) = Entries(c)
<1>1. PICK d : d = commit_page_token(c, s)
  OBVIOUS
<1>2. /\ DOMAIN d = CpFields /\ d.token = s /\ d.bound = c.bound
      /\ d.accepted = c.accepted /\ d.front = c.front /\ d.processed = c.processed
      /\ d.pendIn = {} /\ d.pendOut = c.pendOut /\ d.delivered = c.delivered
  BY <1>1, PageTokenFields DEF CpFacts, CpType
<1>3. CpType(d)
  BY <1>2 DEF CpFacts, CpType, IInv, FilesOK
<1>4. CpSound(d)
  BY <1>2 DEF CpFacts, CpSound, Valid, Binding
<1>5. CpFiles(d) /\ CpFeed(d) /\ CpInputs(d) /\ CpHandled(d)
  BY <1>2 DEF CpFacts, CpFiles, CpFeed, CpInputs, CpHandled, Handled
<1>6. Entries(d) = Entries(c)
  BY <1>2 DEF Entries
<1> QED
  BY <1>1, <1>3, <1>4, <1>5, <1>6 DEF CpFacts
---------------------------------------------------------------------------
(* The steps of a job, pending inputs and outputs first. *)

LEMMA StartIInv == ASSUME IInv, NEW j \in Jobs, Start(j) PROVE IInv'
<1>1. PICK n : n = [Idle EXCEPT !.pc = "inputs", !.base = checkpoint, !.cp = checkpoint]
  OBVIOUS
<1>2. /\ job' = [job EXCEPT ![j] = n]
      /\ UNCHANGED <<files, clock, approvals, nextId, checkpoint, evidence, broker, outputs>>
  BY <1>1 DEF Start, driveVars, cloudVars
<1>3. /\ DOMAIN n = JobFields /\ n.pc = "inputs" /\ n.phase = "recover" /\ n.succ = 0 /\ n.todo = {}
      /\ n.result = "none" /\ n.base = checkpoint /\ n.cp = checkpoint
  BY <1>1 DEF Idle, JobFields
<1>4. JobType(n) /\ JobPhase(n) /\ JobTodo(n) /\ JobItem(n) /\ JobMade(n) /\ JobPage(n)
  BY <1>3 DEF JobType, JobPhase, JobTodo, JobItem, JobMade, JobPage, Pcs, OfPage, OnItem
<1>5. JobOK(n)
  BY <1>3, <1>4 DEF JobOK, JobCore, IInv
<1> QED
  BY <1>2, <1>5, JobMoves

LEMMA ProcessIInv == ASSUME IInv, NEW j \in Jobs, NEW p, Process(j, p) PROVE IInv'
<1> DEFINE e == evidence[p.event]
           id == ViaDrive(p.event)
           o == Outcome(broker, id, e.side, e.rev, e.based, p.event.content)
<1>1. PICK m, n : m = job[j] /\ n = [m EXCEPT !.pc = "outcome", !.input = p, !.result = o]
  OBVIOUS
<1>2. /\ m.pc \in {"inputs", "finish"} /\ p \in m.cp.pendIn /\ (m.pc = "finish" => p = m.input)
      /\ Receive(id, e.side, e.rev, e.based, p.event.content) /\ job' = [job EXCEPT ![j] = n]
      /\ UNCHANGED <<files, clock, approvals, nextId, checkpoint, evidence>>
  BY <1>1 DEF Process, driveVars
<1>3. JobCore(m) /\ JobPage(m)
  BY <1>1 DEF IInv, JobOK
<1>4. p.event \in DOMAIN evidence /\ e.side \in Sides /\ e.rev \in Nat
  BY <1>2, <1>3 DEF IInv, EvidenceOK, JobCore, CpFacts, CpInputs
<1>5. o \in {"duplicate", "rejected", "stale", "conflict", "applied"}
  BY DEF Outcome
<1>6. /\ DOMAIN n = JobFields /\ n.pc = "outcome" /\ n.input = p /\ n.result = o /\ n.cp = m.cp
      /\ n.base = m.base /\ n.todo = m.todo /\ n.succ = m.succ /\ n.phase = m.phase
  BY <1>1, <1>3 DEF JobCore, JobType, JobFields
<1> HIDE DEF o, e, id
<1>7. /\ BrokerOK' /\ broker.processed \subseteq broker'.processed
      /\ o # "rejected" => id \in broker'.processed
  <2>1. BrokerOK
    BY DEF IInv
  <2>2. PICK content : content = p.event.content
    OBVIOUS
  <2>3. o = Outcome(broker, id, e.side, e.rev, e.based, content)
    BY <2>2 DEF o
  <2>4. Receive(id, e.side, e.rev, e.based, content)
    BY <1>2, <2>2
  <2> QED
    BY <1>4, <2>1, <2>3, <2>4, Received
<1>8. FilesOK' /\ EvidenceOK' /\ Evolve /\ FilesOK
  BY <1>2, <1>7, BrokerMoves DEF IInv
<1>9. JobCore(n)
  <2>1. JobType(n)
    BY <1>2, <1>3, <1>5, <1>6 DEF JobCore, JobType, Pcs, OfPage, OnItem
  <2>2. JobPhase(n)
    BY <1>2, <1>3, <1>6 DEF JobCore, JobPhase, OfPage, OnItem
  <2>3. JobTodo(n)
    BY <1>3, <1>6 DEF JobCore, JobTodo
  <2>4. JobItem(n)
    BY <1>2, <1>3, <1>6 DEF JobCore, JobItem, JobPhase, OnItem
  <2> QED
    BY <1>3, <1>6, <2>1, <2>2, <2>3, <2>4 DEF JobCore
<1>10. JobPage(n)
  BY <1>2, <1>3, <1>6 DEF JobPage, Covered
<1>11. JobMade(n)'
  BY <1>6, <1>7 DEF JobMade, id
<1>12. JobOK(n)'
  BY <1>8, <1>9, <1>10, <1>11, CoreEvolves, PageEvolves DEF JobOK
<1>13. DOMAIN job' = Jobs /\ job'[j] = n /\ \A k \in Jobs \ {j} : job'[k] = job[k]
  BY <1>2 DEF IInv
<1>14. \A k \in Jobs : job'[k] = job[k] \/ JobOK(job[k])'
  <2> SUFFICES ASSUME NEW k \in Jobs, k = j PROVE JobOK(job[k])'
    BY <1>13
  <2> QED
    BY <1>12, <1>13
<1> QED
  BY <1>2, <1>7, <1>8, <1>13, <1>14, WorldMoves

(* What a file was handled by, it is handled by after the input is accepted. *)
LEMMA AcceptInputPage ==
  ASSUME IInv, NEW c, CpFacts(c), NEW p \in c.pendIn, NEW s \in Nat, Settled(p, {s}),
         NEW f \in DOMAIN files, files[f].changed <= s, Handled(c, f)
  PROVE  Handled(AcceptInput(c, p), f)
<1>1. PICK d : d = AcceptInput(c, p)
  OBVIOUS
<1>2. d.accepted = With(c.accepted, p.event.file, p.event.content)
  BY <1>1 DEF AcceptInput, CpFacts, CpType, CpFields
<1>3. p.event \in DOMAIN evidence /\ files[f].changed \in Nat
  BY DEF CpFacts, CpInputs, IInv, FilesOK, Revisions
<1>4. CASE f = p.event.file
  <2>1. EventOf(f, files[f]) = p.event
    BY <1>3, <1>4 DEF Settled
  <2> QED
    BY <1>1, <1>3, <2>1 DEF Handled
<1>5. CASE f # p.event.file
  <2>1. f \in DOMAIN c.accepted => f \in DOMAIN d.accepted /\ d.accepted[f] = c.accepted[f]
    BY <1>2, <1>5 DEF With
  <2> QED
    BY <1>1, <2>1 DEF Handled
<1> QED
  BY <1>4, <1>5

(* The pending input is taken off the checkpoint and the outputs are next. *)
LEMMA FinishedIInv ==
  ASSUME IInv, UNCHANGED <<files, clock, approvals, evidence, broker, outputs>>,
         UNCHANGED nextId \/ nextId' \in nextId .. MaxFiles + 1,
         NEW j \in Jobs, NEW m, m = job[j], m.pc = "outcome", NEW c, CpFacts(c),
         Entries(m.cp) \subseteq Entries(c),
         Entries(m.cp) = Entries(checkpoint) => Ledger(Entries(c), nextId'),
         c.pendIn = m.cp.pendIn \ {m.input}, c.token = m.cp.token,
         m.phase = "page" => \A f \in DOMAIN files :
             files[f].changed <= m.succ /\ Handled(m.cp, f) => Handled(c, f),
         Persist(j, c, [m EXCEPT !.pc = "outputs", !.input = None])
  PROVE  IInv'
<1>1. CASE Stop(j) /\ UNCHANGED checkpoint
  BY <1>1, StopIInv
<1>2. CASE /\ checkpoint = job[j].base /\ checkpoint' = c
           /\ job' = [job EXCEPT ![j] = [[m EXCEPT !.pc = "outputs", !.input = None]
                                         EXCEPT !.cp = c, !.base = c]]
  <2>1. PICK n : n = [[m EXCEPT !.pc = "outputs", !.input = None] EXCEPT !.cp = c, !.base = c]
    OBVIOUS
  <2>2. JobCore(m) /\ JobPage(m) /\ m.base = m.cp /\ checkpoint = m.cp
    BY <1>2 DEF IInv, JobOK, JobCore, JobType
  <2>3. /\ DOMAIN n = JobFields /\ n.pc = "outputs" /\ n.cp = c /\ n.base = c /\ n.item = m.item
        /\ n.todo = m.todo /\ n.succ = m.succ /\ n.phase = m.phase /\ n.result = m.result
    BY <2>1, <2>2 DEF JobCore, JobType, JobFields
  <2>4. JobType(n)
    BY <2>2, <2>3 DEF JobCore, JobType, Pcs, OfPage, OnItem
  <2>5. JobPhase(n)
    BY <2>2, <2>3 DEF JobCore, JobPhase, OfPage, OnItem
  <2>6. JobTodo(n) /\ JobItem(n) /\ JobMade(n)
    BY <2>2, <2>3 DEF JobCore, JobTodo, JobItem, JobMade, OnItem
  <2>7. n.phase = "page" => Covered(n)
    <3>1. n.phase = "page" => Covered(m)
      BY <2>2, <2>3 DEF JobPage
    <3> QED
      BY <2>3, <3>1 DEF Covered
  <2>8. Ledger(Entries(c), nextId') /\ Entries(checkpoint) \subseteq Entries(c)
    BY <2>2
  <2>9. job' = [job EXCEPT ![j] = n]
    BY <1>2, <2>1
  <2> QED
    BY <1>2, <2>3, <2>4, <2>5, <2>6, <2>7, <2>8, <2>9, Persisted
<1>3. Valid(c)
  BY DEF CpFacts, CpSound
<1> QED
  BY <1>1, <1>2, <1>3, PersistCases

LEMMA FinishInputIInv == ASSUME DriveAssumption, IInv, NEW j \in Jobs, FinishInput(j) PROVE IInv'
<1>1. PICK m, p, next : /\ m = job[j] /\ p = m.input
                        /\ next = [m EXCEPT !.pc = "outputs", !.input = None]
  OBVIOUS
<1>2. m.pc = "outcome" /\ UNCHANGED <<files, clock, approvals, evidence, broker, outputs>>
  BY <1>1 DEF FinishInput
<1>3. JobCore(m) /\ JobMade(m) /\ CpFacts(m.cp) /\ p \in m.cp.pendIn /\ m.succ \in Nat
      /\ Entries(m.cp) \subseteq Entries(checkpoint)
  BY <1>1, <1>2 DEF IInv, JobOK, JobCore, JobType
<1>4. Ledger(Entries(checkpoint), nextId) /\ Ledger(Entries(m.cp), nextId)
      /\ nextId \in Nat /\ nextId >= 3 /\ BrokerOK
  BY <1>3 DEF IInv, FilesOK, Ledger
<1>5. CASE m.result = "rejected"
  <2>1. PICK c : c = RejectInput(m.cp, p)
    OBVIOUS
  <2>2. Persist(j, c, next) /\ UNCHANGED nextId
    BY <1>1, <1>5, <2>1 DEF FinishInput
  <2>3. CpFacts(c) /\ Entries(c) = Entries(m.cp) /\ c.pendIn = m.cp.pendIn \ {p}
        /\ c.token = m.cp.token /\ c.accepted = m.cp.accepted
    BY <1>3, <2>1, RejectInputFacts
  <2>4. \A f \in DOMAIN files : Handled(m.cp, f) => Handled(c, f)
    BY <2>3 DEF Handled
  <2> QED
    BY <1>1, <1>2, <1>4, <2>2, <2>3, <2>4, FinishedIInv
<1>6. CASE m.result # "rejected"
  <2>1. PICK a : a = AcceptInput(m.cp, p)
    OBVIOUS
  <2>2. ViaDrive(p.event) \in broker.processed
    BY <1>1, <1>2, <1>3, <1>6 DEF JobMade
  <2>3. CpFacts(a) /\ Entries(a) = Entries(m.cp) /\ a.pendIn = m.cp.pendIn \ {p} /\ a.token = m.cp.token
    BY <1>3, <2>1, <2>2, AcceptInputFacts
  <2>4. m.phase = "page" => \A f \in DOMAIN files :
             files[f].changed <= m.succ /\ Handled(m.cp, f) => Handled(a, f)
    <3>1. m.phase = "page" => Settled(p, {m.succ})
      BY <1>1, <1>2, <1>3 DEF JobCore, JobItem
    <3> QED
      BY <1>3, <2>1, <3>1, AcceptInputPage
  <2>5. CASE Stop(j) /\ UNCHANGED <<checkpoint, nextId>>
    BY <1>2, <2>5, StopIInv
  <2>6. CASE Persist(j, a, next) /\ UNCHANGED nextId
    BY <1>1, <1>2, <1>4, <2>3, <2>4, <2>6, FinishedIInv
  <2>7. CASE /\ nextId <= MaxFiles /\ nextId' = nextId + 1
             /\ \E k \in OutputFor(ViaDrive(p.event)) : Persist(j, ReserveOutput(a, k, nextId), next)
    <3>1. PICK k \in OutputFor(ViaDrive(p.event)) : Persist(j, ReserveOutput(a, k, nextId), next)
      BY <2>7
    <3>2. PICK c : c = ReserveOutput(a, k, nextId)
      OBVIOUS
    <3>3. k \in DOMAIN outputs
      BY DEF OutputFor
    <3>4. /\ CpFacts(c) /\ Entries(a) \subseteq Entries(c) /\ Ledger(Entries(c), nextId + 1)
          /\ c.pendIn = a.pendIn /\ c.token = a.token /\ c.accepted = a.accepted
      BY <1>4, <2>3, <3>2, <3>3, ReserveOutputFacts
    <3>5. \A f \in DOMAIN files : Handled(a, f) => Handled(c, f)
      BY <3>4 DEF Handled
    <3>6. nextId' \in nextId .. MaxFiles + 1
      BY <1>4, <2>7 DEF DriveAssumption
    <3>7. /\ Entries(m.cp) \subseteq Entries(c) /\ Ledger(Entries(c), nextId')
          /\ c.pendIn = m.cp.pendIn \ {p} /\ c.token = m.cp.token
      BY <2>3, <2>7, <3>4
    <3>8. m.phase = "page" => \A f \in DOMAIN files :
             files[f].changed <= m.succ /\ Handled(m.cp, f) => Handled(c, f)
      BY <2>4, <3>5
    <3> QED
      BY <1>1, <1>2, <3>1, <3>2, <3>4, <3>6, <3>7, <3>8, FinishedIInv
  <2> QED
    BY <1>1, <1>6, <2>1, <2>5, <2>6, <2>7 DEF FinishInput
<1> QED
  BY <1>5, <1>6

LEMMA CreateOutputIInv ==
  ASSUME DriveAssumption, IInv, NEW j \in Jobs, NEW p, CreateOutput(j, p) PROVE IInv'
<1>1. PICK m : m = job[j]
  OBVIOUS
<1>2. m.pc = "outputs" /\ p \in m.cp.pendOut
      /\ UNCHANGED <<approvals, nextId, checkpoint, evidence, broker, outputs>>
  BY <1>1 DEF CreateOutput, cloudVars
<1>3. JobCore(m) /\ JobPage(m) /\ FilesOK
  BY <1>1 DEF IInv, JobOK
<1>4. p \in Reservations /\ Entry(p) \in Entries(checkpoint)
  BY <1>2, <1>3 DEF JobCore, CpFacts, CpType, Entries
<1>5. /\ p.delivery \in Nat /\ p.target \in Sides /\ Entry(p).delivery = p.delivery
      /\ Entry(p).file = p.file /\ Entry(p).target = p.target
  BY <1>4 DEF Reservations, Entry
<1>6. p.file \in 3 .. nextId - 1 /\ p.delivery # 0 /\ nextId \in 3 .. MaxFiles + 1
  BY <1>4, <1>5 DEF IInv, FilesOK, Ledger
<1>7. ASSUME NEW n, NEW v \in Nat, n = [m EXCEPT !.pc = "created", !.item = p, !.input = v]
      PROVE  /\ JobCore(n) /\ JobPage(n)
             /\ n.pc = "created" /\ n.item = p /\ n.input = v
  <2>1. /\ DOMAIN n = JobFields /\ n.pc = "created" /\ n.item = p /\ n.input = v /\ n.cp = m.cp
        /\ n.base = m.base /\ n.todo = m.todo /\ n.succ = m.succ /\ n.phase = m.phase
        /\ n.result = m.result
    BY <1>3, <1>7 DEF JobCore, JobType, JobFields
  <2>2. JobType(n)
    BY <1>2, <1>3, <2>1 DEF JobCore, JobType, Pcs, OfPage, OnItem
  <2>3. JobPhase(n) /\ JobTodo(n) /\ JobItem(n)
    BY <1>2, <1>3, <2>1 DEF JobCore, JobPhase, JobTodo, JobItem, OfPage, OnItem
  <2>4. JobPage(n)
    BY <1>2, <1>3, <2>1 DEF JobPage, Covered
  <2> QED
    BY <1>3, <2>1, <2>2, <2>3, <2>4 DEF JobCore
<1>8. CASE p.file \in DOMAIN files
  <2>1. UNCHANGED <<files, clock>>
    BY <1>8 DEF CreateOutput
  <2>2. CASE files[p.file].place = p.target
    <3>1. PICK n : n = [m EXCEPT !.pc = "created", !.item = p, !.input = files[p.file].version]
      OBVIOUS
    <3>2. job' = [job EXCEPT ![j] = n]
      BY <1>1, <1>8, <2>2, <3>1 DEF CreateOutput
    <3>3. files[p.file].version \in Nat /\ files[p.file].delivery = p.delivery
      BY <1>3, <1>4, <1>8, FileOfEntry DEF FilesOK, Revisions
    <3>4. JobOK(n)
      <4>1. PICK v : v = files[p.file].version
        OBVIOUS
      <4>2. JobCore(n) /\ JobPage(n) /\ n.pc = "created" /\ n.item = p /\ n.input = v
        BY <1>7, <3>1, <3>3, <4>1
      <4>3. n.input <= files[p.file].version
        BY <3>3, <4>1, <4>2
      <4> QED
        BY <1>8, <3>3, <4>2, <4>3 DEF JobOK, JobMade
    <3> QED
      BY <1>2, <2>1, <3>2, <3>4, JobMoves
  <2>3. CASE files[p.file].place # p.target
    BY <1>2, <1>8, <2>1, <2>3, StopIInv DEF CreateOutput
  <2> QED
    BY <2>2, <2>3
<1>9. CASE p.file \notin DOMAIN files
  <2>1. PICK r, f, n :
            /\ r = [version |-> 1, content |-> Bytes("broker", p.delivery),
                    place |-> p.target, changed |-> 0, delivery |-> p.delivery,
                    edited |-> FALSE]
            /\ f = p.file /\ n = [m EXCEPT !.pc = "created", !.item = p, !.input = 1]
    OBVIOUS
  <2>2. Changed(f, r) /\ job' = [job EXCEPT ![j] = n]
    BY <1>1, <1>9, <2>1 DEF CreateOutput
  <2>3. /\ r \in Revisions /\ r.content = Bytes("broker", r.delivery) /\ r.delivery # 0
        /\ r.delivery = p.delivery /\ r.place = p.target /\ r.version = 1
    BY <1>5, <1>6, <2>1 DEF Revisions, Contents, Bytes, Places
  <2>4. f \in 1 .. MaxFiles /\ f # Export /\ f \notin DOMAIN files
    BY <1>6, <1>9, <2>1 DEF Export, DriveAssumption
  <2>5. \E e \in Entries(checkpoint) : e.delivery = r.delivery /\ e.file = f /\ e.target = r.place
    BY <1>4, <1>5, <2>1, <2>3
  <2>6. /\ FilesOK' /\ EvidenceOK' /\ BrokerOK' /\ Evolve
        /\ f \in DOMAIN files' /\ files'[f].version = 1 /\ files'[f].delivery = p.delivery
    BY <1>2, <2>2, <2>3, <2>4, <2>5, Created
  <2>7. JobOK(n)'
    <3>1. JobCore(n) /\ JobPage(n) /\ n.pc = "created" /\ n.item = p /\ n.input = 1
      BY <1>7, <2>1
    <3>2. JobMade(n)'
      BY <2>1, <2>6, <3>1 DEF JobMade
    <3> QED
      BY <1>3, <2>6, <3>1, <3>2, CoreEvolves, PageEvolves DEF JobOK
  <2>8. DOMAIN job' = Jobs /\ job'[j] = n /\ \A k \in Jobs \ {j} : job'[k] = job[k]
    BY <2>2 DEF IInv
  <2>9. \A k \in Jobs : job'[k] = job[k] \/ JobOK(job[k])'
    <3> SUFFICES ASSUME NEW k \in Jobs, k = j PROVE JobOK(job[k])'
      BY <2>8
    <3> QED
      BY <2>7, <2>8
  <2> QED
    BY <1>2, <2>6, <2>8, <2>9, WorldMoves
<1> QED
  BY <1>8, <1>9

LEMMA CommitOutputIInv == ASSUME IInv, NEW j \in Jobs, CommitOutput(j) PROVE IInv'
<1>1. PICK m, p, c, next :
          /\ m = job[j] /\ p = m.item /\ c = commit_drive_output(m.cp, p, m.input)
          /\ next = [m EXCEPT !.pc = "outputs", !.item = None, !.input = None]
  OBVIOUS
<1>2. /\ m.pc = "created" /\ Persist(j, c, next)
      /\ UNCHANGED <<files, clock, approvals, nextId, evidence, broker, outputs>>
  BY <1>1 DEF CommitOutput, driveVars
<1>3. JobCore(m) /\ JobPage(m) /\ JobMade(m) /\ CpFacts(m.cp) /\ m.base = m.cp
      /\ Entries(m.cp) \subseteq Entries(checkpoint)
  BY <1>1 DEF IInv, JobOK, JobCore, JobType
<1>4. /\ p \in m.cp.pendOut /\ m.input \in Nat /\ p.file \in DOMAIN files
      /\ m.input <= files[p.file].version
  BY <1>1, <1>2, <1>3 DEF JobCore, JobType, JobMade
<1>5. /\ CpFacts(c) /\ Entries(c) = Entries(m.cp) /\ c.pendIn = m.cp.pendIn /\ c.token = m.cp.token
      /\ \A g \in DOMAIN files : Handled(m.cp, g) => Handled(c, g)
  BY <1>1, <1>3, <1>4, DriveOutputFacts
<1>6. CASE Stop(j) /\ UNCHANGED checkpoint
  BY <1>2, <1>6, StopIInv
<1>7. CASE /\ checkpoint = job[j].base /\ checkpoint' = c
           /\ job' = [job EXCEPT ![j] = [next EXCEPT !.cp = c, !.base = c]]
  <2>1. PICK n : n = [next EXCEPT !.cp = c, !.base = c]
    OBVIOUS
  <2>2. /\ DOMAIN n = JobFields /\ n.pc = "outputs" /\ n.cp = c /\ n.base = c
        /\ n.todo = m.todo /\ n.succ = m.succ /\ n.phase = m.phase /\ n.result = m.result
    BY <1>1, <1>3, <2>1 DEF JobCore, JobType, JobFields
  <2>3. JobType(n)
    BY <1>3, <2>2 DEF JobCore, JobType, Pcs, OfPage, OnItem
  <2>4. JobPhase(n)
    BY <1>2, <1>3, <1>5, <2>2 DEF JobCore, JobPhase, OfPage, OnItem
  <2>5. JobTodo(n) /\ JobItem(n) /\ JobMade(n)
    BY <1>3, <2>2 DEF JobCore, JobTodo, JobItem, JobMade, OnItem
  <2>6. n.phase = "page" => Covered(n)
    <3>1. n.phase = "page" => Covered(m)
      BY <1>1, <1>2, <1>3, <1>7, <2>2 DEF JobPage
    <3> QED
      BY <1>5, <2>2, <3>1 DEF Covered
  <2>7. Entries(c) = Entries(checkpoint) /\ Ledger(Entries(c), nextId')
    BY <1>1, <1>2, <1>3, <1>5, <1>7 DEF IInv
  <2>8. job' = [job EXCEPT ![j] = n]
    BY <1>7, <2>1
  <2> QED
    BY <1>2, <1>5, <1>7, <2>2, <2>3, <2>4, <2>5, <2>6, <2>7, <2>8, Persisted
<1>8. Valid(c)
  BY <1>5 DEF CpFacts, CpSound
<1> QED
  BY <1>2, <1>6, <1>7, <1>8, PersistCases

LEMMA NextPhaseIInv == ASSUME IInv, NEW j \in Jobs, NextPhase(j) PROVE IInv'
<1>1. PICK m, pc : /\ m = job[j]
                   /\ pc = IF m.phase = "page" THEN "changes"
                           ELSE IF m.cp.pendIn # {} THEN "inputs" ELSE "list"
  OBVIOUS
<1>2. PICK n : n = [m EXCEPT !.pc = pc]
  OBVIOUS
<1>3. /\ m.pc \in {"outputs", "inputs"} /\ m.cp.pendOut = {} /\ job' = [job EXCEPT ![j] = n]
      /\ UNCHANGED <<files, clock, approvals, nextId, checkpoint, evidence, broker, outputs>>
  BY <1>1, <1>2 DEF NextPhase, Goto, driveVars, cloudVars
<1>4. JobCore(m) /\ JobPage(m)
  BY <1>1 DEF IInv, JobOK
<1>5. /\ DOMAIN n = JobFields /\ n.pc = pc /\ n.cp = m.cp /\ n.base = m.base /\ n.item = m.item
      /\ n.todo = m.todo /\ n.succ = m.succ /\ n.phase = m.phase /\ n.result = m.result
  BY <1>2, <1>4 DEF JobCore, JobType, JobFields
<1>6. /\ pc \in {"changes", "inputs", "list"}
      /\ pc = "changes" => m.phase = "page" /\ m.pc = "outputs"
      /\ pc # "changes" => m.phase = "recover"
      /\ pc = "list" => m.cp.pendIn = {}
  BY <1>1, <1>3, <1>4 DEF JobCore, JobType, JobPhase
<1>7. JobType(n)
  BY <1>4, <1>5, <1>6 DEF JobCore, JobType, Pcs, OfPage, OnItem
<1>8. JobPhase(n)
  BY <1>3, <1>4, <1>5, <1>6 DEF JobCore, JobPhase, OfPage, OnItem
<1>9. JobTodo(n) /\ JobItem(n) /\ JobMade(n)
  BY <1>4, <1>5, <1>6 DEF JobCore, JobTodo, JobItem, JobMade, OnItem
<1>10. JobPage(n)
  BY <1>4, <1>5, <1>6 DEF JobPage, Covered
<1>11. JobOK(n)
  BY <1>4, <1>5, <1>7, <1>8, <1>9, <1>10 DEF JobOK, JobCore
<1> QED
  BY <1>3, <1>11, JobMoves

LEMMA RecoverOutputsIInv == ASSUME IInv, NEW j \in Jobs, RecoverOutputs(j) PROVE IInv'
<1>1. PICK m, n : m = job[j] /\ n = [m EXCEPT !.pc = "outputs"]
  OBVIOUS
<1>2. /\ m.pc = "inputs" /\ job' = [job EXCEPT ![j] = n]
      /\ UNCHANGED <<files, clock, approvals, nextId, checkpoint, evidence, broker, outputs>>
  BY <1>1 DEF RecoverOutputs, Goto, driveVars, cloudVars
<1>3. JobCore(m)
  BY <1>1 DEF IInv, JobOK
<1>4. /\ DOMAIN n = JobFields /\ n.pc = "outputs" /\ n.cp = m.cp /\ n.base = m.base
      /\ n.todo = m.todo /\ n.succ = m.succ /\ n.phase = "recover" /\ n.result = m.result
  BY <1>1, <1>2, <1>3 DEF JobCore, JobType, JobFields, JobPhase
<1>5. JobType(n) /\ JobPhase(n)
  BY <1>3, <1>4 DEF JobCore, JobType, JobPhase, Pcs, OfPage, OnItem
<1>6. JobTodo(n) /\ JobItem(n) /\ JobMade(n) /\ JobPage(n)
  BY <1>3, <1>4 DEF JobCore, JobTodo, JobItem, JobMade, JobPage, OnItem
<1>7. JobOK(n)
  BY <1>3, <1>4, <1>5, <1>6 DEF JobOK, JobCore
<1> QED
  BY <1>2, <1>7, JobMoves
---------------------------------------------------------------------------
(* A page of changes. *)

LEMMA ListedItem ==
  ASSUME FilesOK, NEW f \in DOMAIN files
  PROVE  LET ch == Listed(f)
         IN  /\ ch \in Items /\ ch.file = f /\ ch.rev = files[f]
             /\ ch.rev.version <= files[f].version
             /\ ch.rev.content.by = "broker" =>
                  ch.rev.delivery # 0 /\ ch.rev.content = Bytes("broker", ch.rev.delivery)
  BY DEF FilesOK, FileOK, Listed, Items, Revisions

(* The job takes the files of todo up to s as its page. *)
LEMMA PageTaken ==
  ASSUME IInv, NEW j \in Jobs, NEW m, m = job[j], NEW n, DOMAIN n = JobFields,
         m.pc \in {"list", "boot"}, n.pc = "changes", n.phase = "page", n.cp = m.cp, n.base = m.base,
         n.result = m.result, n.succ \in 1 .. clock, m.cp.token # None => m.cp.token <= n.succ,
         NEW F \in SUBSET DOMAIN files, n.todo = {Listed(f) : f \in F},
         \A f \in DOMAIN files : files[f].changed <= n.succ /\ files[f].place \in Sides =>
             f \in F \/ Handled(m.cp, f),
         job' = [job EXCEPT ![j] = n],
         UNCHANGED <<files, clock, approvals, nextId, checkpoint, evidence, broker, outputs>>
  PROVE  IInv'
<1>1. JobCore(m) /\ FilesOK
  BY DEF IInv, JobOK
<1>2. \A ch \in n.todo : /\ ch \in Items /\ ch.file \in DOMAIN files /\ ch.rev = files[ch.file]
                         /\ ch.rev.version <= files[ch.file].version
                         /\ ch.rev.content.by = "broker" =>
                              ch.rev.delivery # 0 /\ ch.rev.content = Bytes("broker", ch.rev.delivery)
  BY <1>1, ListedItem
<1>3. JobType(n)
  BY <1>1, <1>2 DEF JobCore, JobType, FilesOK, Pcs, OfPage, OnItem
<1>4. JobPhase(n)
  BY <1>1 DEF JobCore, JobPhase, OfPage, OnItem
<1>5. JobTodo(n) /\ JobItem(n) /\ JobMade(n)
  BY <1>2 DEF JobTodo, JobItem, JobMade, OnItem
<1>6. Covered(n)
  <2> SUFFICES ASSUME NEW f \in F PROVE \E ch \in n.todo : ch.file = f /\ ch.rev = files[f]
    BY DEF Covered
  <2> QED
    BY <1>1, ListedItem
<1>7. JobOK(n)
  BY <1>1, <1>3, <1>4, <1>5, <1>6 DEF JobOK, JobCore, JobPage
<1> QED
  BY <1>7, JobMoves

LEMMA ListChangesIInv == ASSUME IInv, NEW j \in Jobs, NEW s, ListChanges(j, s) PROVE IInv'
<1> DEFINE F == {g \in DOMAIN files : files[g].changed \in job[j].cp.token + 1 .. s}
<1>1. PICK m, n : /\ m = job[j]
                  /\ n = [m EXCEPT !.pc = "changes", !.phase = "page", !.succ = s,
                                   !.todo = {Listed(f) : f \in F}]
  OBVIOUS
<1>2. /\ m.pc = "list" /\ m.cp.token # None /\ s \in m.cp.token .. clock
      /\ job' = [job EXCEPT ![j] = n]
      /\ UNCHANGED <<files, clock, approvals, nextId, checkpoint, evidence, broker, outputs>>
  BY <1>1 DEF ListChanges, driveVars, cloudVars
<1>3. JobCore(m) /\ CpFeed(m.cp)
  BY <1>1 DEF IInv, JobOK, JobCore, CpFacts
<1>4. /\ DOMAIN n = JobFields /\ n.pc = "changes" /\ n.phase = "page" /\ n.succ = s
      /\ n.todo = {Listed(f) : f \in F} /\ n.cp = m.cp /\ n.base = m.base /\ n.result = m.result
  BY <1>1, <1>3 DEF JobCore, JobType, JobFields
<1>5. m.cp.token \in 1 .. clock /\ clock \in Nat
  BY <1>2, <1>3 DEF CpFeed, IInv, FilesOK
<1>6. n.succ \in 1 .. clock /\ m.cp.token <= n.succ
  BY <1>2, <1>4, <1>5
<1>7. \A f \in DOMAIN files : files[f].changed <= n.succ /\ files[f].place \in Sides =>
          f \in F \/ Handled(m.cp, f)
  <2> SUFFICES ASSUME NEW f \in DOMAIN files, files[f].changed <= n.succ, files[f].place \in Sides
               PROVE  f \in F \/ Handled(m.cp, f)
    OBVIOUS
  <2>1. files[f].changed \in Nat
    BY DEF IInv, FilesOK, Revisions
  <2>2. f \in F \/ files[f].changed <= m.cp.token
    BY <1>1, <1>4, <1>5, <1>6, <2>1
  <2> QED
    BY <1>2, <1>3, <2>2 DEF CpFeed
<1> HIDE DEF F
<1>8. F \in SUBSET DOMAIN files
  BY DEF F
<1> QED
  BY <1>1, <1>2, <1>4, <1>6, <1>7, <1>8, PageTaken

LEMMA StartTokenIInv == ASSUME IInv, NEW j \in Jobs, StartToken(j) PROVE IInv'
<1>1. PICK m, n : m = job[j] /\ n = [m EXCEPT !.pc = "boot", !.phase = "page", !.succ = clock]
  OBVIOUS
<1>2. /\ m.pc = "list" /\ m.cp.token = None /\ job' = [job EXCEPT ![j] = n]
      /\ UNCHANGED <<files, clock, approvals, nextId, checkpoint, evidence, broker, outputs>>
  BY <1>1 DEF StartToken, driveVars, cloudVars
<1>3. JobCore(m)
  BY <1>1 DEF IInv, JobOK
<1>4. /\ DOMAIN n = JobFields /\ n.pc = "boot" /\ n.phase = "page" /\ n.succ = clock
      /\ n.todo = m.todo /\ n.cp = m.cp /\ n.base = m.base /\ n.result = m.result
  BY <1>1, <1>3 DEF JobCore, JobType, JobFields
<1>5. clock \in Nat /\ clock \in 1 .. clock
  <2>1. files[Original].changed \in 1 .. clock /\ clock \in Nat
    BY DEF IInv, FilesOK, FileOK
  <2> QED
    BY <2>1
<1>6. JobType(n) /\ JobPhase(n)
  BY <1>2, <1>3, <1>4, <1>5 DEF JobCore, JobType, JobPhase, Pcs, OfPage, OnItem
<1>7. JobTodo(n) /\ JobItem(n) /\ JobMade(n) /\ JobPage(n)
  BY <1>3, <1>4 DEF JobCore, JobTodo, JobItem, JobMade, JobPage, OnItem
<1>8. JobOK(n)
  BY <1>3, <1>4, <1>6, <1>7 DEF JobOK, JobCore
<1> QED
  BY <1>2, <1>8, JobMoves

LEMMA ListInitialIInv == ASSUME IInv, NEW j \in Jobs, ListInitial(j) PROVE IInv'
<1> DEFINE F == {g \in DOMAIN files : InFolders(g)}
<1>1. PICK m, n : /\ m = job[j]
                  /\ n = [m EXCEPT !.pc = "changes", !.todo = {Listed(f) : f \in F}]
  OBVIOUS
<1>2. /\ m.pc = "boot" /\ job' = [job EXCEPT ![j] = n]
      /\ UNCHANGED <<files, clock, approvals, nextId, checkpoint, evidence, broker, outputs>>
  BY <1>1 DEF ListInitial, driveVars, cloudVars
<1>3. JobCore(m)
  BY <1>1 DEF IInv, JobOK
<1>4. /\ DOMAIN n = JobFields /\ n.pc = "changes" /\ n.phase = "page" /\ n.succ = m.succ
      /\ n.todo = {Listed(f) : f \in F} /\ n.cp = m.cp /\ n.base = m.base /\ n.result = m.result
  BY <1>1, <1>2, <1>3 DEF JobCore, JobType, JobPhase, JobFields, OfPage
<1>5. n.succ \in 1 .. clock /\ (m.cp.token # None => m.cp.token <= n.succ)
  BY <1>2, <1>3, <1>4 DEF JobCore, JobPhase, OfPage
<1>6. \A f \in DOMAIN files : files[f].changed <= n.succ /\ files[f].place \in Sides =>
          f \in F \/ Handled(m.cp, f)
  BY DEF InFolders
<1> HIDE DEF F
<1>7. F \in SUBSET DOMAIN files
  BY DEF F
<1> QED
  BY <1>1, <1>2, <1>4, <1>5, <1>6, <1>7, PageTaken
---------------------------------------------------------------------------
(* The changes of a page. *)

(* A change is dropped when the file is handled, or its page cannot be saved. *)
LEMMA DropIInv ==
  ASSUME IInv, NEW j \in Jobs, NEW m, m = job[j], m.pc \in {"changes", "bound"},
         NEW ch, Drop(j, ch),
         \/ files[ch.file] = ch.rev /\ ch.rev.place \in Sides => Handled(m.cp, ch.file)
         \/ Entries(m.cp) # Entries(checkpoint),
         UNCHANGED <<files, clock, approvals, nextId, checkpoint, evidence, broker, outputs>>
  PROVE  IInv'
<1>1. PICK n : n = [m EXCEPT !.pc = "changes", !.todo = @ \ {ch}, !.item = None]
  OBVIOUS
<1>2. JobCore(m) /\ JobPage(m)
  BY DEF IInv, JobOK
<1>3. /\ DOMAIN n = JobFields /\ n.pc = "changes" /\ n.phase = m.phase /\ n.succ = m.succ
      /\ n.todo = m.todo \ {ch} /\ n.cp = m.cp /\ n.base = m.base /\ n.result = m.result
  BY <1>1, <1>2 DEF JobCore, JobType, JobFields
<1>4. job' = [job EXCEPT ![j] = n]
  BY <1>1 DEF Drop
<1>5. JobType(n)
  BY <1>2, <1>3 DEF JobCore, JobType, Pcs, OfPage, OnItem
<1>6. JobPhase(n)
  BY <1>2, <1>3 DEF JobCore, JobPhase, OfPage, OnItem
<1>7. JobTodo(n) /\ JobItem(n) /\ JobMade(n)
  BY <1>2, <1>3 DEF JobCore, JobTodo, JobItem, JobMade, OnItem
<1>8. JobPage(n)
  <2>1. SUFFICES ASSUME Entries(m.cp) = Entries(checkpoint), m.phase = "page" PROVE Covered(n)
    BY <1>3 DEF JobPage
  <2>2. Covered(m)
    BY <2>1, <1>2 DEF JobPage
  <2>3. files[ch.file] = ch.rev /\ ch.rev.place \in Sides => Handled(m.cp, ch.file)
    BY <2>1
  <2> SUFFICES ASSUME NEW f \in DOMAIN files, files[f].changed <= m.succ, files[f].place \in Sides
               PROVE  (\E x \in n.todo : x.file = f /\ x.rev = files[f]) \/ Handled(n.cp, f)
    BY <1>3 DEF Covered
  <2>4. CASE Handled(m.cp, f)
    BY <1>3, <2>4
  <2>5. CASE \E x \in m.todo : x.file = f /\ x.rev = files[f]
    <3>1. PICK x \in m.todo : x.file = f /\ x.rev = files[f]
      BY <2>5
    <3>2. CASE x = ch
      BY <1>3, <2>3, <3>1, <3>2
    <3>3. CASE x # ch
      BY <1>3, <3>1, <3>3
    <3> QED
      BY <3>2, <3>3
  <2> QED
    BY <2>2, <2>4, <2>5 DEF Covered
<1>9. JobOK(n)
  BY <1>2, <1>3, <1>5, <1>6, <1>7, <1>8 DEF JobOK, JobCore
<1> QED
  BY <1>4, <1>9, JobMoves

(* The job turns to a change: what it relies on, given what the branch knows. *)
LEMMA ItemTaken ==
  ASSUME IInv, NEW j \in Jobs, NEW m, m = job[j], m.pc = "changes", NEW ch \in m.todo, Unchanged(ch),
         NEW pc \in {"register", "bind", "bound"}, NEW n, n = [m EXCEPT !.item = ch, !.pc = pc],
         pc = "register" =>
             ch.file = Original /\ ~Binding(m.cp, Original) /\ ch.rev.content = Clean,
         pc = "bind" => ch.file = Export /\ ~Binding(m.cp, Export),
         pc = "bound" =>
             /\ Binding(m.cp, ch.file)
             /\ ch.rev.content.by = "broker" => Duplicated(m.cp, ch),
         job' = [job EXCEPT ![j] = n],
         UNCHANGED <<files, clock, approvals, nextId, checkpoint, evidence, broker, outputs>>
  PROVE  IInv'
<1>1. JobCore(m) /\ JobPage(m) /\ CpFiles(m.cp)
  BY DEF IInv, JobOK, JobCore, CpFacts
<1>2. /\ DOMAIN n = JobFields /\ n.pc = pc /\ n.item = ch /\ n.phase = m.phase /\ n.succ = m.succ
      /\ n.todo = m.todo /\ n.cp = m.cp /\ n.base = m.base /\ n.result = m.result
  BY <1>1 DEF JobCore, JobType, JobFields
<1>3. JobType(n)
  BY <1>1, <1>2 DEF JobCore, JobType, Pcs, OfPage, OnItem
<1>4. JobPhase(n)
  BY <1>1, <1>2 DEF JobCore, JobPhase, OfPage, OnItem
<1>5. JobTodo(n) /\ JobMade(n)
  BY <1>1, <1>2 DEF JobCore, JobTodo, JobMade
<1>6. JobItem(n)
  <2>1. files[ch.file] = ch.rev /\ Fresh(ch, m.succ)
    BY DEF Unchanged, Fresh
  <2>2. \A e \in m.cp.processed : e.file = ch.file => e.version <= ch.rev.version
    BY <1>1, <2>1 DEF CpFiles
  <2> QED
    BY <1>2, <2>1, <2>2 DEF JobItem, OnItem
<1>7. JobPage(n)
  BY <1>1, <1>2 DEF JobPage, Covered
<1>8. JobOK(n)
  BY <1>1, <1>2, <1>3, <1>4, <1>5, <1>6, <1>7 DEF JobOK, JobCore
<1> QED
  BY <1>8, JobMoves

LEMMA OnboardChangeIInv == ASSUME IInv, NEW j \in Jobs, NEW ch, OnboardChange(j, ch) PROVE IInv'
<1>1. PICK m, f : m = job[j] /\ f = ch.file
  OBVIOUS
<1>2. /\ m.pc = "changes" /\ ch \in m.todo /\ ~Binding(m.cp, f)
      /\ UNCHANGED <<files, clock, approvals, nextId, checkpoint, evidence, broker, outputs>>
  BY <1>1 DEF OnboardChange, Pick, driveVars, cloudVars
<1>3. JobCore(m) /\ CpFacts(m.cp) /\ FilesOK
  BY <1>1 DEF IInv, JobOK, JobCore
<1>4. ch \in Items /\ f \in DOMAIN files /\ ch.rev.delivery = files[f].delivery
  BY <1>1, <1>2, <1>3 DEF JobCore, JobType, JobTodo
<1>5. CASE Drop(j, ch) /\ (ch.rev.place = "trash" \/ ch.rev.delivery # 0)
  <2>1. CASE ch.rev.place = "trash"
    BY <1>1, <1>2, <1>5, <2>1, DropIInv DEF Sides
  <2>2. CASE ch.rev.delivery # 0
    <3>1. PICK r \in Entries(checkpoint) : r.file = f
      BY <1>3, <1>4, <2>2 DEF FilesOK, FileOK
    <3>2. SUFFICES ASSUME Entries(m.cp) = Entries(checkpoint) PROVE FALSE
      BY <1>1, <1>2, <1>5, DropIInv
    <3>3. r \in m.cp.delivered
      BY <1>2, <1>3, <3>1, <3>2 DEF Entries, JobCore, JobPhase
    <3> QED
      BY <1>2, <1>3, <3>1, <3>3 DEF CpFacts, CpSound, Valid
  <2> QED
    BY <1>5, <2>1, <2>2
<1>6. CASE /\ ch.rev.delivery = 0 /\ Unchanged(ch) /\ ApprovalHolds(j, ch)
           /\ job' = [job EXCEPT ![j].item = ch,
                                 ![j].pc = IF ch.file = Original THEN "register" ELSE "bind"]
  <2>1. f \in {Original, Export} /\ Original # Export
    <3>1. f \in {Original, Export}
      BY <1>3, <1>4, <1>6 DEF FilesOK, FileOK
    <3> QED
      BY <3>1 DEF Original, Export
  <2>2. PICK pc, n : pc = (IF f = Original THEN "register" ELSE "bind")
                     /\ n = [m EXCEPT !.item = ch, !.pc = pc]
    OBVIOUS
  <2>3. job' = [job EXCEPT ![j] = n]
    BY <1>1, <1>6, <2>2
  <2>4. f = Original => ch.rev.content = Clean
    <3>1. f = Original => approvals[f] = EventOf(f, ch.rev) /\ f \in DOMAIN approvals
      BY <1>1, <1>6 DEF ApprovalHolds, prepare_original_registration, Approved
    <3> QED
      BY <1>3, <3>1 DEF FilesOK, EventOf
  <2>5. pc \in {"register", "bind", "bound"} /\ pc # "bound"
        /\ (pc = "register" => f = Original) /\ (pc = "bind" => f = Export)
    BY <2>1, <2>2
  <2>6. /\ pc = "register" =>
             ch.file = Original /\ ~Binding(m.cp, Original) /\ ch.rev.content = Clean
        /\ pc = "bind" => ch.file = Export /\ ~Binding(m.cp, Export)
    BY <1>1, <1>2, <2>4, <2>5
  <2>7. n = [m EXCEPT !.item = ch, !.pc = pc] /\ Unchanged(ch)
    BY <1>6, <2>2
  <2> QED
    BY <1>1, <1>2, <2>3, <2>5, <2>6, <2>7, ItemTaken
<1>7. CASE Stop(j)
  BY <1>2, <1>7, StopIInv
<1> QED
  BY <1>5, <1>6, <1>7 DEF OnboardChange

LEMMA BoundChangeIInv == ASSUME IInv, NEW j \in Jobs, NEW ch, BoundChange(j, ch) PROVE IInv'
<1>1. PICK m, f : m = job[j] /\ f = ch.file
  OBVIOUS
<1>2. /\ m.pc = "changes" /\ ch \in m.todo /\ Binding(m.cp, f)
      /\ UNCHANGED <<files, clock, approvals, nextId, checkpoint, evidence, broker, outputs>>
  BY <1>1 DEF BoundChange, Pick, driveVars, cloudVars
<1>3. JobCore(m) /\ CpFacts(m.cp) /\ FilesOK
  BY <1>1 DEF IInv, JobOK, JobCore
<1>4. CASE Drop(j, ch) /\ ch.rev.place = "trash"
  BY <1>1, <1>2, <1>4, DropIInv DEF Sides
<1>5. CASE Unchanged(ch) /\ job' = [job EXCEPT ![j].item = ch, ![j].pc = "bound"]
  <2>1. PICK n, pc : n = [m EXCEPT !.item = ch, !.pc = pc] /\ pc = "bound"
    OBVIOUS
  <2>2. job' = [job EXCEPT ![j] = n]
    BY <1>1, <1>5, <2>1
  <2>3. ch.rev.content.by = "broker" => Duplicated(m.cp, ch)
    <3> SUFFICES ASSUME ch.rev.content.by = "broker" PROVE Duplicated(m.cp, ch)
      OBVIOUS
    <3>1. f \in DOMAIN files /\ files[f] = ch.rev
      BY <1>1, <1>2, <1>3, <1>5 DEF Unchanged, JobCore, JobTodo
    <3>2. files[f].delivery # 0 /\ files[f].content = Bytes("broker", files[f].delivery)
          /\ f \notin {Original, Export}
      BY <1>3, <3>1 DEF FilesOK, FileOK
    <3>3. f \in DOMAIN m.cp.accepted
      BY <1>2, <1>3, <3>2 DEF CpFacts, CpSound, Binding
    <3>4. m.cp.accepted[f] \in Contents
      BY <1>3, <3>3 DEF CpFacts, CpType
    <3>5. m.cp.accepted[f].by \in {"user", "broker"}
      BY <3>4 DEF Contents
    <3>6. m.cp.accepted[f] = files[f].content
      BY <1>3, <3>1, <3>2, <3>3, <3>5 DEF CpFacts, CpFiles
    <3> QED
      BY <1>1, <3>1, <3>3, <3>6 DEF Duplicated
  <2>4. pc \in {"register", "bind", "bound"} /\ pc # "register" /\ pc # "bind"
        /\ Binding(m.cp, ch.file) /\ Unchanged(ch)
    BY <1>1, <1>2, <1>5, <2>1
  <2> QED
    BY <1>1, <1>2, <2>1, <2>2, <2>3, <2>4, ItemTaken
<1>6. CASE Stop(j)
  BY <1>2, <1>6, StopIInv
<1> QED
  BY <1>4, <1>5, <1>6 DEF BoundChange
---------------------------------------------------------------------------
(* Onboarding. *)

LEMMA RegisterOriginalIInv == ASSUME IInv, NEW j \in Jobs, RegisterOriginal(j) PROVE IInv'
<1>1. PICK m, n : m = job[j] /\ n = [m EXCEPT !.pc = "registered"]
  OBVIOUS
<1>2. /\ m.pc = "register" /\ job' = [job EXCEPT ![j] = n]
      /\ broker' = [broker EXCEPT !.registered = TRUE]
      /\ UNCHANGED <<files, clock, approvals, nextId, checkpoint, evidence, outputs>>
  BY <1>1 DEF RegisterOriginal, Goto, driveVars
<1>3. JobCore(m) /\ JobPage(m) /\ FilesOK
  BY <1>1 DEF IInv, JobOK
<1>4. BrokerOK' /\ broker.processed \subseteq broker'.processed
  <2>1. /\ DOMAIN broker' = BrokerFields /\ broker'.rev = broker.rev /\ broker'.view = broker.view
        /\ broker'.processed = broker.processed
    BY <1>2 DEF IInv, BrokerOK, BrokerFields
  <2> QED
    BY <1>2, <2>1 DEF IInv, BrokerOK
<1>5. FilesOK' /\ EvidenceOK' /\ Evolve
  BY <1>2, <1>4, BrokerMoves
<1>6. /\ DOMAIN n = JobFields /\ n.pc = "registered" /\ n.item = m.item /\ n.phase = m.phase
      /\ n.succ = m.succ /\ n.todo = m.todo /\ n.cp = m.cp /\ n.base = m.base /\ n.result = m.result
  BY <1>1, <1>3 DEF JobCore, JobType, JobFields
<1>7. JobType(n)
  BY <1>2, <1>3, <1>6 DEF JobCore, JobType, Pcs, OfPage, OnItem
<1>8. JobPhase(n)
  BY <1>2, <1>3, <1>6 DEF JobCore, JobPhase, OfPage, OnItem
<1>9. JobTodo(n) /\ JobItem(n)
  BY <1>2, <1>3, <1>6 DEF JobCore, JobTodo, JobItem, OnItem
<1>10. JobPage(n)
  BY <1>2, <1>3, <1>6 DEF JobPage, Covered
<1>11. JobOK(n)'
  <2>1. JobCore(n)
    BY <1>3, <1>6, <1>7, <1>8, <1>9 DEF JobCore
  <2>2. JobMade(n)'
    BY <1>6 DEF JobMade
  <2> QED
    BY <1>3, <1>5, <1>10, <2>1, <2>2, CoreEvolves, PageEvolves DEF JobOK
<1>12. DOMAIN job' = Jobs /\ job'[j] = n /\ \A k \in Jobs \ {j} : job'[k] = job[k]
  BY <1>2 DEF IInv
<1>13. \A k \in Jobs : job'[k] = job[k] \/ JobOK(job[k])'
  <2> SUFFICES ASSUME NEW k \in Jobs, k = j PROVE JobOK(job[k])'
    BY <1>12
  <2> QED
    BY <1>11, <1>12
<1> QED
  BY <1>2, <1>4, <1>5, <1>12, <1>13, WorldMoves

LEMMA CommitRegistrationIInv == ASSUME IInv, NEW j \in Jobs, CommitRegistration(j) PROVE IInv'
<1>1. PICK m, ch, c, next :
          /\ m = job[j] /\ ch = m.item /\ c = commit_original_registration(m.cp, ch)
          /\ next = [m EXCEPT !.pc = "changes", !.todo = @ \ {ch}, !.item = None]
  OBVIOUS
<1>2. /\ m.pc = "registered" /\ Persist(j, c, next)
      /\ UNCHANGED <<files, clock, approvals, nextId, evidence, broker, outputs>>
  BY <1>1 DEF CommitRegistration, driveVars
<1>3. JobCore(m) /\ JobPage(m) /\ CpFacts(m.cp) /\ m.base = m.cp
      /\ Entries(m.cp) \subseteq Entries(checkpoint)
  BY <1>1 DEF IInv, JobOK, JobCore, JobType
<1>4. /\ ch \in m.todo /\ ch \in Items /\ ch.file = Original /\ Original \notin DOMAIN m.cp.bound
      /\ ch.rev.content = Clean /\ ch.rev.version <= files[Original].version
      /\ m.cp.pendIn = {} /\ m.cp.pendOut = {} /\ m.phase = "page"
  BY <1>1, <1>2, <1>3 DEF JobCore, JobType, JobPhase, JobTodo, JobItem, Binding, OnItem, OfPage
<1>5. /\ CpFacts(c) /\ Entries(c) = Entries(m.cp) /\ c.pendIn = {} /\ c.pendOut = m.cp.pendOut
      /\ c.token = m.cp.token /\ Original \in DOMAIN c.accepted /\ c.accepted[Original] = Clean
      /\ \A g \in DOMAIN files : Handled(m.cp, g) => Handled(c, g)
  BY <1>1, <1>3, <1>4, RegistrationFacts
<1>6. CASE Stop(j) /\ UNCHANGED checkpoint
  BY <1>2, <1>6, StopIInv
<1>7. CASE /\ checkpoint = job[j].base /\ checkpoint' = c
           /\ job' = [job EXCEPT ![j] = [next EXCEPT !.cp = c, !.base = c]]
  <2>1. PICK n : n = [next EXCEPT !.cp = c, !.base = c]
    OBVIOUS
  <2>2. /\ DOMAIN n = JobFields /\ n.pc = "changes" /\ n.cp = c /\ n.base = c
        /\ n.todo = m.todo \ {ch} /\ n.succ = m.succ /\ n.phase = m.phase /\ n.result = m.result
    BY <1>1, <1>3, <2>1 DEF JobCore, JobType, JobFields
  <2>3. JobType(n)
    BY <1>3, <2>2 DEF JobCore, JobType, Pcs, OfPage, OnItem
  <2>4. JobPhase(n)
    BY <1>3, <1>4, <1>5, <2>2 DEF JobCore, JobPhase, OfPage, OnItem
  <2>5. JobTodo(n) /\ JobItem(n) /\ JobMade(n)
    BY <1>3, <2>2 DEF JobCore, JobTodo, JobItem, JobMade, OnItem
  <2>6. Covered(n)
    <3>1. Covered(m)
      BY <1>1, <1>2, <1>3, <1>4, <1>7 DEF JobPage
    <3> SUFFICES ASSUME NEW f \in DOMAIN files, files[f].changed <= m.succ, files[f].place \in Sides
                 PROVE  (\E x \in n.todo : x.file = f /\ x.rev = files[f]) \/ Handled(c, f)
      BY <2>2 DEF Covered
    <3>2. CASE Handled(m.cp, f)
      BY <1>5, <3>2
    <3>3. CASE \E x \in m.todo : x.file = f /\ x.rev = files[f]
      <4>1. PICK x \in m.todo : x.file = f /\ x.rev = files[f]
        BY <3>3
      <4>2. CASE x = ch
        BY <1>4, <1>5, <4>1, <4>2 DEF Handled
      <4>3. CASE x # ch
        BY <2>2, <4>1, <4>3
      <4> QED
        BY <4>2, <4>3
    <3> QED
      BY <3>1, <3>2, <3>3 DEF Covered
  <2>7. Entries(c) = Entries(checkpoint) /\ Ledger(Entries(c), nextId')
    BY <1>1, <1>2, <1>3, <1>5, <1>7 DEF IInv
  <2>8. job' = [job EXCEPT ![j] = n]
    BY <1>7, <2>1
  <2> QED
    BY <1>2, <1>5, <1>7, <2>2, <2>3, <2>4, <2>5, <2>6, <2>7, <2>8, Persisted
<1>8. Valid(c)
  BY <1>5 DEF CpFacts, CpSound
<1> QED
  BY <1>2, <1>6, <1>7, <1>8, PersistCases

LEMMA BindArtifactIInv == ASSUME IInv, NEW j \in Jobs, BindArtifact(j) PROVE IInv'
<1>1. PICK m, ch, c, next :
          /\ m = job[j] /\ ch = m.item /\ c = Bound(m.cp, ch.file, "supernote", Zero)
          /\ next = [m EXCEPT !.pc = "bound"]
  OBVIOUS
<1>2. /\ m.pc = "bind" /\ Persist(j, c, next)
      /\ UNCHANGED <<files, clock, approvals, nextId, evidence, broker, outputs>>
  BY <1>1 DEF BindArtifact, driveVars
<1>3. JobCore(m) /\ JobPage(m) /\ CpFacts(m.cp) /\ m.base = m.cp
      /\ Entries(m.cp) \subseteq Entries(checkpoint)
  BY <1>1 DEF IInv, JobOK, JobCore, JobType
<1>4. /\ ch \in m.todo /\ ch \in Items /\ ch.file = Export /\ Export \notin DOMAIN m.cp.bound
      /\ m.cp.pendIn = {} /\ m.cp.pendOut = {} /\ m.phase = "page" /\ Fresh(ch, m.succ)
      /\ Export \in DOMAIN files /\ ch.rev.delivery = files[Export].delivery
      /\ ch.rev.content.by = "broker" => ch.rev.delivery # 0
  BY <1>1, <1>2, <1>3 DEF JobCore, JobType, JobPhase, JobTodo, JobItem, Binding, OnItem, OfPage
<1>5. /\ files[Export].place \in Sides => files[Export].place = "supernote"
      /\ files[Export].delivery = 0 /\ files[Export].content.by = "user"
  <2>1. FileOK(Export) /\ files[Export].content \in Contents
    BY <1>4 DEF IInv, FilesOK, Revisions
  <2>2. files[Export].content.by \in {"user", "broker"}
    BY <2>1 DEF Contents
  <2> QED
    BY <2>1, <2>2 DEF FileOK, Sides
<1>6. /\ CpFacts(c) /\ Entries(c) = Entries(m.cp) /\ DOMAIN c.bound = DOMAIN m.cp.bound \cup {Export}
      /\ c.pendIn = {} /\ c.pendOut = m.cp.pendOut /\ c.token = m.cp.token
      /\ c.accepted = m.cp.accepted /\ c.processed = m.cp.processed
  BY <1>1, <1>3, <1>4, <1>5, BindFacts DEF Sides
<1>7. CASE Stop(j) /\ UNCHANGED checkpoint
  BY <1>2, <1>7, StopIInv
<1>8. CASE /\ checkpoint = job[j].base /\ checkpoint' = c
           /\ job' = [job EXCEPT ![j] = [next EXCEPT !.cp = c, !.base = c]]
  <2>1. PICK n : n = [next EXCEPT !.cp = c, !.base = c]
    OBVIOUS
  <2>2. /\ DOMAIN n = JobFields /\ n.pc = "bound" /\ n.cp = c /\ n.base = c /\ n.item = ch
        /\ n.todo = m.todo /\ n.succ = m.succ /\ n.phase = m.phase /\ n.result = m.result
    BY <1>1, <1>3, <2>1 DEF JobCore, JobType, JobFields
  <2>3. JobType(n)
    BY <1>3, <1>4, <2>2 DEF JobCore, JobType, Pcs, OfPage, OnItem
  <2>4. JobPhase(n)
    BY <1>3, <1>4, <1>6, <2>2 DEF JobCore, JobPhase, OfPage, OnItem
  <2>5. JobTodo(n) /\ JobMade(n)
    BY <1>3, <2>2 DEF JobCore, JobTodo, JobMade
  <2>6. JobItem(n)
    <3>1. \A e \in c.processed : e.file # Export
      BY <1>3, <1>4, <1>6 DEF CpFacts, CpSound, Binding
    <3> QED
      BY <1>4, <1>5, <1>6, <2>2, <3>1 DEF JobItem, Binding, OnItem
  <2>7. Covered(n)
    <3>1. Covered(m)
      BY <1>1, <1>2, <1>3, <1>4, <1>8 DEF JobPage
    <3> QED
      BY <1>6, <2>2, <3>1 DEF Covered, Handled
  <2>8. Entries(c) = Entries(checkpoint) /\ Ledger(Entries(c), nextId')
    BY <1>1, <1>2, <1>3, <1>6, <1>8 DEF IInv
  <2>9. job' = [job EXCEPT ![j] = n]
    BY <1>8, <2>1
  <2> QED
    BY <1>2, <1>6, <1>8, <2>2, <2>3, <2>4, <2>5, <2>6, <2>7, <2>8, <2>9, Persisted
<1>9. Valid(c)
  BY <1>6 DEF CpFacts, CpSound
<1> QED
  BY <1>2, <1>7, <1>8, <1>9, PersistCases
---------------------------------------------------------------------------
(* A bound file's change becomes evidence and a pending input. *)

LEMMA PrepareInputIInv == ASSUME IInv, NEW j \in Jobs, PrepareInput(j) PROVE IInv'
<1>1. PICK m, ch, f : m = job[j] /\ ch = m.item /\ f = ch.file
  OBVIOUS
<1> DEFINE side == m.cp.bound[f]
           based == m.cp.front[f]
<1>2. m.pc = "bound" /\ UNCHANGED <<files, clock, approvals, nextId, checkpoint, evidence, broker, outputs>>
  BY <1>1 DEF PrepareInput, driveVars, cloudVars
<1>3. JobCore(m) /\ JobPage(m) /\ CpFacts(m.cp) /\ FilesOK
  BY <1>1 DEF IInv, JobOK, JobCore
<1>4. /\ ch \in m.todo /\ ch \in Items /\ f \in DOMAIN files /\ f \in DOMAIN m.cp.bound
      /\ f \in DOMAIN m.cp.front
  BY <1>1, <1>2, <1>3 DEF JobCore, JobType, JobTodo, JobItem, Binding, OnItem, CpFacts, CpSound, Valid
<1>5. CASE Stop(j)
  BY <1>2, <1>5, StopIInv
<1>6. CASE Drop(j, ch) /\ (Duplicated(m.cp, ch) \/ ch.rev.place # side)
  <2>1. SUFFICES ASSUME files[f] = ch.rev, ch.rev.place \in Sides PROVE Handled(m.cp, f)
    BY <1>1, <1>2, <1>6, DropIInv
  <2>2. ch.rev.place = side
    BY <1>3, <1>4, <2>1 DEF CpFacts, CpFiles
  <2>3. CASE f \in DOMAIN m.cp.accepted /\ m.cp.accepted[f] = ch.rev.content
    BY <2>1, <2>3 DEF Handled
  <2>4. CASE EventOf(f, ch.rev) \in m.cp.processed
    BY <1>3, <1>4, <2>1, <2>4 DEF CpFacts, CpFeed
  <2> QED
    BY <1>1, <1>6, <2>2, <2>3, <2>4 DEF Duplicated
<1>7. CASE /\ ~Duplicated(m.cp, ch)
           /\ job' = [job EXCEPT ![j].pc = "put",
                  ![j].input = [event |-> EventOf(f, ch.rev), side |-> side,
                                rev |-> SourceRevision(based, side), based |-> based]]
  <2>1. PICK in, n : /\ in = [event |-> EventOf(f, ch.rev), side |-> side,
                              rev |-> SourceRevision(based, side), based |-> based]
                     /\ n = [m EXCEPT !.pc = "put", !.input = in]
    OBVIOUS
  <2>2. job' = [job EXCEPT ![j] = n]
    BY <1>1, <1>7, <2>1
  <2>3. side \in Sides /\ based \in Pairs
    BY <1>3, <1>4 DEF CpFacts, CpType
  <2>4. SourceRevision(based, side) \in Nat /\ SourceRevision(based, side) > based[side]
    <3>1. based[side] \in Nat /\ broker.rev[side] \in Nat
      BY <2>3 DEF IInv, BrokerOK, Pairs
    <3>2. /\ MaxOf(based[side], broker.rev[side]) \in Nat
          /\ MaxOf(based[side], broker.rev[side]) >= based[side]
      BY <3>1 DEF MaxOf
    <3> HIDE DEF based, side
    <3> QED
      BY <3>1, <3>2 DEF SourceRevision
  <2>5. ch.rev.content \in Contents /\ ch.rev.content.by = "user" /\ EventOf(f, ch.rev) \in Events
        /\ EventOf(f, ch.rev).content = ch.rev.content
    <3>1. ch.rev.content.by # "broker"
      BY <1>1, <1>2, <1>3, <1>7 DEF JobCore, JobItem
    <3>2. ch.rev \in Revisions /\ f \in Nat
      BY <1>1, <1>4 DEF Items
    <3>3. ch.rev.content \in Contents /\ ch.rev.version \in Nat
      BY <3>2 DEF Revisions
    <3> QED
      BY <3>1, <3>2, <3>3 DEF Contents, Events, EventOf
  <2>6. /\ in \in Uploads /\ in.event = EventOf(f, ch.rev) /\ in.side = side /\ in.based = based
        /\ in.rev > in.based[in.side] /\ in.event.content.by = "user"
    BY <2>1, <2>3, <2>4, <2>5 DEF Uploads
  <2>7. /\ DOMAIN n = JobFields /\ n.pc = "put" /\ n.item = ch /\ n.input = in /\ n.phase = m.phase
        /\ n.succ = m.succ /\ n.todo = m.todo /\ n.cp = m.cp /\ n.base = m.base /\ n.result = m.result
    BY <1>1, <1>3, <2>1 DEF JobCore, JobType, JobFields
  <2> HIDE DEF side, based
  <2>8. JobType(n)
    BY <1>3, <1>4, <2>6, <2>7 DEF JobCore, JobType, Pcs, OfPage, OnItem
  <2>9. JobPhase(n)
    BY <1>2, <1>3, <2>7 DEF JobCore, JobPhase, OfPage, OnItem
  <2>10. JobTodo(n) /\ JobMade(n)
    BY <1>3, <2>7 DEF JobCore, JobTodo, JobMade
  <2>11. JobItem(n)
    BY <1>1, <1>2, <1>3, <2>6, <2>7 DEF JobCore, JobItem, OnItem, side, based
  <2>12. JobPage(n)
    BY <1>2, <1>3, <2>7 DEF JobPage, Covered
  <2>13. JobOK(n)
    BY <1>3, <2>7, <2>8, <2>9, <2>10, <2>11, <2>12 DEF JobOK, JobCore
  <2> QED
    BY <1>2, <2>2, <2>13, JobMoves
<1> QED
  BY <1>1, <1>5, <1>6, <1>7 DEF PrepareInput, prepare_drive_input

LEMMA PutEvidenceIInv == ASSUME IInv, NEW j \in Jobs, PutEvidence(j) PROVE IInv'
<1>1. PICK m, n, in, meta :
          /\ m = job[j] /\ n = [m EXCEPT !.pc = "save"] /\ in = m.input
          /\ meta = [side |-> in.side, rev |-> in.rev, based |-> in.based]
  OBVIOUS
<1>2. /\ m.pc = "put"
      /\ UNCHANGED <<files, clock, approvals, nextId, checkpoint, broker, outputs>>
  BY <1>1 DEF PutEvidence, driveVars
<1>3. JobCore(m) /\ JobPage(m) /\ FilesOK
  BY <1>1 DEF IInv, JobOK
<1>4. /\ in \in Uploads /\ in.event \in Events /\ in.event.content.by = "user"
      /\ in.event.file \in DOMAIN files /\ files[in.event.file].content.by = "user"
  <2>1. /\ m.item \in m.todo /\ in.event = EventOf(m.item.file, m.item.rev)
        /\ in.event.content.by = "user" /\ in \in Uploads
        /\ m.item.rev.content.by = "user" => files[m.item.file].content.by = "user"
    BY <1>1, <1>2, <1>3 DEF JobCore, JobType, JobItem, OnItem
  <2>2. in.event \in Events /\ m.item.file \in DOMAIN files
    BY <1>3, <2>1 DEF Uploads, JobCore, JobTodo
  <2> QED
    BY <2>1, <2>2 DEF EventOf
<1>5. /\ DOMAIN n = JobFields /\ n.pc = "save" /\ n.item = m.item /\ n.input = in /\ n.phase = m.phase
      /\ n.succ = m.succ /\ n.todo = m.todo /\ n.cp = m.cp /\ n.base = m.base /\ n.result = m.result
  BY <1>1, <1>3 DEF JobCore, JobType, JobFields
<1>6. JobCore(n)
  <2>1. JobType(n)
    BY <1>1, <1>2, <1>3, <1>5 DEF JobCore, JobType, Pcs, OfPage, OnItem
  <2>2. JobPhase(n) /\ JobTodo(n)
    BY <1>2, <1>3, <1>5 DEF JobCore, JobPhase, JobTodo, OfPage, OnItem
  <2>3. JobItem(n)
    BY <1>1, <1>2, <1>3, <1>5 DEF JobCore, JobItem, OnItem
  <2> QED
    BY <1>3, <1>5, <2>1, <2>2, <2>3 DEF JobCore
<1>7. JobPage(n)
  BY <1>2, <1>3, <1>5 DEF JobPage, Covered
<1>8. CASE Stop(j) /\ UNCHANGED evidence
  BY <1>2, <1>8, StopIInv
<1>9. CASE in.event \in DOMAIN evidence /\ UNCHANGED evidence /\ job' = [job EXCEPT ![j] = n]
  <2>1. JobOK(n)
    BY <1>5, <1>6, <1>7, <1>9 DEF JobOK, JobMade
  <2> QED
    BY <1>2, <1>9, <2>1, JobMoves
<1>10. CASE evidence' = With(evidence, in.event, meta) /\ job' = [job EXCEPT ![j] = n]
  <2>1. meta \in [side : Sides, rev : Nat, based : Pairs]
    BY <1>1, <1>4 DEF Uploads
  <2>2. evidence \in [DOMAIN evidence -> [side : Sides, rev : Nat, based : Pairs]]
    BY DEF IInv, EvidenceOK
  <2>3. DOMAIN evidence' = DOMAIN evidence \cup {in.event}
        /\ evidence' \in [DOMAIN evidence' -> [side : Sides, rev : Nat, based : Pairs]]
    BY <1>10, <2>1, <2>2 DEF With
  <2>4. EvidenceOK'
    BY <1>2, <1>4, <2>3 DEF IInv, EvidenceOK
  <2>5. FilesOK' /\ BrokerOK' /\ Evolve
    <3>1. \A f \in DOMAIN files' : FileOK(f)'
      BY <1>2, <1>3 DEF FilesOK, FileOK, Entries
    <3>2. FilesOK' /\ BrokerOK'
      BY <1>2, <1>3, <3>1 DEF IInv, FilesOK, BrokerOK
    <3> QED
      BY <1>2, <1>3, <2>3, <3>2 DEF Evolve, Entries, FilesOK
  <2>6. JobOK(n)'
    <3>1. JobMade(n)'
      BY <1>5, <2>3 DEF JobMade
    <3> QED
      BY <1>3, <1>6, <1>7, <2>5, <3>1, CoreEvolves, PageEvolves DEF JobOK
  <2>7. DOMAIN job' = Jobs /\ job'[j] = n /\ \A k \in Jobs \ {j} : job'[k] = job[k]
    BY <1>10 DEF IInv
  <2>8. \A k \in Jobs : job'[k] = job[k] \/ JobOK(job[k])'
    <3> SUFFICES ASSUME NEW k \in Jobs, k = j PROVE JobOK(job[k])'
      BY <2>7
    <3> QED
      BY <2>6, <2>7
  <2> QED
    BY <1>2, <2>4, <2>5, <2>7, <2>8, WorldMoves
<1> QED
  BY <1>1, <1>8, <1>9, <1>10 DEF PutEvidence, Goto

LEMMA SavePendingIInv == ASSUME IInv, NEW j \in Jobs, SavePending(j) PROVE IInv'
<1>1. PICK m, ch, p, c, next :
          /\ m = job[j] /\ ch = m.item /\ p = PendingInput(m.input) /\ c = commit_drive_input(m.cp, p)
          /\ next = [m EXCEPT !.pc = "finish", !.input = p, !.todo = @ \ {ch}, !.item = None]
  OBVIOUS
<1>2. /\ m.pc = "save" /\ Persist(j, c, next)
      /\ UNCHANGED <<files, clock, approvals, nextId, evidence, broker, outputs>>
  BY <1>1 DEF SavePending, driveVars
<1>3. JobCore(m) /\ JobPage(m) /\ JobMade(m) /\ CpFacts(m.cp) /\ m.base = m.cp /\ FilesOK
      /\ Entries(m.cp) \subseteq Entries(checkpoint)
  BY <1>1 DEF IInv, JobOK, JobCore, JobType
<1>4. /\ ch \in m.todo /\ ch \in Items /\ ch.file \in DOMAIN m.cp.bound /\ m.input \in Uploads
      /\ ch.rev.version <= files[ch.file].version /\ ch.file \in DOMAIN files
      /\ m.cp.pendIn = {} /\ m.cp.pendOut = {} /\ m.phase = "page" /\ Fresh(ch, m.succ)
      /\ m.input.event \in DOMAIN evidence
  BY <1>1, <1>2, <1>3
     DEF JobCore, JobType, JobPhase, JobTodo, JobItem, JobMade, Binding, OnItem, OfPage
<1>5. /\ m.input.event = EventOf(ch.file, ch.rev) /\ m.input.side = m.cp.bound[ch.file]
      /\ m.input.based = m.cp.front[ch.file] /\ m.input.rev > m.input.based[m.input.side]
      /\ \A e \in m.cp.processed : e.file = ch.file => e.version <= ch.rev.version
  BY <1>1, <1>2, <1>3 DEF JobCore, JobItem
<1>6. /\ p \in Inputs /\ p.event = m.input.event /\ p.event.file = ch.file
      /\ p.event.version = ch.rev.version /\ p.side = m.cp.bound[ch.file]
      /\ p.previous = m.cp.front[ch.file] /\ p.proposed[p.side] > p.previous[p.side]
      /\ p.proposed[Other(p.side)] = p.previous[Other(p.side)]
  <2>1. PICK side, rev, based : side = m.input.side /\ rev = m.input.rev /\ based = m.input.based
    OBVIOUS
  <2>2. side \in Sides /\ rev \in Nat /\ based \in Pairs /\ m.input.event \in Events
    BY <1>4, <2>1 DEF Uploads
  <2>3. PICK q : q = [based EXCEPT ![side] = rev]
    OBVIOUS
  <2>4. q \in Pairs /\ q[side] = rev /\ q[Other(side)] = based[Other(side)]
    BY <2>2, <2>3, PairUpdate
  <2>5. p = [event |-> m.input.event, side |-> side, previous |-> based, proposed |-> q]
    BY <1>1, <2>1, <2>3 DEF PendingInput
  <2>6. EventOf(ch.file, ch.rev).file = ch.file /\ EventOf(ch.file, ch.rev).version = ch.rev.version
    BY DEF EventOf
  <2> QED
    BY <1>5, <2>1, <2>2, <2>4, <2>5, <2>6 DEF Inputs
<1>7. \A s \in {{m.succ}, {m.cp.token} \ {None}} : Settled(p, s)
  <2>1. files[ch.file].changed \in Nat /\ m.succ \in Nat /\ m.cp.token \in {None} \cup Nat
        /\ (m.cp.token # None => m.cp.token <= m.succ)
    BY <1>3, <1>4 DEF FilesOK, Revisions, JobCore, JobType, JobPhase, CpFacts, CpType
  <2>2. CASE files[ch.file] = ch.rev
    BY <1>5, <1>6, <2>2 DEF Settled
  <2>3. CASE files[ch.file].version > ch.rev.version /\ files[ch.file].changed > m.succ
    <3>1. \A t \in {m.succ} \cup ({m.cp.token} \ {None}) : files[ch.file].changed > t
      BY <2>1, <2>3
    <3> QED
      BY <1>6, <2>3, <3>1 DEF Settled
  <2> QED
    BY <1>4, <2>2, <2>3 DEF Fresh
<1>8. /\ CpFacts(c) /\ Entries(c) = Entries(m.cp) /\ c.pendIn = {p} /\ c.pendOut = m.cp.pendOut
      /\ c.token = m.cp.token /\ c.accepted = m.cp.accepted
  <2>1. /\ p.event \in DOMAIN evidence /\ p.event.file \in DOMAIN m.cp.bound
        /\ p.side = m.cp.bound[p.event.file] /\ p.previous = m.cp.front[p.event.file]
        /\ p.event.version <= files[p.event.file].version /\ Settled(p, {m.cp.token} \ {None})
        /\ \A e \in m.cp.processed : e.file = p.event.file => e.version <= p.event.version
    BY <1>4, <1>5, <1>6, <1>7
  <2>2. PICK a : a = m.cp
    OBVIOUS
  <2>3. /\ CpFacts(a) /\ a.pendIn = {} /\ p.event.file \in DOMAIN a.bound
        /\ p.side = a.bound[p.event.file] /\ p.previous = a.front[p.event.file]
        /\ Settled(p, {a.token} \ {None})
        /\ \A e \in a.processed : e.file = p.event.file => e.version <= p.event.version
        /\ c = commit_drive_input(a, p)
    BY <1>1, <1>3, <1>4, <2>1, <2>2
  <2>4. /\ CpFacts(c) /\ Entries(c) = Entries(a) /\ c.pendIn = {p} /\ c.pendOut = a.pendOut
        /\ c.token = a.token /\ c.accepted = a.accepted
    BY <1>6, <2>1, <2>3, DriveInputFacts
  <2> QED
    BY <2>2, <2>4
<1>9. CASE Stop(j) /\ UNCHANGED checkpoint
  BY <1>2, <1>9, StopIInv
<1>10. CASE /\ checkpoint = job[j].base /\ checkpoint' = c
            /\ job' = [job EXCEPT ![j] = [next EXCEPT !.cp = c, !.base = c]]
  <2>1. PICK n : n = [next EXCEPT !.cp = c, !.base = c]
    OBVIOUS
  <2>2. /\ DOMAIN n = JobFields /\ n.pc = "finish" /\ n.cp = c /\ n.base = c /\ n.input = p
        /\ n.todo = m.todo \ {ch} /\ n.succ = m.succ /\ n.phase = m.phase /\ n.result = m.result
    BY <1>1, <1>3, <2>1 DEF JobCore, JobType, JobFields
  <2>3. JobType(n)
    BY <1>3, <1>8, <2>2 DEF JobCore, JobType, Pcs, OfPage, OnItem
  <2>4. JobPhase(n)
    BY <1>3, <1>4, <1>8, <2>2 DEF JobCore, JobPhase, OfPage, OnItem
  <2>5. JobTodo(n) /\ JobItem(n) /\ JobMade(n)
    BY <1>3, <1>7, <2>2 DEF JobCore, JobTodo, JobItem, JobMade, OnItem
  <2>6. Covered(n)
    <3>1. Covered(m)
      BY <1>1, <1>2, <1>3, <1>4, <1>10 DEF JobPage
    <3> SUFFICES ASSUME NEW f \in DOMAIN files, files[f].changed <= m.succ, files[f].place \in Sides
                 PROVE  (\E x \in n.todo : x.file = f /\ x.rev = files[f]) \/ Handled(c, f)
      BY <2>2 DEF Covered
    <3>2. CASE Handled(m.cp, f)
      BY <1>8, <3>2 DEF Handled
    <3>3. CASE \E x \in m.todo : x.file = f /\ x.rev = files[f]
      <4>1. PICK x \in m.todo : x.file = f /\ x.rev = files[f]
        BY <3>3
      <4>2. CASE x = ch
        BY <1>4, <1>5, <4>1, <4>2 DEF Handled
      <4>3. CASE x # ch
        BY <2>2, <4>1, <4>3
      <4> QED
        BY <4>2, <4>3
    <3> QED
      BY <3>1, <3>2, <3>3 DEF Covered
  <2>7. Entries(c) = Entries(checkpoint) /\ Ledger(Entries(c), nextId')
    BY <1>1, <1>2, <1>3, <1>8, <1>10 DEF IInv
  <2>8. job' = [job EXCEPT ![j] = n]
    BY <1>10, <2>1
  <2> QED
    BY <1>2, <1>8, <1>10, <2>2, <2>3, <2>4, <2>5, <2>6, <2>7, <2>8, Persisted
<1>11. Valid(c)
  BY <1>8 DEF CpFacts, CpSound
<1> QED
  BY <1>2, <1>9, <1>10, <1>11, PersistCases

LEMMA CommitPageIInv == ASSUME IInv, NEW j \in Jobs, CommitPage(j) PROVE IInv'
<1>1. PICK m, c, next : m = job[j] /\ c = commit_page_token(m.cp, m.succ) /\ next = Idle
  OBVIOUS
<1>2. /\ m.pc = "changes" /\ m.todo = {} /\ Persist(j, c, next)
      /\ UNCHANGED <<files, clock, approvals, nextId, evidence, broker, outputs>>
  BY <1>1 DEF CommitPage, driveVars
<1>3. JobCore(m) /\ JobPage(m) /\ CpFacts(m.cp) /\ m.base = m.cp /\ m.phase = "page"
      /\ m.cp.pendIn = {} /\ m.succ \in 1 .. clock
  BY <1>1, <1>2 DEF IInv, JobOK, JobCore, JobType, JobPhase, OnItem, OfPage
<1>4. Valid(c)
  <2>1. /\ c.bound = m.cp.bound /\ c.accepted = m.cp.accepted /\ c.front = m.cp.front
        /\ c.processed = m.cp.processed /\ c.pendIn = m.cp.pendIn /\ c.pendOut = m.cp.pendOut
        /\ c.delivered = m.cp.delivered
    BY <1>1, <1>3, PageTokenFields DEF CpFacts, CpType
  <2> QED
    BY <1>3, <2>1 DEF CpFacts, CpSound, Valid, Binding
<1>5. CASE Stop(j) /\ UNCHANGED checkpoint
  BY <1>2, <1>5, StopIInv
<1>6. CASE /\ checkpoint = job[j].base /\ checkpoint' = c
           /\ job' = [job EXCEPT ![j] = [next EXCEPT !.cp = c, !.base = c]]
  <2>1. \A f \in DOMAIN files : files[f].changed <= m.succ /\ files[f].place \in Sides => Handled(m.cp, f)
    BY <1>1, <1>2, <1>3, <1>6 DEF JobPage, Covered
  <2>2. CpFacts(c) /\ Entries(c) = Entries(m.cp)
    BY <1>1, <1>3, <2>1, PageTokenFacts
  <2>3. PICK n : n = [next EXCEPT !.cp = c, !.base = c]
    OBVIOUS
  <2>4. /\ DOMAIN n = JobFields /\ n.pc = "idle" /\ n.phase = "recover" /\ n.succ = 0 /\ n.todo = {}
        /\ n.result = "none" /\ n.base = c /\ n.cp = c
    BY <1>1, <2>3 DEF Idle, JobFields
  <2>5. /\ JobType(n) /\ JobPhase(n) /\ JobTodo(n) /\ JobItem(n) /\ JobMade(n)
    BY <2>4 DEF JobType, JobPhase, JobTodo, JobItem, JobMade, Pcs, OfPage, OnItem
  <2>6. Entries(c) = Entries(checkpoint) /\ Ledger(Entries(c), nextId')
    BY <1>1, <1>2, <1>3, <1>6, <2>2 DEF IInv
  <2>7. job' = [job EXCEPT ![j] = n]
    BY <1>6, <2>3
  <2> QED
    BY <1>2, <1>6, <2>2, <2>4, <2>5, <2>6, <2>7, Persisted
<1> QED
  BY <1>2, <1>4, <1>5, <1>6, PersistCases

LEMMA CrashIInv == ASSUME IInv, NEW j \in Jobs, Crash(j) PROVE IInv'
  BY StopIInv DEF Crash, driveVars, cloudVars
---------------------------------------------------------------------------
(* The theorems. *)

LEMMA JobStepIInv == ASSUME DriveAssumption, IInv, NEW j \in Jobs, JobStep(j) PROVE IInv'
<1>1. ASSUME NEW p, Process(j, p) PROVE IInv'
  BY <1>1, ProcessIInv
<1>2. ASSUME NEW p, CreateOutput(j, p) PROVE IInv'
  BY <1>2, CreateOutputIInv
<1>3. ASSUME NEW s, ListChanges(j, s) PROVE IInv'
  BY <1>3, ListChangesIInv
<1>4. ASSUME NEW ch, OnboardChange(j, ch) PROVE IInv'
  BY <1>4, OnboardChangeIInv
<1>5. ASSUME NEW ch, BoundChange(j, ch) PROVE IInv'
  BY <1>5, BoundChangeIInv
<1> QED
  BY <1>1, <1>2, <1>3, <1>4, <1>5, StartIInv, FinishInputIInv, CommitOutputIInv, NextPhaseIInv,
     RecoverOutputsIInv, StartTokenIInv, ListInitialIInv, RegisterOriginalIInv,
     CommitRegistrationIInv, BindArtifactIInv, PrepareInputIInv, PutEvidenceIInv,
     SavePendingIInv, CommitPageIInv
     DEF JobStep

LEMMA NextIInv == ASSUME DriveAssumption, IInv, [Next]_vars PROVE IInv'
<1>1. ASSUME NEW j \in Jobs, JobStep(j) \/ Crash(j) PROVE IInv'
  BY <1>1, JobStepIInv, CrashIInv
<1>2. ASSUME NEW e, Announce(e) PROVE IInv'
  BY <1>2, AnnounceIInv
<1>3. ASSUME NEW s \in Sides, OtherEvent(s) PROVE IInv'
  BY <1>3, OtherEventIInv
<1>4. ASSUME NEW f \in DOMAIN files, Approve(f) PROVE IInv'
  BY <1>4, ApproveIInv
<1>5. ASSUME NEW f \in DOMAIN files, NEW n \in 0 .. 2, EditFile(f, n) PROVE IInv'
  BY <1>5, EditFileIInv
<1>6. ASSUME NEW f \in DOMAIN files, NEW p \in {"trash", "elsewhere"}, MoveFile(f, p) PROVE IInv'
  BY <1>6, MoveFileIInv
<1>7. CASE CreateExport
  BY <1>7, CreateExportIInv
<1>8. CASE UNCHANGED vars
  <2>1. UNCHANGED <<files, clock, approvals, nextId, checkpoint, evidence, broker, outputs, job>>
    BY <1>8 DEF vars
  <2>2. FilesOK' /\ EvidenceOK' /\ BrokerOK' /\ Evolve
    BY <2>1, NothingMoves
  <2> QED
    BY <2>1, <2>2, WorldMoves DEF IInv
<1> QED
  BY <1>1, <1>2, <1>3, <1>4, <1>5, <1>6, <1>7, <1>8 DEF Next

(* IInv holds in every state, for any jobs, files, edits, moves and crashes. *)
THEOREM Invariance == ASSUME DriveAssumption PROVE Spec => []IInv
<1>1. Init => IInv
  BY InitIInv
<1>2. IInv /\ [Next]_vars => IInv'
  BY NextIInv
<1> QED
  BY <1>1, <1>2, PTL DEF Spec

LEMMA IInvTypes == ASSUME IInv PROVE TypeOK
<1>1. /\ DOMAIN files \subseteq 1 .. MaxFiles /\ Original \in DOMAIN files
      /\ \A f \in DOMAIN files : files[f].place \in Sides \cup {"trash", "elsewhere"}
                                 /\ files[f].changed \in 1 .. clock
  BY DEF IInv, FilesOK, FileOK, Revisions, Places
<1>2. checkpoint.token \in {None} \cup 1 .. clock
  BY DEF IInv, CpFacts, CpFeed
<1>3. \A f \in DOMAIN checkpoint.bound : checkpoint.bound[f] \in Sides /\ checkpoint.front[f] \in Pairs
  BY DEF IInv, CpFacts, CpType, CpSound, Valid
<1>4. \A e \in DOMAIN evidence : evidence[e].side \in Sides /\ evidence[e].based \in Pairs
  BY DEF IInv, EvidenceOK
<1>5. broker.rev \in Pairs /\ broker.view \in 0 .. Cardinality(DOMAIN outputs)
  BY DEF IInv, BrokerOK
<1> QED
  BY <1>1, <1>2, <1>3, <1>4, <1>5 DEF TypeOK

LEMMA IInvOneFile == ASSUME IInv PROVE OneFilePerDelivery
<1> SUFFICES ASSUME NEW f \in DOMAIN files, NEW g \in DOMAIN files,
                    files[f].delivery # 0, files[f].delivery = files[g].delivery
             PROVE  f = g
  BY DEF OneFilePerDelivery
<1>1. PICK r \in Entries(checkpoint) : r.delivery = files[f].delivery /\ r.file = f
  BY DEF IInv, FilesOK, FileOK
<1>2. PICK s \in Entries(checkpoint) : s.delivery = files[g].delivery /\ s.file = g
  BY DEF IInv, FilesOK, FileOK
<1> QED
  BY <1>1, <1>2 DEF IInv, Ledger

LEMMA IInvCursor == ASSUME IInv PROVE CursorBehindEvidence /\ AcceptedIsHandled
<1>1. CpFeed(checkpoint) /\ CpHandled(checkpoint)
  BY DEF IInv, CpFacts
<1> QED
  BY <1>1 DEF CpFeed, CpHandled, Handled, CursorBehindEvidence, AcceptedIsHandled

(* Files, checkpoint, evidence and broker keep their types. *)
THEOREM TypeCorrect == ASSUME DriveAssumption PROVE Spec => []TypeOK
  BY Invariance, IInvTypes, PTL

(* Whatever jobs overlap, die or work on an old copy, persist never refuses a
   checkpoint, the page token never passes what is not safe, and content is
   accepted only once the broker has taken it. *)
THEOREM InputsSafe == ASSUME DriveAssumption PROVE Spec => []DriveInputsSafe
<1>1. IInv => DriveInputsSafe
  <2>1. IInv => NeverRefused
    BY DEF IInv, JobOK, JobCore, JobType, NeverRefused
  <2> QED
    BY <2>1, IInvTypes, IInvCursor DEF DriveInputsSafe
<1> QED
  BY <1>1, Invariance, PTL

(* A broker output becomes one Drive file and is never taken for an edit. *)
THEOREM OutputsOnce == ASSUME DriveAssumption PROVE Spec => []DriveOutputsOnce
<1>1. IInv => DriveOutputsOnce
  <2>1. IInv => NoEcho
    BY DEF IInv, EvidenceOK, NoEcho
  <2> QED
    BY <2>1, IInvOneFile DEF DriveOutputsOnce
<1> QED
  BY <1>1, Invariance, PTL
=============
