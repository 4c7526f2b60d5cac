------------------------ MODULE FolderTransportProofs -------------------------
(***************************************************************************)
(* Machine-checked theorems about FolderTransport, for any pages, edits,   *)
(* exports, crashes and losses: its types, that no journal runs ahead of   *)
(* the broker, and that no delivery covers ink that has not left the BOOX; *)
(* and, in the second part, about BooxHandoff, for any edits, late edits,  *)
(* crashes and losses: nothing drawn is lost, the acknowledged pair stays  *)
(* in incoming/ and the frontier covers what the BOOX shows.               *)
(*                                                                         *)
(* The inductive invariant follows the ink. Sent is the ink that has left  *)
(* a device: the canonical ink, every view and whatever a journal takes    *)
(* for delivered or uploaded lies in it, and the PDF is either a save of   *)
(* the device or lies in it too. A poll installs a view over the PDF only  *)
(* if the journal knows the PDF's content, so what it covers was sent      *)
(* (MayBeCovered). The journal's frontier is one the broker has reached,   *)
(* because it is raised by views and manifests, which are ones the broker  *)
(* made; and as the broker only moves forward this stays true while the    *)
(* poll works on what it listed. A poll takes its candidates in the order  *)
(* of their names: that it never runs out of a first one                   *)
(* (NextCandidateListed) needs the names to differ.                        *)
(***************************************************************************)
EXTENDS FolderTransport, TLAPS, WellFoundedInduction

Strokes == Pages \X Nat
Rev == [boox : Nat, supernote : Nat]
Locals == [kind : {"local"}, ink : SUBSET Strokes]

(* The ink that has left a device. *)
Sent == UNION {u.ink : u \in uploads}

UploadOK(u) ==
    /\ u.side \in Sides /\ u.based \in Rev /\ u.rev = u.based[u.side] + 1
    /\ u.ink \in SUBSET Strokes
    /\ u.side = "boox" => u.source.ink = u.ink

(* A view shows uploaded ink, at a frontier the broker has reached. *)
ViewOK(v) ==
    /\ v.gen \in 1 .. generation /\ v.gen \notin {m.gen : m \in manifests}
    /\ v.rev \in Rev /\ Dominates(canon.rev, v.rev)
    /\ v.ink \subseteq Sent

ManifestOK(m) ==
    /\ m.gen \in 1 .. generation
    /\ m.rev \in Rev /\ Dominates(canon.rev, m.rev)
    /\ m.adds \in SUBSET Strokes

BrokerOK ==
    /\ canon.rev \in Rev /\ canon.ink \subseteq Sent /\ generation \in Nat
    /\ \A u \in uploads : UploadOK(u)
    /\ view = None \/ ViewOK(view)
    /\ \A m \in manifests : ManifestOK(m)
    /\ \A m, n \in manifests : m.gen = n.gen => m = n

(* The PDF is a local save, or every stroke of it has left the device. *)
DevicesOK ==
    /\ used \in [boox : Nat, supernote : Nat, exports : Nat, crashes : Nat, drops : Nat]
    /\ pdf.ink \in SUBSET Strokes /\ (pdf \in Locals \/ pdf.ink \subseteq Sent)
    /\ ink \in SUBSET Strokes
    /\ DOMAIN exports = Pages
    /\ \A p \in Pages : exports[p] # None => exports[p].ink \in SUBSET Strokes

(* What a journal takes for delivered or uploaded has been uploaded. *)
JournalOK(j) ==
    /\ DOMAIN j = {"rev", "pending", "delivered", "generations", "uploadedPdf", "uploadedExport",
                   "accepted", "conflict"}
    /\ j.rev \in Rev /\ Dominates(canon.rev, j.rev)
    /\ j.generations \subseteq 1 .. generation
    /\ j.pending \in [Sides -> {None} \cup uploads]
    /\ \A d \in Sides : j.pending[d] # None => j.pending[d].rev > j.rev[d]
    /\ j.delivered = None \/ j.delivered.ink \subseteq Sent
    /\ j.uploadedPdf = None \/ j.uploadedPdf.ink \subseteq Sent

(* The candidates of a poll: manifests and, once listed, one view. *)
TodoOK ==
    /\ \A c \in todo : c = [side |-> c.side, object |-> c.object]
    /\ \A c \in todo : \/ c.side = "supernote" /\ c.object \in manifests
                       \/ c.side = "boox" /\ ViewOK(c.object) /\ pc # "list"
    /\ \A c, d \in todo : c.side = "boox" /\ d.side = "boox" => c = d

IInv == TypeOK /\ BrokerOK /\ DevicesOK /\ JournalOK(saved) /\ JournalOK(work) /\ TodoOK
-----------------------------------------------------------------------------
(* A set of naturals has a least element. *)
LEMMA Least == ASSUME NEW S, S \subseteq Nat, S # {} PROVE \E x \in S : \A y \in S : x <= y
<1> DEFINE R == OpToRel(<, Nat)
<1>1. IsWellFoundedOn(R, Nat)
  BY NatLessThanWellFounded
<1>2. \A x, y \in Nat : <<y, x>> \in R <=> y < x
  BY DEF OpToRel
<1> HIDE DEF R
<1>3. PICK x \in S : \A y \in S : ~ (<<y, x>> \in R)
  BY <1>1, WFMin
<1>4. ASSUME NEW y \in S PROVE x <= y
  <2>1. x \in Nat /\ y \in Nat
    OBVIOUS
  <2>2. ~ (y < x)
    BY <1>2, <1>3, <2>1
  <2> QED
    BY <2>1, <2>2
<1> QED
  BY <1>4

(* An element with the least value of a function. *)
LEMMA LeastValue ==
  ASSUME NEW S, S # {}, NEW f, \A y \in S : f[y] \in Nat
  PROVE  \E x \in S : \A y \in S : f[x] <= f[y]
<1> DEFINE V == {f[y] : y \in S}
<1>1. V \subseteq Nat /\ V # {}
  <2>1. PICK y \in S : TRUE
    OBVIOUS
  <2>2. f[y] \in V
    BY <2>1
  <2> QED
    BY <2>2
<1>2. PICK v \in V : \A w \in V : v <= w
  <2> HIDE DEF V
  <2> QED
    BY <1>1, Least
<1>3. PICK x \in S : v = f[x]
  OBVIOUS
<1> QED
  BY <1>2, <1>3

(* The least element of a set by three numbers, one after the other. *)
IsFirst(x, S, f, g, h) ==
    /\ x \in S
    /\ \A y \in S :
          \/ f[x] < f[y]
          \/ f[x] = f[y] /\ g[x] < g[y]
          \/ f[x] = f[y] /\ g[x] = g[y] /\ h[x] <= h[y]

(* It exists. *)
LEMMA LexLeast ==
  ASSUME NEW S, S # {}, NEW f, NEW g, NEW h,
         \A y \in S : f[y] \in Nat /\ g[y] \in Nat /\ h[y] \in Nat
  PROVE  \E x : IsFirst(x, S, f, g, h)
<1>1. PICK a \in S : \A y \in S : f[a] <= f[y]
  BY LeastValue
<1> DEFINE T == {y \in S : f[y] = f[a]}
<1>2. PICK b \in T : \A y \in T : g[b] <= g[y]
  <2>1. T # {} /\ \A y \in T : g[y] \in Nat
    OBVIOUS
  <2> QED
    BY <2>1, LeastValue
<1> DEFINE U == {y \in T : g[y] = g[b]}
<1>3. PICK c \in U : \A y \in U : h[c] <= h[y]
  <2>1. U # {} /\ \A y \in U : h[y] \in Nat
    OBVIOUS
  <2> QED
    BY <2>1, LeastValue
<1>4. c \in S /\ f[c] = f[a] /\ g[c] = g[b]
  OBVIOUS
<1>5. ASSUME NEW y \in S
      PROVE  \/ f[c] < f[y]
             \/ f[c] = f[y] /\ g[c] < g[y]
             \/ f[c] = f[y] /\ g[c] = g[y] /\ h[c] <= h[y]
  <2>1. CASE y \notin T
    BY <1>1, <1>4, <2>1
  <2>2. CASE y \in T /\ y \notin U
    BY <1>2, <1>4, <2>2
  <2>3. CASE y \in U
    BY <1>3, <1>4, <2>3
  <2> QED
    BY <2>1, <2>2, <2>3
<1>6. IsFirst(c, S, f, g, h)
  BY <1>4, <1>5 DEF IsFirst
<1> QED
  BY <1>6

(* Candidates have names of their own, so there is a first one. *)
LEMMA NextCandidateListed == ASSUME IInv, todo # {} PROVE NextCandidate \in todo
<1> DEFINE sum(c) == c.object.rev.boox + c.object.rev.supernote
           f == [c \in todo |-> sum(c)]
           g == [c \in todo |-> c.object.rev.boox]
           h == [c \in todo |-> c.object.gen]
<1>1. \A c \in todo : c.object.rev \in Rev /\ c.object.gen \in Nat
  BY DEF IInv, TodoOK, BrokerOK, ManifestOK, ViewOK
<1>2. \A c \in todo : f[c] \in Nat /\ g[c] \in Nat /\ h[c] \in Nat
  BY <1>1 DEF Rev
<1>3. PICK c : IsFirst(c, todo, f, g, h)
  <2> HIDE DEF f, g, h
  <2> QED
    BY <1>2, LexLeast
<1>4. c \in todo
  BY <1>3 DEF IsFirst
<1>5. ASSUME NEW d \in todo \ {c} PROVE Earlier(c.object, d.object)
  <2>1. c.object.gen # d.object.gen
    BY <1>4 DEF IInv, TodoOK, BrokerOK, ManifestOK, ViewOK
  <2>2. c.object.rev \in Rev /\ d.object.rev \in Rev /\ c.object.gen \in Nat /\ d.object.gen \in Nat
    BY <1>1, <1>4
  <2>3. \/ sum(c) < sum(d)
        \/ sum(c) = sum(d) /\ c.object.rev.boox < d.object.rev.boox
        \/ sum(c) = sum(d) /\ c.object.rev.boox = d.object.rev.boox /\ c.object.gen <= d.object.gen
    BY <1>3, <1>4 DEF IsFirst
  <2>4. sum(c) = sum(d) /\ c.object.rev.boox = d.object.rev.boox => c.object.rev = d.object.rev
    <3>1. \A r, q \in Rev : r.boox + r.supernote = q.boox + q.supernote /\ r.boox = q.boox => r = q
      <4>1. \A i, j, k \in Nat : i + j = i + k => j = k
        OBVIOUS
      <4> QED
        BY <4>1 DEF Rev
    <3> QED
      BY <2>2, <3>1
  <2> QED
    BY <2>1, <2>2, <2>3, <2>4 DEF Earlier
<1> QED
  BY <1>4, <1>5 DEF NextCandidate

(* There is an oldest delivery that waits. *)
LEMMA OldestWaits ==
  ASSUME IInv, Unacked # {}
  PROVE  \E m \in Unacked : \A n \in Unacked :
             ~Before(n.rev, m.rev) /\ (n.rev = m.rev => n.gen >= m.gen)
<1> DEFINE f == [m \in Unacked |-> m.rev.boox]
           g == [m \in Unacked |-> m.rev.supernote]
           h == [m \in Unacked |-> m.gen]
<1>1. \A m \in Unacked : m.rev \in Rev /\ m.gen \in Nat
  BY DEF IInv, BrokerOK, ManifestOK, Unacked
<1>2. \A m \in Unacked : f[m] \in Nat /\ g[m] \in Nat /\ h[m] \in Nat
  BY <1>1 DEF Rev
<1>3. PICK m : IsFirst(m, Unacked, f, g, h)
  <2> HIDE DEF f, g, h
  <2> QED
    BY <1>2, LexLeast
<1>4. ASSUME NEW n \in Unacked PROVE ~Before(n.rev, m.rev) /\ (n.rev = m.rev => n.gen >= m.gen)
  BY <1>1, <1>3 DEF IsFirst, Before, Rev
<1> QED
  BY <1>3, <1>4 DEF IsFirst
-----------------------------------------------------------------------------
(* The broker's revisions only grow. *)
LEMMA Raised ==
  ASSUME NEW r \in Rev, NEW d \in Sides, NEW n \in Nat, n >= r[d]
  PROVE  [r EXCEPT ![d] = n] \in Rev /\ Dominates([r EXCEPT ![d] = n], r)
  BY DEF Rev, Sides, Dominates

(* A frontier that covers another covers what that one covers. *)
LEMMA DominatesFurther ==
  ASSUME NEW a \in Rev, NEW b \in Rev, NEW c \in Rev, Dominates(a, b), Dominates(b, c)
  PROVE  Dominates(a, c)
  BY DEF Rev, Dominates

(* Empty folders and an empty journal. *)
LEMMA InitIInv == ASSUME TransportAssumption, Init PROVE IInv
<1> USE DEF Init
<1>1. TypeOK
  BY DEF TypeOK, EmptyJournal, Zero, Sides
<1>2. BrokerOK
  BY DEF BrokerOK, Zero, Rev
<1>3. DevicesOK
  BY DEF DevicesOK, Original
<1>4. JournalOK(saved) /\ JournalOK(work)
  BY DEF JournalOK, EmptyJournal, Zero, Rev, Sides, Dominates
<1>5. TodoOK
  BY DEF TodoOK
<1> QED
  BY <1>1, <1>2, <1>3, <1>4, <1>5 DEF IInv

(* While the broker works and uploads arrive, a journal stays one. *)
LEMMA JournalStays ==
  ASSUME BrokerOK, canon'.rev \in Rev, Dominates(canon'.rev, canon.rev), generation' \in Nat,
         generation' >= generation, uploads \subseteq uploads', NEW j, JournalOK(j)
  PROVE  JournalOK(j)'
<1>1. Dominates(canon'.rev, j.rev)
  BY DominatesFurther DEF BrokerOK, JournalOK
<1>2. j.generations \subseteq 1 .. generation'
  BY DEF BrokerOK, JournalOK
<1>3. j.pending \in [Sides -> {None} \cup uploads']
  BY DEF JournalOK
<1>4. Sent \subseteq Sent'
  BY DEF Sent
<1> QED
  BY <1>1, <1>2, <1>3, <1>4 DEF JournalOK

(* A broker step adds outputs under new names and leaves the devices, the
   folders and the journals alone. *)
LEMMA BrokerStep ==
  ASSUME IInv, BrokerOK', Dominates(canon'.rev, canon.rev), generation' >= generation,
         DOMAIN canon' = {"rev", "ink"},
         processed' \cup conflicts' \cup resolved' \subseteq uploads,
         manifests \subseteq manifests', \A m \in manifests' \ manifests : m.gen > generation,
         UNCHANGED <<uploads, deviceVars, inboxVars, pollVars, used>>
  PROVE  IInv'
<1> USE DEF deviceVars, inboxVars, pollVars
<1>1. TypeOK'
  BY DEF IInv, TypeOK, BrokerOK
<1>2. DevicesOK'
  BY DEF IInv, DevicesOK, Sent
<1>3. JournalOK(saved)' /\ JournalOK(work)'
  <2>1. \A j : JournalOK(j) => JournalOK(j)'
    BY JournalStays DEF IInv, BrokerOK
  <2> QED
    BY <2>1 DEF IInv, JournalOK, Sent
<1>4. TodoOK'
  <2>1. ASSUME NEW v, ViewOK(v) PROVE ViewOK(v)'
    <3>1. Dominates(canon'.rev, v.rev)
      BY <2>1, DominatesFurther DEF IInv, BrokerOK, ViewOK
    <3>2. v.gen \notin {m.gen : m \in manifests'}
      BY <2>1 DEF IInv, BrokerOK, ViewOK
    <3> QED
      BY <2>1, <3>1, <3>2 DEF IInv, BrokerOK, ViewOK, Sent
  <2> QED
    BY <2>1 DEF IInv, TodoOK
<1> QED
  BY <1>1, <1>2, <1>3, <1>4 DEF IInv

(* What was a view or a manifest stays one when the broker adds outputs. *)
LEMMA OutputsStay ==
  ASSUME BrokerOK, uploads' = uploads, canon'.rev \in Rev, Dominates(canon'.rev, canon.rev),
         generation' \in Nat, generation' >= generation
  PROVE  /\ \A m \in manifests : ManifestOK(m)'
         /\ view = None \/ (view.gen \in 1 .. generation' /\ view.rev \in Rev
                           /\ Dominates(canon'.rev, view.rev) /\ view.ink \subseteq Sent')
  BY DominatesFurther DEF BrokerOK, ManifestOK, ViewOK, Sent

(* The broker takes an upload in: an output is a new view or manifest, or none. *)
LEMMA ProcessIInv ==
  ASSUME TransportAssumption, IInv, NEW u \in uploads, Process(u) PROVE IInv'
<1> DEFINE rev == [canon.rev EXCEPT ![u.side] = u.rev]
<1>1. UploadOK(u) /\ u.ink \subseteq Sent /\ canon.rev \in Rev /\ canon.ink \subseteq Sent /\ generation \in Nat
  BY DEF IInv, BrokerOK, Sent
<1>2. CASE u.based # canon.rev
  BY <1>2, BrokerStep DEF Process, IInv, TypeOK, BrokerOK, UploadOK, ViewOK, ManifestOK, Sent, Dominates, Rev
<1>3. CASE u.based = canon.rev
  <2>1. rev \in Rev /\ Dominates(rev, canon.rev)
    BY <1>1, <1>3, Raised DEF UploadOK, Rev, Sides
  <2>2. NewInk(u) \subseteq Sent
    BY <1>1 DEF NewInk
  <2>3. /\ canon' = [rev |-> rev, ink |-> NewInk(u)] /\ generation' = generation + 1
        /\ UNCHANGED <<uploads, deviceVars, inboxVars, pollVars, used, conflicts, resolved>>
        /\ processed' = processed \cup {u}
    BY <1>3 DEF Process
  <2>4. canon'.rev \in Rev /\ canon'.ink \subseteq Sent' /\ generation' \in Nat
    BY <1>1, <2>1, <2>2, <2>3 DEF Sent
  <2>5. /\ \A m \in manifests : ManifestOK(m)'
        /\ view = None \/ (view.gen \in 1 .. generation' /\ view.rev \in Rev
                          /\ Dominates(canon'.rev, view.rev) /\ view.ink \subseteq Sent')
    BY <1>1, <2>1, <2>3, <2>4, OutputsStay DEF IInv
  <2>6. CASE u.side = "boox"
    <3> DEFINE new == Manifest(rev, canon.ink, NewInk(u), generation')
    <3>1. manifests' = manifests \cup {new} /\ UNCHANGED view
      BY <1>3, <2>6 DEF Process
    <3>2. new.gen = generation + 1 /\ new.rev = rev /\ new.adds \in SUBSET Strokes
      BY <1>1, <2>3, <2>6 DEF Manifest, NewInk, UploadOK
    <3>3. \A m \in manifests' : ManifestOK(m)'
      <4>1. new.gen \in 1 .. generation' /\ new.rev \in Rev /\ Dominates(canon'.rev, new.rev)
        BY <1>1, <2>1, <2>3, <3>2 DEF Dominates, Rev
      <4> HIDE DEF new
      <4> QED
        BY <2>5, <3>1, <3>2, <4>1 DEF ManifestOK
    <3>4. \A m \in manifests : m.gen <= generation
      BY DEF IInv, BrokerOK, ManifestOK
    <3>5. BrokerOK'
      BY <1>1, <2>3, <2>4, <2>5, <3>1, <3>2, <3>3, <3>4 DEF IInv, BrokerOK, ViewOK
    <3> QED
      BY <1>1, <2>1, <2>3, <3>1, <3>2, <3>5, BrokerStep DEF IInv, TypeOK
  <2>7. CASE u.side # "boox"
    <3>1. view' = [gen |-> generation', rev |-> rev, ink |-> NewInk(u)] /\ UNCHANGED manifests
      BY <1>3, <2>7 DEF Process
    <3>2. \A m \in manifests : m.gen <= generation
      BY DEF IInv, BrokerOK, ManifestOK
    <3>3. ViewOK(view)'
      BY <1>1, <2>1, <2>3, <2>4, <3>1, <3>2 DEF ViewOK, Dominates, Rev
    <3>4. BrokerOK'
      BY <1>1, <2>3, <2>4, <2>5, <3>1, <3>3 DEF IInv, BrokerOK
    <3> QED
      BY <1>1, <2>1, <2>3, <3>1, <3>4, BrokerStep DEF IInv, TypeOK
  <2> QED
    BY <2>6, <2>7
<1> QED
  BY <1>2, <1>3

(* The operator decides a conflict, and the broker publishes what was decided. *)
LEMMA ResolveIInv ==
  ASSUME TransportAssumption, IInv, NEW u \in uploads, Resolve(u) PROVE IInv'
<1>1. UploadOK(u) /\ u.ink \subseteq Sent /\ canon.rev \in Rev /\ canon.ink \subseteq Sent /\ generation \in Nat
  BY DEF IInv, BrokerOK, Sent
<1>2. /\ processed' \cup conflicts' \cup resolved' \subseteq uploads
      /\ UNCHANGED <<uploads, deviceVars, inboxVars, pollVars, used>>
  BY DEF Resolve, IInv, TypeOK
<1>3. CASE UNCHANGED <<canon, view, manifests, generation>>
  <2>1. BrokerOK'
    BY <1>2, <1>3 DEF IInv, BrokerOK, ViewOK, ManifestOK, Sent
  <2> QED
    BY <1>1, <1>2, <1>3, <2>1, BrokerStep DEF IInv, TypeOK, Dominates, Rev
<1>4. CASE u.rev >= canon.rev[u.side] /\ ~UNCHANGED <<canon, view, manifests, generation>>
  <2> DEFINE rev == [canon.rev EXCEPT ![u.side] = u.rev]
  <2> DEFINE from == IF u.side = "boox" THEN canon.ink
                     ELSE {s \in canon.ink : s[1] # u.page} \cup u.ink
  <2>1. PICK result \in {canon.ink, canon.ink \cup u.ink} :
            /\ canon' = [rev |-> rev, ink |-> result]
            /\ view' = [gen |-> generation + 1, rev |-> rev, ink |-> result]
            /\ \/ generation' = generation + 1 /\ UNCHANGED manifests
               \/ /\ generation' = generation + 2
                  /\ manifests' = manifests \cup {Manifest(rev, from, result, generation')}
    BY <1>4 DEF Resolve
  <2>2. rev \in Rev /\ Dominates(rev, canon.rev)
    BY <1>1, <1>4, Raised DEF UploadOK, Rev, Sides
  <2> HIDE DEF rev
  <2>3. canon'.rev \in Rev /\ canon'.ink \subseteq Sent' /\ generation' \in Nat /\ generation' > generation
    BY <1>1, <1>2, <2>1, <2>2 DEF Sent
  <2>4. canon'.rev = rev
    BY <2>1
  <2>5. \A m \in manifests : ManifestOK(m)' /\ m.gen <= generation
    BY <1>1, <1>2, <2>2, <2>3, <2>4, OutputsStay DEF IInv, BrokerOK, ManifestOK
  <2>6. canon'.ink \in SUBSET Strokes
    <3>1. Sent \subseteq Strokes
      BY DEF IInv, BrokerOK, UploadOK, Sent
    <3> QED
      BY <1>1, <2>1, <3>1
  <2> DEFINE new == Manifest(rev, from, canon'.ink, generation')
  <2>7. /\ new.gen = generation' /\ new.rev = rev /\ new.adds \in SUBSET Strokes
    BY <2>6 DEF Manifest
  <2>8. \/ manifests' = manifests
        \/ generation' = generation + 2 /\ manifests' = manifests \cup {new}
    BY <2>1
  <2> HIDE DEF new
  <2>9. BrokerOK'
    <3>1. \A m \in manifests' : ManifestOK(m)'
      <4>1. new.gen \in 1 .. generation' /\ Dominates(canon'.rev, new.rev)
        BY <1>1, <2>2, <2>3, <2>4, <2>7 DEF Dominates, Rev
      <4> QED
        BY <2>2, <2>5, <2>7, <2>8, <4>1 DEF ManifestOK
    <3>2. ViewOK(view)'
      <4>1. view'.gen = generation + 1 /\ view'.rev = rev /\ view'.ink = canon'.ink
        BY <2>1
      <4>2. view'.gen \notin {m.gen : m \in manifests'}
        BY <1>1, <2>5, <2>7, <2>8, <4>1 DEF IInv, BrokerOK, ManifestOK
      <4> QED
        BY <1>1, <2>2, <2>3, <2>4, <4>1, <4>2 DEF ViewOK, Dominates, Rev
    <3>3. \A m, n \in manifests' : m.gen = n.gen => m = n
      BY <1>1, <2>5, <2>7, <2>8 DEF IInv, BrokerOK, ManifestOK
    <3>4. \A v \in uploads' : UploadOK(v)'
      BY <1>2 DEF IInv, BrokerOK, UploadOK
    <3> QED
      BY <2>3, <3>1, <3>2, <3>3, <3>4 DEF BrokerOK
  <2>10. manifests \subseteq manifests' /\ \A m \in manifests' \ manifests : m.gen > generation
    BY <1>1, <2>7, <2>8
  <2> QED
    BY <1>1, <1>2, <2>1, <2>2, <2>3, <2>4, <2>9, <2>10, BrokerStep DEF IInv, TypeOK
<1> QED
  BY <1>3, <1>4 DEF Resolve

(* A step that leaves the broker and its objects alone keeps what is said of them. *)
LEMMA BrokerStays == ASSUME BrokerOK, UNCHANGED <<brokerVars, uploads>> PROVE BrokerOK'
  BY DEF BrokerOK, UploadOK, ViewOK, ManifestOK, Sent, brokerVars

(* And it keeps the journals and the candidates if it leaves the poll alone. *)
LEMMA PollStays ==
  ASSUME IInv, UNCHANGED <<brokerVars, uploads, pollVars>>
  PROVE  JournalOK(saved)' /\ JournalOK(work)' /\ TodoOK'
  BY DEF IInv, JournalOK, TodoOK, ViewOK, Sent, brokerVars, pollVars

(* NeoReader saves the PDF. *)
LEMMA BooxEditIInv == ASSUME TransportAssumption, IInv, NEW p \in Pages, BooxEdit(p) PROVE IInv'
<1>1. pdf'.kind = "local" /\ pdf' \in Locals
  <2>1. <<p, 10 + used.boox>> \in Strokes
    BY DEF IInv, DevicesOK, Strokes
  <2> QED
    BY <2>1 DEF BooxEdit, IInv, DevicesOK, Locals
<1>2. DevicesOK'
  BY <1>1 DEF BooxEdit, Count, IInv, DevicesOK, Locals
<1>3. BrokerOK' /\ JournalOK(saved)' /\ JournalOK(work)' /\ TodoOK'
  BY BrokerStays, PollStays DEF BooxEdit, IInv
<1>4. TypeOK'
  BY DEF BooxEdit, IInv, TypeOK, brokerVars, inboxVars, pollVars
<1> QED
  BY <1>2, <1>3, <1>4 DEF IInv

(* A stroke is drawn in the note. *)
LEMMA SupernoteEditIInv ==
  ASSUME TransportAssumption, IInv, NEW p \in Pages, SupernoteEdit(p) PROVE IInv'
<1>1. DevicesOK'
  <2>1. <<p, 20 + used.supernote>> \in Strokes
    BY DEF IInv, DevicesOK, Strokes
  <2> QED
    BY <2>1 DEF SupernoteEdit, Count, IInv, DevicesOK, Sent
<1>2. BrokerOK' /\ JournalOK(saved)' /\ JournalOK(work)' /\ TodoOK'
  BY BrokerStays, PollStays DEF SupernoteEdit, IInv
<1>3. TypeOK'
  BY DEF SupernoteEdit, IInv, TypeOK, brokerVars, inboxVars, pollVars
<1> QED
  BY <1>1, <1>2, <1>3 DEF IInv

(* The plugin publishes the export of a page. *)
LEMMA ExportIInv == ASSUME TransportAssumption, IInv, NEW p \in Pages, Export(p) PROVE IInv'
<1>1. DevicesOK'
  <2>1. OnPage(ink, p) \in SUBSET Strokes
    BY DEF IInv, DevicesOK, OnPage
  <2> DEFINE e == [page |-> p, based |-> Applied, ink |-> OnPage(ink, p)]
  <2>2. exports' = [exports EXCEPT ![p] = e] /\ e.ink \in SUBSET Strokes
    BY <2>1 DEF Export
  <2> HIDE DEF e
  <2> QED
    BY <2>2 DEF Export, Count, IInv, DevicesOK, Sent
<1>2. BrokerOK' /\ JournalOK(saved)' /\ JournalOK(work)' /\ TodoOK'
  BY BrokerStays, PollStays DEF Export, IInv
<1>3. TypeOK'
  BY DEF Export, IInv, TypeOK, brokerVars, inboxVars, pollVars
<1> QED
  BY <1>1, <1>2, <1>3 DEF IInv

(* The plugin applies a manifest and acknowledges it. *)
LEMMA ApplyManifestIInv == ASSUME TransportAssumption, IInv, ApplyManifest PROVE IInv'
<1> DEFINE next == CHOOSE m \in Unacked : \A n \in Unacked :
                       ~Before(n.rev, m.rev) /\ (n.rev = m.rev => n.gen >= m.gen)
<1>1. next \in Unacked
  BY OldestWaits DEF ApplyManifest
<1>2. next \in manifests /\ next.adds \in SUBSET Strokes
  BY <1>1 DEF Unacked, IInv, BrokerOK, ManifestOK
<1>3. ink' = (ink \ next.dels) \cup next.adds /\ acked' = acked \cup {next.gen}
  BY DEF ApplyManifest
<1> HIDE DEF next
<1>4. DevicesOK'
  BY <1>2, <1>3 DEF ApplyManifest, IInv, DevicesOK, Sent
<1>5. BrokerOK' /\ JournalOK(saved)' /\ JournalOK(work)' /\ TodoOK'
  BY BrokerStays, PollStays DEF ApplyManifest, IInv
<1>6. TypeOK'
  BY <1>2, <1>3 DEF ApplyManifest, IInv, TypeOK, brokerVars, pollVars
<1> QED
  BY <1>4, <1>5, <1>6 DEF IInv

(* The mirror loses a manifest. *)
LEMMA DropIncomingIInv == ASSUME TransportAssumption, IInv, DropIncoming PROVE IInv'
<1>1. DevicesOK'
  BY DEF DropIncoming, Count, IInv, DevicesOK, deviceVars, Sent
<1>2. BrokerOK' /\ JournalOK(saved)' /\ JournalOK(work)' /\ TodoOK'
  BY BrokerStays, PollStays DEF DropIncoming, IInv
<1>3. TypeOK'
  BY DEF DropIncoming, IInv, TypeOK, brokerVars, pollVars
<1> QED
  BY <1>1, <1>2, <1>3 DEF IInv

(* A restart continues with the saved journal. *)
LEMMA CrashIInv == ASSUME TransportAssumption, IInv, Crash PROVE IInv'
<1>1. DevicesOK'
  BY DEF Crash, Count, IInv, DevicesOK, deviceVars, Sent
<1>2. BrokerOK'
  BY BrokerStays DEF Crash, IInv
<1>3. JournalOK(saved)' /\ JournalOK(work)' /\ TodoOK'
  BY DEF Crash, IInv, JournalOK, TodoOK, Sent, brokerVars
<1>4. TypeOK'
  BY DEF Crash, IInv, TypeOK, brokerVars, inboxVars
<1> QED
  BY <1>1, <1>2, <1>3, <1>4 DEF IInv
-----------------------------------------------------------------------------
(* A poll moves the journal it works on; the broker's objects stay. *)
LEMMA PollKeeps ==
  ASSUME IInv, UNCHANGED <<brokerVars, uploads, saved>>, JournalOK(work)', DevicesOK', TodoOK',
         UNCHANGED acked, incoming' \subseteq {m.gen : m \in manifests},
         pc' \in {"idle", "list", "deliver", "boox", "supernote", "save", "status"}
  PROVE  IInv'
<1>1. BrokerOK' /\ JournalOK(saved)'
  BY BrokerStays DEF IInv, JournalOK, Sent, brokerVars
<1>2. work'.generations \subseteq 1 .. generation' /\ work'.pending \in [Sides -> {None} \cup uploads']
  BY DEF JournalOK
<1>3. TypeOK'
  BY <1>2 DEF IInv, TypeOK, Sides, brokerVars
<1> QED
  BY <1>1, <1>3 DEF IInv

(* A manifest marked as delivered is one the broker published. *)
LEMMA MarkedOK ==
  ASSUME NEW j, JournalOK(j), NEW gen \in 1 .. generation PROVE JournalOK(Marked(j, gen))
  BY DEF JournalOK, Marked

(* The frontier of a delivery is taken over: it is one the broker has reached. *)
LEMMA RecordedOK ==
  ASSUME BrokerOK, NEW j, JournalOK(j), NEW rev \in Rev, Dominates(canon.rev, rev)
  PROVE  JournalOK(Recorded(j, rev))
<1> DEFINE k == Recorded(j, rev)
<1>1. /\ DOMAIN k = DOMAIN j /\ k.rev = rev
      /\ k.pending = [d \in Sides |-> IF j.pending[d] # None /\ j.pending[d].rev <= rev[d]
                                     THEN None ELSE j.pending[d]]
      /\ k.generations = j.generations /\ k.delivered = j.delivered /\ k.uploadedPdf = j.uploadedPdf
  BY DEF JournalOK, Recorded
<1> HIDE DEF k
<1>2. k.pending \in [Sides -> {None} \cup uploads]
  BY <1>1 DEF JournalOK
<1>3. \A d \in Sides : k.pending[d] # None => k.pending[d].rev > k.rev[d]
  <2>1. \A u \in uploads : u.rev \in Nat
    BY DEF BrokerOK, UploadOK, Rev, Sides
  <2>2. \A d \in Sides : rev[d] \in Nat
    BY DEF Rev, Sides
  <2> QED
    BY <1>1, <2>1, <2>2 DEF JournalOK
<1>4. JournalOK(k)
  BY <1>1, <1>2, <1>3 DEF JournalOK
<1> QED
  BY <1>4 DEF k

(* The PDF may be covered only when all its strokes have left the device. *)
LEMMA MayBeCovered ==
  ASSUME TransportAssumption, IInv, ~UnpublishedEdit(work) PROVE pdf.ink \subseteq Sent
<1>1. pdf \in {Original, work.delivered, work.uploadedPdf}
  BY DEF UnpublishedEdit
<1>2. None \notin Locals
  BY DEF TransportAssumption, Locals, Strokes
<1>3. CASE pdf = Original
  BY <1>3 DEF Original
<1>4. CASE pdf \in {work.delivered, work.uploadedPdf}
  BY <1>2, <1>4 DEF IInv, DevicesOK, JournalOK
<1> QED
  BY <1>1, <1>3, <1>4

(* A poll lists the manifests and works on a copy of the saved journal. *)
LEMMA BeginPollIInv == ASSUME TransportAssumption, IInv, BeginPoll PROVE IInv'
<1>1. JournalOK(work)'
  BY DEF BeginPoll, others, IInv, JournalOK, Sent, brokerVars
<1>2. DevicesOK'
  BY DEF BeginPoll, others, deviceVars, IInv, DevicesOK, Sent
<1>3. TodoOK'
  <2>1. CASE pc' = "save" /\ UNCHANGED todo
    BY <2>1 DEF BeginPoll, others, brokerVars, IInv, TodoOK, ViewOK, Sent
  <2>2. CASE todo' = [side : {"supernote"}, object : manifests]
    BY <2>2 DEF BeginPoll, others, brokerVars, TodoOK
  <2> QED
    BY <2>1, <2>2 DEF BeginPoll
<1> QED
  BY <1>1, <1>2, <1>3, PollKeeps DEF BeginPoll, others, inboxVars, IInv, TypeOK

(* It lists the view. *)
LEMMA ListViewsIInv == ASSUME TransportAssumption, IInv, ListViews PROVE IInv'
<1>1. JournalOK(work)'
  BY DEF ListViews, others, IInv, JournalOK, Sent, brokerVars
<1>2. DevicesOK'
  BY DEF ListViews, others, deviceVars, IInv, DevicesOK, Sent
<1>3. TodoOK'
  BY DEF ListViews, others, brokerVars, IInv, BrokerOK, TodoOK, ViewOK, Sent
<1> QED
  BY <1>1, <1>2, <1>3, PollKeeps DEF ListViews, others, inboxVars, IInv, TypeOK

(* It handles one candidate: delivers, defers or skips it. *)
LEMMA DeliverIInv == ASSUME TransportAssumption, IInv, Deliver PROVE IInv'
<1> DEFINE c == NextCandidate
<1>1. c \in todo
  BY NextCandidateListed DEF Deliver
<1> HIDE DEF c
<1>2. /\ c.object.gen \in 1 .. generation /\ c.object.rev \in Rev
      /\ Dominates(canon.rev, c.object.rev)
      /\ c.side = "supernote" => c.object \in manifests
      /\ c.side = "boox" => c.object.ink \subseteq Sent
  BY <1>1 DEF IInv, BrokerOK, ManifestOK, TodoOK, ViewOK
<1>3. TodoOK'
  BY DEF Deliver, Handled, brokerVars, IInv, TodoOK, ViewOK, Sent
<1>4. JournalOK(work)' /\ DevicesOK' /\ incoming' \subseteq {m.gen : m \in manifests}
  <2>1. CASE DeliverAgain
    BY <1>2, <2>1 DEF c, DeliverAgain, Deliver, brokerVars, IInv, TypeOK, JournalOK, DevicesOK, Sent
  <2>2. CASE SkipDominated
    <3>1. work' = Marked(work, c.object.gen) /\ UNCHANGED <<incoming, pdf>>
      BY <2>2 DEF c, SkipDominated
    <3>2. JournalOK(Marked(work, c.object.gen))
      BY <1>2, MarkedOK DEF IInv
    <3> QED
      BY <3>1, <3>2 DEF Deliver, brokerVars, IInv, TypeOK, JournalOK, DevicesOK, Sent
  <2>3. CASE DeliverManifest
    <3>1. /\ UNCHANGED pdf
          /\ \/ UNCHANGED <<incoming, work>>
             \/ /\ incoming' = incoming \cup {c.object.gen}
                /\ work' = Marked(Recorded(work, c.object.rev), c.object.gen)
      BY <2>3 DEF c, DeliverManifest
    <3>2. JournalOK(Marked(Recorded(work, c.object.rev), c.object.gen))
      BY <1>2, MarkedOK, RecordedOK DEF IInv
    <3>3. incoming' \subseteq {m.gen : m \in manifests}
      BY <1>2, <2>3, <3>1 DEF c, DeliverManifest, IInv, TypeOK
    <3> QED
      BY <3>1, <3>2, <3>3 DEF Deliver, brokerVars, IInv, JournalOK, DevicesOK, Sent
  <2>4. CASE DeliverView
    <3> DEFINE bytes == ViewPdf(c.object)
               k == Marked(Recorded(work, c.object.rev), c.object.gen)
    <3>1. \/ UNCHANGED <<pdf, work>>
          \/ pdf' = bytes /\ work' = [k EXCEPT !.delivered = bytes]
      BY <2>4 DEF c, DeliverView
    <3>2. JournalOK(k)
      BY <1>2, MarkedOK, RecordedOK DEF IInv
    <3>3. bytes.ink \subseteq Sent
      BY <1>2, <2>4 DEF c, DeliverView, ViewPdf
    <3>4. bytes.ink \in SUBSET Strokes
      BY <3>3 DEF IInv, BrokerOK, UploadOK, Sent
    <3> HIDE DEF bytes, k
    <3>5. JournalOK(work)'
      BY <3>1, <3>2, <3>3 DEF Deliver, brokerVars, IInv, JournalOK, Sent
    <3>6. DevicesOK'
      BY <3>1, <3>3, <3>4 DEF Deliver, IInv, DevicesOK, Sent
    <3>7. UNCHANGED incoming
      BY <2>4 DEF DeliverView
    <3> QED
      BY <3>5, <3>6, <3>7 DEF IInv, TypeOK
  <2> QED
    BY <2>1, <2>2, <2>3, <2>4 DEF Deliver
<1> QED
  BY <1>3, <1>4, PollKeeps DEF Deliver, Handled, IInv, TypeOK

(* Of uploads that the frontier covers one is the latest. *)
LEMMA LatestListed ==
  ASSUME IInv, NEW S \in SUBSET uploads, S # {}, NEW n \in Nat, \A u \in S : u.rev <= n
  PROVE  Latest(S) \in S
<1> DEFINE f == [u \in S |-> n - u.rev]
<1>1. \A u \in S : u.rev \in Nat
  BY DEF IInv, BrokerOK, UploadOK, Rev, Sides
<1>2. \A u \in S : f[u] \in Nat
  BY <1>1
<1>3. PICK u \in S : \A v \in S : f[u] <= f[v]
  <2> HIDE DEF f
  <2> QED
    BY <1>2, LeastValue
<1>4. \A v \in S : v.rev <= u.rev
  BY <1>1, <1>3
<1> QED
  BY <1>4 DEF Latest

(* It adopts the uploads that the frontier covers. *)
LEMMA RecoverIInv == ASSUME TransportAssumption, IInv, Recover PROVE IInv'
<1> DEFINE boox == AcceptedUploads("boox")
<1>1. ASSUME boox # {} PROVE Latest(boox).source.ink \subseteq Sent
  <2>1. work.rev.boox \in Nat /\ boox \in SUBSET uploads /\ \A u \in boox : u.rev <= work.rev.boox
    BY DEF AcceptedUploads, IInv, JournalOK, Rev
  <2>2. Latest(boox) \in boox
    BY <1>1, <2>1, LatestListed
  <2> HIDE DEF boox
  <2> QED
    <3>1. Latest(boox) \in uploads /\ Latest(boox).side = "boox"
      BY <2>2 DEF boox, AcceptedUploads
    <3> QED
      BY <3>1 DEF IInv, BrokerOK, UploadOK, Sent
<1>2. JournalOK(work)'
  <2>1. CASE work' = saved
    BY <2>1 DEF Recover, others, brokerVars, IInv, JournalOK, Sent
  <2>2. CASE work' # saved
    <3>1. /\ DOMAIN work' = DOMAIN work /\ work'.rev = work.rev /\ work'.pending = work.pending
          /\ work'.generations = work.generations /\ work'.delivered = work.delivered
          /\ work'.uploadedPdf = IF boox = {} THEN work.uploadedPdf ELSE Latest(boox).source
      BY <2>2 DEF Recover, Discard, IInv, JournalOK
    <3> HIDE DEF boox
    <3> QED
      BY <1>1, <3>1 DEF Recover, others, brokerVars, IInv, JournalOK, Sent
  <2> QED
    BY <2>1, <2>2
<1>3. DevicesOK'
  BY DEF Recover, others, deviceVars, IInv, DevicesOK, Sent
<1>4. TodoOK'
  BY DEF Recover, others, brokerVars, IInv, TodoOK, ViewOK, Sent
<1> QED
  BY <1>2, <1>3, <1>4, PollKeeps DEF Recover, Discard, others, inboxVars, IInv, TypeOK

(* A new upload is typed and ahead of the frontier. *)
LEMMA StoreIInv ==
  ASSUME TransportAssumption, IInv, NEW u, UploadOK(u), u.rev > work.rev[u.side], Store(u),
         pc # "list", UNCHANGED <<others, status, saved, todo>>
  PROVE  IInv'
<1> USE DEF others, brokerVars, inboxVars
<1>1. uploads' \in {uploads, uploads \cup {u}}
  BY DEF Store
<1>2. Sent \subseteq Sent'
  BY <1>1 DEF Sent
<1>3. BrokerOK'
  BY <1>1, <1>2 DEF IInv, BrokerOK, UploadOK, ViewOK, ManifestOK
<1>4. JournalOK(saved)'
  BY <1>1, <1>2 DEF IInv, JournalOK
<1>5. JournalOK(work)'
  <2>1. CASE work' = saved
    BY <1>4, <2>1 DEF JournalOK
  <2>2. CASE work' # saved
    <3>1. u.side \in Sides /\ work.pending \in [Sides -> {None} \cup uploads] /\ uploads' = uploads \cup {u}
      BY <2>2 DEF Store, Discard, UploadOK, IInv, JournalOK
    <3>2. /\ DOMAIN work' = DOMAIN work /\ work'.rev = work.rev
          /\ work'.pending = [work.pending EXCEPT ![u.side] = u]
          /\ work'.generations = work.generations /\ work'.delivered = work.delivered
          /\ work'.uploadedPdf \in {work.uploadedPdf, u.source}
          /\ u.side # "boox" => work'.uploadedPdf = work.uploadedPdf
      BY <2>2 DEF Store, Discard, IInv, JournalOK
    <3>3. work'.pending \in [Sides -> {None} \cup uploads']
      BY <3>1, <3>2
    <3>4. u.side = "boox" => u.source.ink \subseteq Sent'
      BY <3>1 DEF UploadOK, Sent
    <3> QED
      BY <1>2, <3>1, <3>2, <3>3, <3>4 DEF IInv, JournalOK
  <2> QED
    BY <2>1, <2>2
<1>6. DevicesOK'
  BY <1>2 DEF deviceVars, IInv, DevicesOK
<1>7. TodoOK'
  <2>1. pc' # "list"
    BY DEF Store, Discard
  <2> QED
    BY <1>2, <2>1 DEF IInv, TodoOK, ViewOK
<1>8. TypeOK'
  <2>1. pc' \in {"supernote", "save", "status"} /\ uploads \subseteq uploads'
    BY <1>1 DEF Store, Discard
  <2> QED
    BY <1>4, <1>5, <2>1 DEF IInv, TypeOK, JournalOK, Sides
<1> QED
  BY <1>3, <1>4, <1>5, <1>6, <1>7, <1>8 DEF IInv

(* It uploads the PDF. *)
LEMMA UploadBooxIInv == ASSUME TransportAssumption, IInv, UploadBoox PROVE IInv'
<1>1. CASE UNCHANGED <<work, uploads>>
  <2>1. JournalOK(work)' /\ DevicesOK' /\ TodoOK'
    BY <1>1 DEF UploadBoox, Store, Discard, others, brokerVars, deviceVars, IInv, JournalOK, DevicesOK,
       TodoOK, ViewOK, Sent
  <2> QED
    BY <1>1, <2>1, PollKeeps DEF UploadBoox, Store, Discard, others, inboxVars, IInv, TypeOK
<1>2. CASE ~UNCHANGED <<work, uploads>>
  <2> DEFINE u == [side |-> "boox", rev |-> work.rev.boox + 1, based |-> work.rev,
                   page |-> None, source |-> pdf, ink |-> pdf.ink]
  <2>1. UploadOK(u) /\ u.rev > work.rev[u.side]
    BY DEF UploadOK, IInv, JournalOK, DevicesOK, Rev, Sides
  <2>2. Store(u)
    BY <1>2 DEF UploadBoox
  <2> HIDE DEF u
  <2> QED
    BY <2>1, <2>2, StoreIInv DEF UploadBoox
<1> QED
  BY <1>1, <1>2

(* The export that is taken is one. *)
LEMMA NextExportListed ==
  ASSUME TransportAssumption, IInv, Waiting # {} PROVE NextExport.ink \in SUBSET Strokes
<1>1. Waiting \subseteq Nat
  BY DEF Waiting, TransportAssumption
<1>2. \E p \in Waiting : \A q \in Waiting : p <= q
  BY <1>1, Least
<1>3. PICK p \in Waiting : NextExport = exports[p]
  BY <1>2 DEF NextExport
<1> QED
  BY <1>3 DEF Waiting, IInv, DevicesOK

(* It uploads an export. *)
LEMMA UploadSupernoteIInv == ASSUME TransportAssumption, IInv, UploadSupernote PROVE IInv'
<1>1. CASE UNCHANGED <<work, uploads>>
  <2>1. JournalOK(work)' /\ DevicesOK' /\ TodoOK'
    BY <1>1 DEF UploadSupernote, Store, Discard, others, brokerVars, deviceVars, IInv, JournalOK, DevicesOK,
       TodoOK, ViewOK, Sent
  <2> QED
    BY <1>1, <2>1, PollKeeps DEF UploadSupernote, Store, Discard, others, inboxVars, IInv, TypeOK
<1>2. CASE ~UNCHANGED <<work, uploads>>
  <2> DEFINE u == [side |-> "supernote", rev |-> work.rev.supernote + 1, based |-> work.rev,
                   page |-> NextExport.page, source |-> NextExport, ink |-> NextExport.ink]
  <2>1. SupernoteReady /\ Store(u)
    BY <1>2 DEF UploadSupernote
  <2>2. UploadOK(u) /\ u.rev > work.rev[u.side]
    BY <2>1, NextExportListed DEF SupernoteReady, UploadOK, IInv, JournalOK, Rev, Sides
  <2> HIDE DEF u
  <2> QED
    BY <2>1, <2>2, StoreIInv DEF UploadSupernote
<1> QED
  BY <1>1, <1>2

(* The journal is saved. *)
LEMMA SaveIInv == ASSUME TransportAssumption, IInv, Save PROVE IInv'
<1> USE DEF Save, others, brokerVars, deviceVars, inboxVars
<1>1. BrokerOK' /\ DevicesOK' /\ TodoOK'
  BY BrokerStays DEF IInv, DevicesOK, TodoOK, ViewOK, Sent
<1>2. JournalOK(saved)' /\ JournalOK(work)' /\ TypeOK'
  BY DEF IInv, JournalOK, TypeOK, Sent
<1> QED
  BY <1>1, <1>2 DEF IInv

(* The status is published. *)
LEMMA PublishStatusIInv == ASSUME TransportAssumption, IInv, PublishStatus PROVE IInv'
<1>1. JournalOK(work)' /\ DevicesOK' /\ TodoOK'
  BY DEF PublishStatus, others, brokerVars, deviceVars, IInv, JournalOK, DevicesOK, TodoOK, ViewOK, Sent
<1> QED
  BY <1>1, PollKeeps DEF PublishStatus, others, inboxVars, IInv, TypeOK

(* Every step of the devices, the broker, the operator and the transport keeps it. *)
LEMMA NextIInv == ASSUME TransportAssumption, IInv, [Next]_vars PROVE IInv'
<1>1. ASSUME NEW p \in Pages, BooxEdit(p) \/ SupernoteEdit(p) \/ Export(p) PROVE IInv'
  BY <1>1, BooxEditIInv, SupernoteEditIInv, ExportIInv
<1>2. ASSUME NEW u \in uploads, Process(u) \/ Resolve(u) PROVE IInv'
  BY <1>2, ProcessIInv, ResolveIInv
<1>3. ASSUME Poll PROVE IInv'
  BY <1>3, BeginPollIInv, ListViewsIInv, DeliverIInv, RecoverIInv, UploadBooxIInv,
     UploadSupernoteIInv, SaveIInv, PublishStatusIInv
  DEF Poll
<1>4. ASSUME UNCHANGED vars PROVE IInv'
  <2>1. BrokerOK' /\ JournalOK(saved)' /\ JournalOK(work)' /\ TodoOK'
    BY <1>4, BrokerStays, PollStays DEF vars, IInv
  <2>2. DevicesOK' /\ TypeOK'
    BY <1>4 DEF vars, brokerVars, deviceVars, inboxVars, pollVars, IInv, DevicesOK, TypeOK, Sent
  <2> QED
    BY <2>1, <2>2 DEF IInv
<1> QED
  BY <1>1, <1>2, <1>3, <1>4, ApplyManifestIInv, DropIncomingIInv, CrashIInv DEF Next

(* IInv holds in every state, for any devices, pages, crashes and losses. *)
THEOREM Invariance == ASSUME TransportAssumption PROVE Spec => []IInv
  BY InitIInv, NextIInv, PTL DEF Spec

(* The journal, the folders and the broker's objects keep their types. *)
THEOREM TypeCorrect == ASSUME TransportAssumption PROVE Spec => []TypeOK
<1>1. IInv => TypeOK
  BY DEF IInv
<1> QED
  BY <1>1, Invariance, PTL

(* record_delivered_frontier: the saved journal never runs ahead of the broker,
   and what it calls pending has not been overtaken. *)
THEOREM BehindBroker == ASSUME TransportAssumption PROVE Spec => []JournalBehindBroker
<1>1. IInv => JournalBehindBroker
  BY DEF IInv, JournalOK, JournalBehindBroker
<1> QED
  BY <1>1, Invariance, PTL
-----------------------------------------------------------------------------
(* Only a save and a delivery change the PDF: a save adds to it, and a delivery
   covers what has left the device. *)
LEMMA StepInkSafe ==
  ASSUME TransportAssumption, IInv, [Next]_vars PROVE BooxInkSafeStep
<1>1. ASSUME NEW p \in Pages, BooxEdit(p) PROVE pdf.ink \subseteq pdf'.ink
  BY <1>1 DEF BooxEdit
<1>2. ASSUME Deliver PROVE pdf' = pdf \/ pdf.ink \subseteq Sent
  <2>1. CASE DeliverView
    <3>1. ASSUME pdf = ViewPdf(NextCandidate.object), pdf' = ViewPdf(NextCandidate.object) PROVE pdf' = pdf
      BY <3>1
    <3> QED
      BY <2>1, <3>1, MayBeCovered DEF DeliverView
  <2> QED
    BY <1>2, <2>1 DEF Deliver, DeliverAgain, SkipDominated, DeliverManifest
<1>3. ASSUME Poll, ~Deliver PROVE pdf' = pdf
  BY <1>3 DEF Poll, BeginPoll, ListViews, Recover, UploadBoox, UploadSupernote, Save, PublishStatus,
     others, deviceVars
<1>4. ASSUME NEW p \in Pages, SupernoteEdit(p) \/ Export(p) PROVE pdf' = pdf
  BY <1>4 DEF SupernoteEdit, Export
<1>5. ASSUME NEW u \in uploads, Process(u) \/ Resolve(u) PROVE pdf' = pdf
  BY <1>5 DEF Process, Resolve, deviceVars
<1>6. ASSUME ApplyManifest \/ DropIncoming \/ Crash \/ UNCHANGED vars PROVE pdf' = pdf
  BY <1>6 DEF ApplyManifest, DropIncoming, Crash, vars, deviceVars
<1>7. pdf.ink \subseteq pdf'.ink \/ pdf.ink \subseteq Sent
  BY <1>1, <1>2, <1>3, <1>4, <1>5, <1>6 DEF Next
<1> QED
  BY <1>7 DEF BooxInkSafeStep, Sent

(* boox_has_unpublished_local_edit: no delivery covers an edit that has not
   left the device. *)
THEOREM LocalEditsStay == ASSUME TransportAssumption PROVE Spec => BooxInkSafe
<1>1. ASSUME TransportAssumption, IInv, [Next]_vars PROVE [BooxInkSafeStep]_pdf
  BY <1>1, StepInkSafe
<1> QED
  BY <1>1, Invariance, PTL DEF Spec, BooxInkSafe

(* What the runs of the races check: the three theorems in one property. *)
THEOREM Sound == ASSUME TransportAssumption PROVE Spec => TransportSound
  BY TypeCorrect, BehindBroker, LocalEditsStay, PTL DEF TransportSound
-----------------------------------------------------------------------------
(* The handoff: BooxHandoff, the same transport with the companion's handoff
   root. The two modules name the broker, the journal and the poll alike.

   The invariant follows the ink once more. What is safe (KeptInk) has been
   uploaded or lies in an artifact's PDF, and only artifacts whose ink has been
   uploaded are ever marked for retirement; so the companion may replace the
   active PDF if that is what it installed, which came from the broker, or what
   it has finalized (InkOK). Acknowledgements succeed each other by generation,
   and no receipt is newer than what was read last (OrderOK): so whatever a poll
   removes from incoming/, the pair of a receipt that is still current stays
   (PairOK). *)
CONSTANTS MaxLateEdits, MaxLosses
VARIABLES accepted, device, retired, ack, sending, inPdf, inDesc, outPdf, outDesc, markers, noted, seen

Handoff == INSTANCE BooxHandoff

(* The ink that has left the BOOX in an upload, and the ink that is safe: that
   and what lies in a PDF under outgoing/ or on its way there. *)
UploadInk == Handoff!InkOf(uploads)
PdfsSending == {f.of : f \in {g \in sending : g.file = "pdf"}}
KeptInk == Handoff!InkOf(PdfsSending \cup outPdf) \cup UploadInk

(* A frontier the broker has reached. *)
Behind(r) == r \in Handoff!Frontiers /\ Handoff!Dominates(canon.rev, r)

DeliveryOK(d) ==
    /\ d.gen \in 1 .. generation /\ Behind(d.rev) /\ d.ink \subseteq UploadInk

ArtifactOK(a) == a \in Handoff!Snapshots /\ Behind(a.based)

HandoffUploadOK(u) ==
    /\ u.side \in Sides /\ Behind(u.based) /\ u.rev = u.based[u.side] + 1
    /\ u.ink \in SUBSET Nat
    /\ u.side = "boox" => u.artifact.ink = u.ink

HandoffManifestOK(m) == m.gen \in 1 .. generation /\ Behind(m.rev)

HandoffBrokerOK ==
    /\ canon.rev \in Handoff!Frontiers /\ generation \in Nat /\ canon.rev.boox + canon.rev.supernote <= generation
    /\ canon.ink \subseteq UploadInk
    /\ \A u \in uploads : HandoffUploadOK(u)
    /\ DeliveryOK(view) /\ view.gen \notin {m.gen : m \in manifests}
    /\ \A m \in manifests : HandoffManifestOK(m)
    /\ \A m, n \in manifests : m.gen = n.gen => m = n

(* The handoff folders and the acknowledgement. *)
FilesOK ==
    /\ \A d \in inPdf \cup inDesc : DeliveryOK(d)
    /\ \A a \in outPdf \cup outDesc \cup markers \cup {f.of : f \in sending} : ArtifactOK(a)
    /\ \A f \in sending : f = [file |-> f.file, of |-> f.of]

Shown == [rev |-> device.rev, gen |-> device.gen, ink |-> device.installed]

(* The companion's committed state. *)
CompanionOK ==
    /\ device = None => retired = None /\ ack = None
    /\ device # None =>
          /\ device \in Handoff!Committed /\ DeliveryOK(Shown)
          /\ device.finalized # None => ArtifactOK(device.finalized)
    /\ retired # None => DOMAIN retired = {"rev", "ink"} /\ Behind(retired.rev) /\ retired.ink \in SUBSET Nat
    /\ ack # None => ack \in Handoff!Receipts /\ DeliveryOK(ack)
    /\ seen # None => seen \in Handoff!Receipts /\ DeliveryOK(seen)
    /\ used \in [boox : Nat, note : Nat, late : Nat, crashes : Nat, drops : Nat, losses : Nat]

(* A journal: what it takes for accepted was uploaded, and its frontier covers
   its receipt. *)
HandoffJournalOK(j) ==
    /\ DOMAIN j = {"rev", "pending", "note", "delivered", "generations", "uploaded", "accepted",
                   "receipt", "conflict"}
    /\ Behind(j.rev) /\ j.generations \subseteq 1 .. generation
    /\ j.pending # None => j.pending \in uploads /\ j.pending.side = "boox"
    /\ \A a \in j.accepted : a.ink \subseteq UploadInk
    /\ j.receipt # None => /\ j.receipt \in Handoff!Receipts /\ DeliveryOK(j.receipt)
                           /\ Handoff!Dominates(j.rev, j.receipt.rev)

(* Acknowledgements and receipts succeed each other. *)
Older(a, b) == a = b \/ a.gen < b.gen
OrderOK ==
    /\ ack # None => Older(ack, Shown)
    /\ \A x \in {saved.receipt, work.receipt, seen} : x # None => ack # None /\ Older(x, ack)
    /\ \A x \in {saved.receipt, work.receipt} : x # None /\ seen # None => Older(x, seen)

(* The pair of an acknowledged view is in incoming/. *)
PairOK(j) == j.receipt # None /\ j.receipt = ack /\ used.drops = 0 => ack \in inPdf \cap inDesc

(* What was drawn is in the active PDF or safe. *)
InkOK ==
    /\ device = None => Handoff!Drawn = {}
    /\ device # None =>
          /\ Handoff!Drawn \subseteq device.current \cup KeptInk
          /\ device.finalized # None => device.finalized.ink \subseteq KeptInk
    /\ \A a \in markers : a.ink \subseteq UploadInk

HandoffTodoOK ==
    /\ \A c \in todo : c = [side |-> c.side, object |-> c.object]
    /\ \A c \in todo : \/ c.side = "supernote" /\ c.object \in manifests
                       \/ c.side = "boox" /\ DeliveryOK(c.object) /\ pc # "list"
                          /\ c.object.gen \notin {m.gen : m \in manifests}
    /\ \A c, d \in todo : c.side = "boox" /\ d.side = "boox" => c = d

HandoffInv == /\ Handoff!TypeOK /\ HandoffBrokerOK /\ FilesOK /\ CompanionOK /\ HandoffJournalOK(saved) /\ HandoffJournalOK(work)
        /\ OrderOK /\ PairOK(saved) /\ PairOK(work) /\ InkOK /\ HandoffTodoOK
-----------------------------------------------------------------------------
(* What the invariant says of revisions, deliveries, artifacts and journals
   stays true while the broker goes on and uploads arrive. *)
LEMMA Growth ==
  ASSUME HandoffBrokerOK, canon'.rev \in Handoff!Frontiers, Handoff!Dominates(canon'.rev, canon.rev),
         generation' \in Nat, generation' >= generation, uploads \subseteq uploads'
  PROVE  /\ UploadInk \subseteq UploadInk'
         /\ \A r : Behind(r) => Behind(r)'
         /\ \A d : DeliveryOK(d) => DeliveryOK(d)'
         /\ \A a : ArtifactOK(a) => ArtifactOK(a)'
         /\ \A u : HandoffUploadOK(u) => HandoffUploadOK(u)'
         /\ \A m : HandoffManifestOK(m) => HandoffManifestOK(m)'
         /\ \A j : HandoffJournalOK(j) => HandoffJournalOK(j)'
<1>1. UploadInk \subseteq UploadInk'
  BY DEF UploadInk, Handoff!InkOf
<1>2. \A r : Behind(r) => Behind(r)'
  BY DEF Behind, Handoff!Dominates, Handoff!Frontiers, HandoffBrokerOK
<1>3. 1 .. generation \subseteq 1 .. generation'
  BY DEF HandoffBrokerOK
<1>4. \A d : DeliveryOK(d) => DeliveryOK(d)'
  BY <1>1, <1>2, <1>3 DEF DeliveryOK
<1>5. \A j : HandoffJournalOK(j) => HandoffJournalOK(j)'
  BY <1>1, <1>2, <1>3, <1>4 DEF HandoffJournalOK
<1>6. /\ \A a : ArtifactOK(a) => ArtifactOK(a)'
      /\ \A u : HandoffUploadOK(u) => HandoffUploadOK(u)'
      /\ \A m : HandoffManifestOK(m) => HandoffManifestOK(m)'
  BY <1>2, <1>3 DEF ArtifactOK, HandoffUploadOK, HandoffManifestOK
<1> QED
  BY <1>1, <1>2, <1>4, <1>5, <1>6

(* The same for a step that leaves the broker's state alone. *)
LEMMA Still ==
  ASSUME HandoffBrokerOK, canon' = canon, generation' = generation, uploads \subseteq uploads'
  PROVE  /\ UploadInk \subseteq UploadInk'
         /\ \A r : Behind(r) => Behind(r)'
         /\ \A d : DeliveryOK(d) => DeliveryOK(d)'
         /\ \A a : ArtifactOK(a) => ArtifactOK(a)'
         /\ \A u : HandoffUploadOK(u) => HandoffUploadOK(u)'
         /\ \A m : HandoffManifestOK(m) => HandoffManifestOK(m)'
         /\ \A j : HandoffJournalOK(j) => HandoffJournalOK(j)'
<1>1. canon'.rev \in Handoff!Frontiers /\ Handoff!Dominates(canon'.rev, canon.rev) /\ generation' \in Nat
      /\ generation' >= generation
  BY DEF HandoffBrokerOK, Handoff!Frontiers, Handoff!Dominates
<1> QED
  BY <1>1, Growth

(* The types after a step follow from what the invariant says of the journals. *)
LEMMA TypesFollow ==
  ASSUME HandoffBrokerOK', HandoffJournalOK(saved)', HandoffJournalOK(work)',
         processed' \cup conflicts' \cup accepted' \subseteq uploads',
         noted' \subseteq {m.gen : m \in manifests'},
         pc' \in {"idle", "ack", "list", "verify", "deliver", "boox", "note", "save"}
  PROVE  Handoff!TypeOK'
<1>1. /\ canon'.rev \in Handoff!Frontiers /\ generation' \in Nat
      /\ canon'.rev.boox + canon'.rev.supernote <= generation'
  BY DEF HandoffBrokerOK
<1>2. \A r \in Handoff!Frontiers : Handoff!Dominates(canon'.rev, r) => r.boox + r.supernote <= generation'
  BY <1>1 DEF Handoff!Frontiers, Handoff!Dominates
<1>3. /\ saved'.pending = None \/ saved'.pending \in uploads'
      /\ saved'.generations \subseteq 1 .. generation'
      /\ saved'.rev.boox + saved'.rev.supernote <= generation'
  BY <1>2 DEF HandoffJournalOK, Behind
<1>4. /\ work'.pending = None \/ work'.pending \in uploads'
      /\ work'.generations \subseteq 1 .. generation'
      /\ work'.rev.boox + work'.rev.supernote <= generation'
  BY <1>2 DEF HandoffJournalOK, Behind
<1> QED
  BY <1>3, <1>4 DEF Handoff!TypeOK

(* An empty store, empty folders and an empty journal. *)
LEMMA InitHandoff == ASSUME Handoff!HandoffAssumption, Handoff!Init PROVE HandoffInv
<1> USE DEF Handoff!Init
<1>1. HandoffBrokerOK
  BY DEF HandoffBrokerOK, DeliveryOK, Behind, Handoff!Zero, Handoff!Frontiers, Handoff!Dominates,
     UploadInk, Handoff!InkOf
<1>2. HandoffJournalOK(saved) /\ HandoffJournalOK(work)
  BY DEF HandoffJournalOK, Handoff!EmptyJournal, Behind, Handoff!Zero, Handoff!Frontiers, Handoff!Dominates
<1>3. Handoff!TypeOK
  BY <1>1, <1>2 DEF Handoff!TypeOK, Handoff!EmptyJournal, Handoff!Zero
<1>4. FilesOK /\ CompanionOK /\ OrderOK /\ PairOK(saved) /\ PairOK(work) /\ HandoffTodoOK
  BY DEF FilesOK, CompanionOK, OrderOK, PairOK, HandoffTodoOK, Handoff!EmptyJournal
<1>5. InkOK
  BY DEF InkOK, Handoff!Drawn
<1> QED
  BY <1>1, <1>2, <1>3, <1>4, <1>5 DEF HandoffInv
-----------------------------------------------------------------------------
(* The broker *)

(* A step of the broker adds outputs under new names and leaves the folders,
   the companion and the journals alone. *)
LEMMA HandoffBrokerStep ==
  ASSUME HandoffInv, HandoffBrokerOK', Handoff!Dominates(canon'.rev, canon.rev), generation' >= generation,
         processed' \cup conflicts' \cup accepted' \subseteq uploads,
         manifests \subseteq manifests', \A m \in manifests' \ manifests : m.gen > generation,
         UNCHANGED <<uploads, Handoff!companionVars, Handoff!outVars, Handoff!inVars, Handoff!pollVars, used>>
  PROVE  HandoffInv'
<1> USE DEF Handoff!companionVars, Handoff!outVars, Handoff!inVars, Handoff!pollVars
<1>1. /\ UploadInk' = UploadInk
      /\ \A r : Behind(r) => Behind(r)'
      /\ \A d : DeliveryOK(d) => DeliveryOK(d)'
      /\ \A a : ArtifactOK(a) => ArtifactOK(a)'
      /\ \A j : HandoffJournalOK(j) => HandoffJournalOK(j)'
  <2>1. canon'.rev \in Handoff!Frontiers /\ generation' \in Nat /\ HandoffBrokerOK
    BY DEF HandoffBrokerOK, HandoffInv
  <2> QED
    BY <2>1, Growth DEF UploadInk
<1>2. HandoffJournalOK(saved)' /\ HandoffJournalOK(work)'
  <2>1. HandoffJournalOK(saved) /\ HandoffJournalOK(work)
    BY DEF HandoffInv
  <2> QED
    BY <1>1, <2>1 DEF HandoffJournalOK, Behind, DeliveryOK
<1>3. FilesOK'
  BY <1>1 DEF HandoffInv, FilesOK
<1>4. CompanionOK'
  BY <1>1 DEF HandoffInv, CompanionOK, Shown
<1>5. OrderOK' /\ PairOK(saved)' /\ PairOK(work)'
  BY DEF HandoffInv, OrderOK, PairOK, Older, Shown
<1>6. InkOK'
  BY <1>1 DEF HandoffInv, InkOK, Handoff!Drawn, KeptInk, PdfsSending
<1>7. HandoffTodoOK'
  <2>1. \A d : DeliveryOK(d) => d.gen <= generation
    BY DEF DeliveryOK, HandoffInv, HandoffBrokerOK
  <2>2. \A d : DeliveryOK(d) /\ d.gen \notin {m.gen : m \in manifests} =>
               d.gen \notin {m.gen : m \in manifests'}
    BY <2>1 DEF DeliveryOK, HandoffInv, HandoffBrokerOK
  <2> QED
    BY <1>1, <2>1, <2>2 DEF HandoffInv, HandoffTodoOK, HandoffBrokerOK, DeliveryOK, Behind
<1>8. Handoff!TypeOK'
  <2>1. noted' \subseteq {m.gen : m \in manifests'}
    BY DEF HandoffInv, Handoff!TypeOK
  <2>2. pc' \in {"idle", "ack", "list", "verify", "deliver", "boox", "note", "save"}
    BY DEF HandoffInv, Handoff!TypeOK
  <2> QED
    BY <1>2, <2>1, <2>2, TypesFollow
<1> QED
  BY <1>2, <1>3, <1>4, <1>5, <1>6, <1>7, <1>8 DEF HandoffInv

(* A revision raised on one side. *)
LEMMA HandoffRaised ==
  ASSUME NEW r \in Handoff!Frontiers, NEW d \in Sides, NEW n \in Nat, n >= r[d]
  PROVE  /\ [r EXCEPT ![d] = n] \in Handoff!Frontiers /\ Handoff!Dominates([r EXCEPT ![d] = n], r)
         /\ LET q == [r EXCEPT ![d] = n]
            IN  q.boox + q.supernote = r.boox + r.supernote + (n - r[d])
  BY DEF Handoff!Frontiers, Sides, Handoff!Dominates

(* The broker accepts an upload or puts it under Conflicts/. *)
LEMMA ProcessKeepsHandoff ==
  ASSUME HandoffInv, NEW u \in uploads, Handoff!Process(u) PROVE HandoffInv'
<1>0. PICK rev : rev = [canon.rev EXCEPT ![u.side] = u.rev]
  OBVIOUS
<1>1. /\ HandoffBrokerOK /\ HandoffUploadOK(u) /\ u.ink \subseteq UploadInk
      /\ processed \cup conflicts \cup accepted \subseteq uploads
  BY DEF HandoffInv, HandoffBrokerOK, UploadInk, Handoff!InkOf, Handoff!TypeOK
<1>2. CASE u.based # canon.rev
  <2>1. HandoffBrokerOK'
    BY <1>1, <1>2 DEF Handoff!Process, HandoffBrokerOK, HandoffUploadOK, DeliveryOK,
       HandoffManifestOK, Behind, UploadInk
  <2>2. Handoff!Dominates(canon'.rev, canon.rev) /\ generation' >= generation
    BY <1>1, <1>2 DEF Handoff!Process, HandoffBrokerOK, Handoff!Dominates, Handoff!Frontiers
  <2> QED
    BY <1>1, <1>2, <2>1, <2>2, HandoffBrokerStep DEF Handoff!Process
<1>3. CASE u.based = canon.rev
  <2>1. /\ canon' = [rev |-> rev, ink |-> Handoff!NewInk(u)] /\ generation' = generation + 1
        /\ UNCHANGED <<uploads, Handoff!companionVars, Handoff!outVars, Handoff!inVars, Handoff!pollVars, used>>
        /\ processed' \cup conflicts' \cup accepted' \subseteq uploads
    BY <1>0, <1>1, <1>3 DEF Handoff!Process
  <2>2. /\ rev \in Handoff!Frontiers /\ Handoff!Dominates(rev, canon.rev)
        /\ rev.boox + rev.supernote = canon.rev.boox + canon.rev.supernote + 1
    BY <1>0, <1>1, <1>3 DEF HandoffUploadOK, HandoffBrokerOK, Handoff!Frontiers, Sides, Handoff!Dominates
  <2>3. Handoff!NewInk(u) \subseteq UploadInk
    BY <1>1 DEF Handoff!NewInk, HandoffBrokerOK
  <2>4. HandoffBrokerOK'
    <3>1. /\ canon'.rev = rev /\ canon'.rev \in Handoff!Frontiers /\ Handoff!Dominates(canon'.rev, canon.rev)
          /\ generation' \in Nat /\ generation' >= generation /\ generation \in Nat
          /\ UploadInk' = UploadInk
      BY <1>1, <2>1, <2>2 DEF HandoffBrokerOK, UploadInk
    <3>2. /\ \A d : DeliveryOK(d) => DeliveryOK(d)'
          /\ \A v : HandoffUploadOK(v) => HandoffUploadOK(v)'
          /\ \A m : HandoffManifestOK(m) => HandoffManifestOK(m)'
      BY <1>1, <2>1, <3>1, Growth
    <3>3. /\ canon'.rev.boox + canon'.rev.supernote <= generation'
          /\ canon'.ink \subseteq UploadInk'
          /\ \A v \in uploads' : HandoffUploadOK(v)'
      BY <1>1, <2>1, <2>2, <2>3, <3>1, <3>2 DEF HandoffBrokerOK, Handoff!Frontiers
    <3>4. Behind(rev)'
      BY <2>2, <3>1 DEF Behind, Handoff!Dominates, Handoff!Frontiers
    <3>5. \A m \in manifests : m.gen \in 1 .. generation /\ view.gen \in 1 .. generation
      BY <1>1 DEF HandoffBrokerOK, HandoffManifestOK, DeliveryOK
    <3>6. CASE u.side = "boox"
      <4>1. manifests' = manifests \cup {Handoff!Manifest(rev, generation')} /\ view' = view
        BY <1>0, <1>3, <3>6 DEF Handoff!Process
      <4>2. PICK new : new = Handoff!Manifest(rev, generation')
        OBVIOUS
      <4>6. HandoffManifestOK(new)' /\ new.gen = generation'
        BY <2>1, <3>1, <3>4, <4>2 DEF HandoffManifestOK, Handoff!Manifest, Behind
      <4>3. DeliveryOK(view)'
        BY <1>1, <3>2, <4>1 DEF HandoffBrokerOK, DeliveryOK, Behind
      <4>4. \A m \in manifests' : HandoffManifestOK(m)'
        BY <1>1, <3>2, <4>1, <4>2, <4>6 DEF HandoffBrokerOK
      <4>5. view'.gen \notin {m.gen : m \in manifests'} /\ \A m, n \in manifests' : m.gen = n.gen => m = n
        BY <1>1, <2>1, <3>1, <3>5, <4>1 DEF HandoffBrokerOK, Handoff!Manifest, DeliveryOK
      <4> QED
        BY <3>1, <3>3, <4>3, <4>4, <4>5 DEF HandoffBrokerOK
    <3>7. CASE u.side # "boox"
      <4>1. view' = [gen |-> generation', rev |-> rev, ink |-> Handoff!NewInk(u)] /\ manifests' = manifests
        BY <1>0, <1>3, <3>7 DEF Handoff!Process
      <4>2. DeliveryOK(view)'
        BY <2>1, <2>3, <3>1, <3>4, <4>1 DEF DeliveryOK, Behind
      <4>3. view'.gen \notin {m.gen : m \in manifests'}
        BY <2>1, <3>1, <3>5, <4>1
      <4> QED
        BY <1>1, <3>1, <3>2, <3>3, <4>1, <4>2, <4>3 DEF HandoffBrokerOK
    <3> QED
      BY <3>6, <3>7
  <2>5. manifests \subseteq manifests' /\ \A m \in manifests' \ manifests : m.gen > generation
    BY <1>1, <1>3 DEF Handoff!Process, Handoff!Manifest, HandoffBrokerOK
  <2> QED
    BY <1>1, <2>1, <2>2, <2>4, <2>5, HandoffBrokerStep DEF HandoffBrokerOK
<1> QED
  BY <1>2, <1>3

(* The operator's decision is a further step of the upload's own side. *)
LEMMA ResolveKeepsHandoff ==
  ASSUME HandoffInv, NEW u \in uploads, Handoff!Resolve(u) PROVE HandoffInv'
<1>0. PICK rev : rev = [canon.rev EXCEPT ![u.side] = u.rev]
  OBVIOUS
<1>1. /\ HandoffBrokerOK /\ HandoffUploadOK(u) /\ u.ink \subseteq UploadInk
      /\ processed \cup conflicts \cup accepted \subseteq uploads
  BY DEF HandoffInv, HandoffBrokerOK, UploadInk, Handoff!InkOf, Handoff!TypeOK
<1>2. CASE u.rev < canon.rev[u.side]
  <2>0. UNCHANGED <<canon, view, manifests, generation, accepted>>
    BY <1>1, <1>2 DEF Handoff!Resolve, HandoffUploadOK, HandoffBrokerOK, Behind, Handoff!Frontiers, Sides
  <2>1. HandoffBrokerOK'
    BY <1>1, <2>0 DEF Handoff!Resolve, HandoffBrokerOK, HandoffUploadOK, DeliveryOK,
       HandoffManifestOK, Behind, UploadInk
  <2>2. Handoff!Dominates(canon'.rev, canon.rev) /\ generation' >= generation
    BY <1>1, <2>0 DEF HandoffBrokerOK, Handoff!Dominates, Handoff!Frontiers
  <2> QED
    BY <1>1, <2>0, <2>1, <2>2, HandoffBrokerStep DEF Handoff!Resolve
<1>3. CASE ~(u.rev < canon.rev[u.side])
  <2>1. PICK result \in {canon.ink, canon.ink \cup u.ink} :
           /\ canon' = [rev |-> rev, ink |-> result]
           /\ view' = [gen |-> generation + 1, rev |-> rev, ink |-> result]
           /\ generation' = generation + 2
           /\ manifests' = manifests \cup {Handoff!Manifest(rev, generation')}
    BY <1>0, <1>3 DEF Handoff!Resolve
  <2>2. /\ UNCHANGED <<uploads, Handoff!companionVars, Handoff!outVars, Handoff!inVars, Handoff!pollVars, used>>
        /\ processed' \cup conflicts' \cup accepted' \subseteq uploads
    BY <1>1, <1>3 DEF Handoff!Resolve
  <2>3. u.rev \in Nat /\ canon.rev[u.side] \in Nat /\ u.rev >= canon.rev[u.side]
        /\ u.rev <= canon.rev[u.side] + 1
    BY <1>1, <1>3 DEF HandoffUploadOK, HandoffBrokerOK, Handoff!Frontiers, Sides, Behind, Handoff!Dominates
  <2>4. /\ rev \in Handoff!Frontiers /\ Handoff!Dominates(rev, canon.rev)
        /\ rev.boox + rev.supernote <= canon.rev.boox + canon.rev.supernote + 1
    BY <1>0, <1>1, <2>3 DEF HandoffUploadOK, HandoffBrokerOK, Handoff!Frontiers, Sides, Handoff!Dominates
  <2>5. HandoffBrokerOK'
    <3>1. /\ canon'.rev = rev /\ canon'.rev \in Handoff!Frontiers /\ Handoff!Dominates(canon'.rev, canon.rev)
          /\ generation' \in Nat /\ generation' >= generation /\ generation \in Nat
          /\ UploadInk' = UploadInk
      BY <1>1, <2>1, <2>2, <2>4 DEF HandoffBrokerOK, UploadInk
    <3>2. /\ \A v : HandoffUploadOK(v) => HandoffUploadOK(v)'
          /\ \A m : HandoffManifestOK(m) => HandoffManifestOK(m)'
      BY <1>1, <2>2, <3>1, Growth
    <3>3. /\ canon'.rev.boox + canon'.rev.supernote <= generation'
          /\ canon'.ink \subseteq UploadInk'
          /\ \A v \in uploads' : HandoffUploadOK(v)'
      BY <1>1, <2>1, <2>2, <2>4, <3>1, <3>2 DEF HandoffBrokerOK, Handoff!Frontiers
    <3>4. Behind(rev)'
      BY <2>4, <3>1 DEF Behind, Handoff!Dominates, Handoff!Frontiers
    <3>5. \A m \in manifests : m.gen \in 1 .. generation
      BY <1>1 DEF HandoffBrokerOK, HandoffManifestOK
    <3>10. PICK new : new = Handoff!Manifest(rev, generation')
      OBVIOUS
    <3>6. HandoffManifestOK(new)' /\ new.gen = generation'
      BY <1>1, <2>1, <3>1, <3>4, <3>10 DEF HandoffManifestOK, Handoff!Manifest, Behind
    <3>7. DeliveryOK(view)'
      BY <2>1, <3>1, <3>3, <3>4 DEF DeliveryOK, Behind
    <3>8. \A m \in manifests' : HandoffManifestOK(m)'
      BY <1>1, <2>1, <3>2, <3>6, <3>10 DEF HandoffBrokerOK
    <3>9. view'.gen \notin {m.gen : m \in manifests'} /\ \A m, n \in manifests' : m.gen = n.gen => m = n
      BY <1>1, <2>1, <3>1, <3>5 DEF HandoffBrokerOK, Handoff!Manifest
    <3> QED
      BY <3>1, <3>3, <3>7, <3>8, <3>9 DEF HandoffBrokerOK
  <2>6. manifests \subseteq manifests' /\ \A m \in manifests' \ manifests : m.gen > generation
    BY <1>1, <2>1 DEF Handoff!Manifest, HandoffBrokerOK
  <2> QED
    BY <1>1, <2>1, <2>2, <2>4, <2>5, <2>6, HandoffBrokerStep DEF HandoffBrokerOK
<1> QED
  BY <1>2, <1>3
-----------------------------------------------------------------------------
(* The companion, NeoReader and the mirror *)

(* A step of these leaves the broker and the poll alone. *)
LEMMA CompanionStep ==
  ASSUME HandoffInv, UNCHANGED <<Handoff!brokerVars, uploads, Handoff!pollVars, noted>>,
         FilesOK', CompanionOK', OrderOK', PairOK(saved)', PairOK(work)', InkOK'
  PROVE  HandoffInv'
<1> USE DEF Handoff!brokerVars, Handoff!pollVars
<1>1. HandoffBrokerOK'
  BY DEF HandoffInv, HandoffBrokerOK, HandoffUploadOK, DeliveryOK, HandoffManifestOK, Behind, UploadInk
<1>2. HandoffJournalOK(saved)' /\ HandoffJournalOK(work)'
  BY DEF HandoffInv, HandoffJournalOK, DeliveryOK, Behind, UploadInk
<1>3. HandoffTodoOK'
  BY DEF HandoffInv, HandoffTodoOK, DeliveryOK, Behind, UploadInk
<1>4. Handoff!TypeOK'
  BY DEF HandoffInv, Handoff!TypeOK
<1> QED
  BY <1>1, <1>2, <1>3, <1>4 DEF HandoffInv

(* Such a step moves no revision, and all that is uploaded stays. *)
LEMMA CompanionStill ==
  ASSUME HandoffInv, UNCHANGED <<Handoff!brokerVars, uploads, Handoff!pollVars, noted>>
  PROVE  /\ UploadInk' = UploadInk
         /\ \A r : Behind(r) => Behind(r)'
         /\ \A d : DeliveryOK(d) => DeliveryOK(d)'
         /\ \A a : ArtifactOK(a) => ArtifactOK(a)'
<1>1. HandoffBrokerOK /\ UNCHANGED <<canon, generation, uploads>>
  BY DEF HandoffInv, Handoff!brokerVars
<1> QED
  BY <1>1, Still DEF UploadInk

(* NeoReader saves a stroke. *)
LEMMA BooxEditKeepsHandoff == ASSUME Handoff!HandoffAssumption, HandoffInv, Handoff!BooxEdit PROVE HandoffInv'
<1> DEFINE stroke == 10 + used.boox
<1>1. /\ device # None /\ device' = [device EXCEPT !.current = @ \cup {stroke}]
      /\ used' = [used EXCEPT !.boox = @ + 1]
      /\ UNCHANGED <<Handoff!brokerVars, uploads, retired, ack, sending, Handoff!outVars, Handoff!inVars, Handoff!pollVars>>
  BY DEF Handoff!BooxEdit, Handoff!Count
<1>2. UNCHANGED <<Handoff!brokerVars, uploads, Handoff!pollVars, noted>>
  BY <1>1 DEF Handoff!inVars
<1>3. /\ device \in Handoff!Committed /\ used.boox \in Nat
      /\ used \in [boox : Nat, note : Nat, late : Nat, crashes : Nat, drops : Nat, losses : Nat]
  BY <1>1 DEF HandoffInv, CompanionOK
<1>4. /\ device' \in Handoff!Committed /\ device' # None
      /\ device'.gen = device.gen /\ device'.rev = device.rev
      /\ device'.installed = device.installed /\ device'.finalized = device.finalized
      /\ device'.current = device.current \cup {stroke}
  BY <1>1, <1>3 DEF Handoff!Committed, Handoff!HandoffAssumption
<1>5. Shown' = Shown
  BY <1>4 DEF Shown
<1>6. FilesOK'
  BY <1>1, <1>2, CompanionStill DEF HandoffInv, FilesOK, Handoff!inVars, Handoff!outVars
<1>7. CompanionOK'
  <2>1. used' \in [boox : Nat, note : Nat, late : Nat, crashes : Nat, drops : Nat, losses : Nat]
    BY <1>1, <1>3
  <2>2. DeliveryOK(Shown)'
    BY <1>1, <1>2, <1>5, CompanionStill DEF HandoffInv, CompanionOK
  <2> QED
    BY <1>1, <1>2, <1>4, <2>1, <2>2, CompanionStill DEF HandoffInv, CompanionOK, Handoff!pollVars
<1>8. OrderOK' /\ PairOK(saved)' /\ PairOK(work)'
  BY <1>1, <1>3, <1>5 DEF HandoffInv, OrderOK, PairOK, Older, Handoff!pollVars, Handoff!inVars
<1>9. InkOK'
  <2>1. Handoff!Drawn' \subseteq Handoff!Drawn \cup {stroke}
    BY <1>1, <1>3 DEF Handoff!Drawn
  <2>2. KeptInk' = KeptInk
    BY <1>1, <1>2, CompanionStill DEF KeptInk, PdfsSending, Handoff!outVars, Handoff!InkOf, UploadInk
  <2> QED
    BY <1>1, <1>2, <1>4, <2>1, <2>2, CompanionStill DEF HandoffInv, InkOK, Handoff!outVars
<1> QED
  BY <1>2, <1>6, <1>7, <1>8, <1>9, CompanionStep

(* What is written to the mirror joins what is safe. *)
LEMMA SendingGrows ==
  ASSUME HandoffInv, UNCHANGED <<uploads, Handoff!outVars>>, NEW a, sending' = sending \cup Handoff!Written(a)
  PROVE  KeptInk \subseteq KeptInk' /\ a.ink \subseteq KeptInk'
<1>1. PdfsSending \subseteq PdfsSending' /\ a \in PdfsSending'
  <2>1. [file |-> "pdf", of |-> a] \in sending'
    BY DEF Handoff!Written
  <2> QED
    BY <2>1 DEF PdfsSending
<1> QED
  BY <1>1 DEF KeptInk, Handoff!InkOf, UploadInk, Handoff!outVars

(* A snapshot of the active PDF goes out. *)
LEMMA FinalizeKeepsHandoff == ASSUME Handoff!HandoffAssumption, HandoffInv, Handoff!Finalize PROVE HandoffInv'
<1> DEFINE a == Handoff!Artifact(device.rev, device.current)
<1>1. /\ device # None /\ device' = [device EXCEPT !.finalized = a]
      /\ sending' = sending \cup Handoff!Written(a)
      /\ UNCHANGED <<Handoff!brokerVars, uploads, retired, ack, Handoff!outVars, Handoff!inVars, Handoff!pollVars, used>>
  BY DEF Handoff!Finalize
<1>2. UNCHANGED <<Handoff!brokerVars, uploads, Handoff!pollVars, noted>>
  BY <1>1 DEF Handoff!inVars
<1>3. device \in Handoff!Committed /\ DeliveryOK(Shown) /\ ArtifactOK(a)
  BY <1>1 DEF HandoffInv, CompanionOK, ArtifactOK, Handoff!Artifact, Handoff!Snapshots,
     Handoff!Committed, DeliveryOK, Shown
<1>4. /\ device' \in Handoff!Committed /\ device' # None
      /\ device'.gen = device.gen /\ device'.rev = device.rev
      /\ device'.installed = device.installed /\ device'.finalized = a
      /\ device'.current = device.current
  <2>1. a \in Handoff!Snapshots
    BY <1>3 DEF ArtifactOK
  <2> QED
    BY <1>1, <1>3, <2>1 DEF Handoff!Committed, Handoff!HandoffAssumption
<1>5. Shown' = Shown
  BY <1>4 DEF Shown
<1>6. FilesOK'
  <2>1. \A f \in sending' : f \in sending \/ (f.of = a /\ f = [file |-> f.file, of |-> f.of])
    BY <1>1 DEF Handoff!Written
  <2> HIDE DEF a
  <2> QED
    BY <1>1, <1>2, <1>3, <2>1, CompanionStill DEF HandoffInv, FilesOK, Handoff!inVars, Handoff!outVars
<1>7. CompanionOK'
  <2>1. DeliveryOK(Shown)'
    BY <1>2, <1>3, <1>5, CompanionStill
  <2>2. \A b : ArtifactOK(b) => ArtifactOK(b)'
    BY <1>2, CompanionStill
  <2>3. \A d : DeliveryOK(d) => DeliveryOK(d)'
    BY <1>2, CompanionStill
  <2>4. retired' # None => DOMAIN retired' = {"rev", "ink"} /\ Behind(retired.rev)' /\ retired'.ink \in SUBSET Nat
    BY <1>1, <1>2, CompanionStill DEF HandoffInv, CompanionOK, Behind
  <2> HIDE DEF a
  <2> QED
    BY <1>1, <1>2, <1>3, <1>4, <2>1, <2>2, <2>3, <2>4 DEF HandoffInv, CompanionOK, Handoff!pollVars,
       ArtifactOK, Behind, DeliveryOK
<1>8. OrderOK' /\ PairOK(saved)' /\ PairOK(work)'
  BY <1>1, <1>5 DEF HandoffInv, OrderOK, PairOK, Older, Handoff!pollVars, Handoff!inVars
<1>9. InkOK'
  <2>1. KeptInk \subseteq KeptInk' /\ a.ink \subseteq KeptInk'
    BY <1>1, SendingGrows
  <2>2. Handoff!Drawn' = Handoff!Drawn
    BY <1>1 DEF Handoff!Drawn
  <2> HIDE DEF a
  <2> QED
    BY <1>1, <1>2, <1>4, <2>1, <2>2, CompanionStill DEF HandoffInv, InkOK, Handoff!outVars
<1> QED
  BY <1>2, <1>6, <1>7, <1>8, <1>9, CompanionStep

(* The mirror moves a file from one side to the other. *)
LEMMA MirrorKeepsHandoff == ASSUME Handoff!HandoffAssumption, HandoffInv, NEW f \in sending, Handoff!Mirror(f) PROVE HandoffInv'
<1>1. /\ sending' = sending \ {f}
      /\ \/ f.file = "pdf" /\ outPdf' = outPdf \cup {f.of} /\ outDesc' = outDesc
         \/ f.file # "pdf" /\ outDesc' = outDesc \cup {f.of} /\ outPdf' = outPdf
      /\ UNCHANGED <<Handoff!brokerVars, uploads, device, retired, ack, markers, Handoff!inVars, Handoff!pollVars, used>>
  BY DEF Handoff!Mirror
<1>2. UNCHANGED <<Handoff!brokerVars, uploads, Handoff!pollVars, noted>>
  BY <1>1 DEF Handoff!inVars
<1>3. FilesOK'
  <2>1. outPdf' \cup outDesc' \cup markers' \cup {g.of : g \in sending'}
           \subseteq outPdf \cup outDesc \cup markers \cup {g.of : g \in sending}
    BY <1>1
  <2> QED
    BY <1>1, <1>2, <2>1, CompanionStill DEF HandoffInv, FilesOK, Handoff!inVars
<1>4. Shown' = Shown
  BY <1>1 DEF Shown
<1>5. CompanionOK'
  BY <1>1, <1>2, <1>4, CompanionStill DEF HandoffInv, CompanionOK, Handoff!pollVars
<1>6. OrderOK' /\ PairOK(saved)' /\ PairOK(work)'
  BY <1>1, <1>4 DEF HandoffInv, OrderOK, PairOK, Older, Handoff!pollVars, Handoff!inVars
<1>7. InkOK'
  <2>1. PdfsSending \cup outPdf \subseteq PdfsSending' \cup outPdf'
    BY <1>1 DEF PdfsSending
  <2>2. KeptInk \subseteq KeptInk'
    BY <1>1, <2>1 DEF KeptInk, Handoff!InkOf, UploadInk
  <2>3. Handoff!Drawn' = Handoff!Drawn
    BY <1>1 DEF Handoff!Drawn
  <2> QED
    BY <1>1, <1>2, <2>2, <2>3, CompanionStill DEF HandoffInv, InkOK
<1> QED
  BY <1>2, <1>3, <1>5, <1>6, <1>7, CompanionStep

(* A view is installed over what has been finalized, or nothing was drawn. *)
LEMMA InstallKeepsHandoff == ASSUME Handoff!HandoffAssumption, HandoffInv, NEW d \in inPdf, Handoff!Install(d) PROVE HandoffInv'
<1>1. /\ device # None => Handoff!MayInstall(d)
      /\ device' = [rev |-> d.rev, gen |-> d.gen, installed |-> d.ink, current |-> d.ink,
                    finalized |-> None]
      /\ device = None => UNCHANGED <<retired, sending>>
      /\ device # None => /\ retired' = [rev |-> device.rev, ink |-> device.current]
                          /\ sending' = sending \cup Handoff!Leftover
      /\ UNCHANGED <<Handoff!brokerVars, uploads, ack, Handoff!outVars, Handoff!inVars, Handoff!pollVars, used>>
  BY DEF Handoff!Install
<1>2. UNCHANGED <<Handoff!brokerVars, uploads, Handoff!pollVars, noted>>
  BY <1>1 DEF Handoff!inVars
<1>3. DeliveryOK(d) /\ UploadInk \subseteq Nat
  BY DEF HandoffInv, FilesOK, HandoffBrokerOK, HandoffUploadOK, UploadInk, Handoff!InkOf
<1>4. device' \in Handoff!Committed /\ device' # None
  <2>0. generation \in Nat
    BY DEF HandoffInv, HandoffBrokerOK
  <2>1. d.gen \in Nat /\ d.rev \in Handoff!Frontiers /\ d.ink \in SUBSET Nat
    <3>1. d.gen \in 1 .. generation /\ d.rev \in Handoff!Frontiers /\ d.ink \subseteq UploadInk
      BY <1>3 DEF DeliveryOK, Behind
    <3>2. d.gen \in Nat
      BY <2>0, <3>1
    <3>3. d.ink \in SUBSET Nat
      BY <1>3, <3>1
    <3> QED
      BY <3>1, <3>2, <3>3
  <2>2. device' \in Handoff!Committed
    BY <1>1, <2>1 DEF Handoff!Committed
  <2> QED
    BY <2>2 DEF Handoff!HandoffAssumption
<1>5. Shown' = [rev |-> d.rev, gen |-> d.gen, ink |-> d.ink]
  BY <1>1 DEF Shown
<1>6. \A f \in sending' :
         f \in sending \/ (device # None /\ f = [file |-> f.file, of |-> f.of]
                           /\ f.of = Handoff!Artifact(device.rev, device.current))
  BY <1>1 DEF Handoff!Leftover, Handoff!Written
<1>7. device # None => ArtifactOK(Handoff!Artifact(device.rev, device.current))
  BY DEF HandoffInv, CompanionOK, ArtifactOK, Handoff!Artifact, Handoff!Snapshots, Handoff!Committed,
     DeliveryOK, Shown
<1>8. FilesOK'
  BY <1>1, <1>2, <1>6, <1>7, CompanionStill DEF HandoffInv, FilesOK, Handoff!inVars, Handoff!outVars
<1>9. CompanionOK'
  <2>1. DeliveryOK(Shown)'
    <3>1. DeliveryOK([rev |-> d.rev, gen |-> d.gen, ink |-> d.ink])
      BY <1>3 DEF DeliveryOK
    <3> QED
      BY <1>2, <1>5, <3>1, CompanionStill
  <2>2. retired' # None => DOMAIN retired' = {"rev", "ink"} /\ Behind(retired'.rev)
                           /\ retired'.ink \in SUBSET Nat
    <3>1. CASE device = None
      BY <1>1, <3>1 DEF HandoffInv, CompanionOK
    <3>2. CASE device # None
      <4>1. Behind(device.rev) /\ device.current \in SUBSET Nat
        BY <3>2 DEF HandoffInv, CompanionOK, DeliveryOK, Shown, Handoff!Committed
      <4> QED
        BY <1>1, <3>2, <4>1
    <3> QED
      BY <3>1, <3>2
  <2>3. device'.finalized = None
    BY <1>1
  <2> QED
    BY <1>1, <1>2, <1>4, <2>1, <2>2, <2>3 DEF HandoffInv, CompanionOK, Handoff!pollVars,
       Handoff!brokerVars, Behind, DeliveryOK, UploadInk
<1>10. OrderOK' /\ PairOK(saved)' /\ PairOK(work)'
  <2>1. ack # None => Older(ack, Shown)'
    <3>1. ASSUME ack # None PROVE ack.gen < d.gen
      <4>1. device # None /\ d.gen > device.gen /\ Older(ack, Shown)
        BY <1>1, <3>1 DEF HandoffInv, CompanionOK, OrderOK, Handoff!MayInstall
      <4>2. ack.gen \in Nat /\ device.gen \in Nat /\ d.gen \in Nat
        BY <1>3, <3>1, <4>1 DEF HandoffInv, CompanionOK, Handoff!Receipts, Handoff!Committed,
           DeliveryOK, HandoffBrokerOK
      <4>3. ack.gen <= device.gen
        BY <4>1, <4>2 DEF Older, Shown
      <4> QED
        BY <4>1, <4>2, <4>3
    <3> QED
      BY <1>1, <1>5, <3>1 DEF Older
  <2> QED
    BY <1>1, <2>1 DEF HandoffInv, OrderOK, PairOK, Older, Handoff!pollVars, Handoff!inVars
<1>11. InkOK'
  <2>1. Handoff!Drawn' = Handoff!Drawn
    BY <1>1 DEF Handoff!Drawn
  <2>2. KeptInk \subseteq KeptInk'
    <3>1. PdfsSending \subseteq PdfsSending'
      BY <1>1 DEF PdfsSending
    <3> QED
      BY <1>1, <3>1 DEF KeptInk, Handoff!InkOf, UploadInk, Handoff!outVars
  <2>3. Handoff!Drawn \subseteq KeptInk'
    <3>1. CASE device = None
      BY <3>1 DEF HandoffInv, InkOK
    <3>2. CASE device # None /\ device.current = device.installed
      <4>1. device.current \subseteq UploadInk
        BY <3>2 DEF HandoffInv, CompanionOK, DeliveryOK, Shown
      <4> QED
        BY <2>2, <3>2, <4>1 DEF HandoffInv, InkOK, KeptInk
    <3>3. CASE device # None /\ device.current # device.installed
      <4>1. device.finalized # None
        BY <1>1, <3>3 DEF Handoff!MayInstall
      <4>2. CASE device.current = device.finalized.ink
        BY <2>2, <3>3, <4>1, <4>2 DEF HandoffInv, InkOK
      <4>3. CASE device.current # device.finalized.ink
        <5>1. sending' = sending \cup Handoff!Written(Handoff!Artifact(device.rev, device.current))
          BY <1>1, <3>3, <4>1, <4>3 DEF Handoff!Leftover
        <5>2. device.current \subseteq KeptInk'
          BY <1>1, <5>1, SendingGrows DEF Handoff!Artifact
        <5> QED
          BY <2>2, <3>3, <5>2 DEF HandoffInv, InkOK
      <4> QED
        BY <4>2, <4>3
    <3> QED
      BY <3>1, <3>2, <3>3
  <2>4. \A a \in markers' : a.ink \subseteq UploadInk'
    BY <1>1, <1>2, CompanionStill DEF HandoffInv, InkOK, Handoff!outVars
  <2> QED
    BY <1>1, <1>4, <2>1, <2>3, <2>4 DEF InkOK
<1> QED
  BY <1>2, <1>8, <1>9, <1>10, <1>11, CompanionStep

(* A later acknowledgement names a later view. *)
LEMMA AcknowledgeKeepsHandoff == ASSUME Handoff!HandoffAssumption, HandoffInv, Handoff!Acknowledge PROVE HandoffInv'
<1>1. /\ device # None /\ ack' = Shown /\ ack' # ack
      /\ UNCHANGED <<Handoff!brokerVars, uploads, device, retired, sending, Handoff!outVars, Handoff!inVars, Handoff!pollVars, used>>
  BY DEF Handoff!Acknowledge, Shown
<1>2. UNCHANGED <<Handoff!brokerVars, uploads, Handoff!pollVars, noted>>
  BY <1>1 DEF Handoff!inVars
<1>3. FilesOK'
  BY <1>1, <1>2, CompanionStill DEF HandoffInv, FilesOK, Handoff!inVars, Handoff!outVars
<1>4. Shown' = Shown /\ DeliveryOK(Shown) /\ Shown \in Handoff!Receipts /\ Shown # None
  <2>1. Shown' = Shown /\ DeliveryOK(Shown) /\ Shown \in Handoff!Receipts
    BY <1>1 DEF Shown, HandoffInv, CompanionOK, Handoff!Committed, Handoff!Receipts
  <2> QED
    BY <2>1 DEF Handoff!HandoffAssumption
<1>5. CompanionOK'
  BY <1>1, <1>2, <1>4, CompanionStill DEF HandoffInv, CompanionOK, Handoff!pollVars
<1>6. ASSUME NEW x, x # None, x \in Handoff!Receipts, ack # None, Older(x, ack)
      PROVE  Older(x, Shown) /\ x # Shown
  <2>1. ack \in Handoff!Receipts /\ Older(ack, Shown) /\ ack # Shown
    BY <1>1, <1>6 DEF HandoffInv, CompanionOK, OrderOK
  <2>2. ack.gen < Shown.gen
    BY <2>1 DEF Older
  <2>3. x.gen \in Nat /\ ack.gen \in Nat /\ Shown.gen \in Nat /\ x.gen <= ack.gen
    BY <1>4, <1>6, <2>1 DEF Older, Handoff!Receipts
  <2>4. x.gen < Shown.gen
    BY <2>2, <2>3
  <2> QED
    BY <2>3, <2>4 DEF Older
<1>7. \A x \in {saved.receipt, work.receipt, seen} :
         x # None => x \in Handoff!Receipts /\ ack # None /\ Older(x, ack)
  BY DEF HandoffInv, OrderOK, CompanionOK, HandoffJournalOK
<1>8. \A x \in {saved.receipt, work.receipt, seen} : x # None => Older(x, Shown) /\ x # Shown
  BY <1>6, <1>7
<1>9. OrderOK'
  BY <1>1, <1>4, <1>8 DEF HandoffInv, OrderOK, Older, Handoff!pollVars
<1>10. PairOK(saved)' /\ PairOK(work)'
  BY <1>1, <1>8 DEF PairOK, Handoff!pollVars
<1>11. InkOK'
  BY <1>1 DEF HandoffInv, InkOK, Handoff!Drawn, KeptInk, PdfsSending, UploadInk, Handoff!outVars
<1> QED
  BY <1>2, <1>3, <1>5, <1>9, <1>10, <1>11, CompanionStep

(* A save into the retired predecessor goes out as a snapshot of its own. *)
LEMMA LateEditKeepsHandoff == ASSUME Handoff!HandoffAssumption, HandoffInv, Handoff!LateEdit PROVE HandoffInv'
<1> DEFINE stroke == 30 + used.late
           a == Handoff!Artifact(retired.rev, retired'.ink)
<1>1. /\ retired # None /\ retired' = [retired EXCEPT !.ink = @ \cup {stroke}]
      /\ used' = [used EXCEPT !.late = @ + 1]
      /\ sending' = sending \cup Handoff!Written(a)
      /\ UNCHANGED <<Handoff!brokerVars, uploads, device, ack, Handoff!outVars, Handoff!inVars, Handoff!pollVars>>
  BY DEF Handoff!LateEdit, Handoff!Count
<1>2. UNCHANGED <<Handoff!brokerVars, uploads, Handoff!pollVars, noted>>
  BY <1>1 DEF Handoff!inVars
<1>3. /\ device # None /\ used.late \in Nat /\ Behind(retired.rev) /\ retired.ink \in SUBSET Nat
      /\ DOMAIN retired = {"rev", "ink"}
      /\ used \in [boox : Nat, note : Nat, late : Nat, crashes : Nat, drops : Nat, losses : Nat]
  BY <1>1 DEF HandoffInv, CompanionOK
<1>4. /\ retired'.rev = retired.rev /\ retired'.ink = retired.ink \cup {stroke}
      /\ DOMAIN retired' = {"rev", "ink"} /\ retired'.ink \in SUBSET Nat
  BY <1>1, <1>3
<1>5. ArtifactOK(a) /\ a.ink = retired'.ink
  BY <1>3, <1>4 DEF ArtifactOK, Handoff!Artifact, Handoff!Snapshots, Behind
<1>6. Shown' = Shown
  BY <1>1 DEF Shown
<1>7. KeptInk \subseteq KeptInk' /\ a.ink \subseteq KeptInk'
  BY <1>1, SendingGrows
<1>8. FilesOK'
  <2>1. \A f \in sending' : f \in sending \/ (f.of = a /\ f = [file |-> f.file, of |-> f.of])
    BY <1>1 DEF Handoff!Written
  <2> HIDE DEF a
  <2> QED
    BY <1>1, <1>2, <1>5, <2>1, CompanionStill DEF HandoffInv, FilesOK, Handoff!inVars, Handoff!outVars
<1> HIDE DEF a
<1>9. CompanionOK'
  <2>1. used' \in [boox : Nat, note : Nat, late : Nat, crashes : Nat, drops : Nat, losses : Nat]
    BY <1>1, <1>3
  <2>2. Behind(retired'.rev)
    BY <1>3, <1>4
  <2>3. DeliveryOK(Shown)'
    BY <1>2, <1>3, <1>6, CompanionStill DEF HandoffInv, CompanionOK
  <2> QED
    BY <1>1, <1>2, <1>3, <1>4, <2>1, <2>2, <2>3 DEF HandoffInv, CompanionOK, Handoff!pollVars,
       Handoff!brokerVars, Behind, DeliveryOK, ArtifactOK, UploadInk
<1>10. OrderOK' /\ PairOK(saved)' /\ PairOK(work)'
  BY <1>1, <1>3, <1>6 DEF HandoffInv, OrderOK, PairOK, Older, Handoff!pollVars, Handoff!inVars
<1>11. InkOK'
  <2>1. Handoff!Drawn' \subseteq Handoff!Drawn \cup {stroke}
    BY <1>1, <1>3 DEF Handoff!Drawn
  <2>2. Handoff!Drawn' \subseteq device.current \cup KeptInk'
    BY <1>3, <1>4, <1>5, <1>7, <2>1 DEF HandoffInv, InkOK
  <2> QED
    BY <1>1, <1>2, <1>3, <1>7, <2>2, CompanionStill DEF HandoffInv, InkOK, Handoff!outVars
<1> QED
  BY <1>2, <1>8, <1>9, <1>10, <1>11, CompanionStep

(* The mirror loses a file of a delivery. *)
LEMMA DropKeepsHandoff == ASSUME Handoff!HandoffAssumption, HandoffInv, Handoff!Drop PROVE HandoffInv'
<1>1. /\ used' = [used EXCEPT !.drops = @ + 1] /\ inPdf' \subseteq inPdf /\ inDesc' \subseteq inDesc
      /\ UNCHANGED <<Handoff!brokerVars, uploads, Handoff!companionVars, Handoff!outVars, noted, Handoff!pollVars>>
  BY DEF Handoff!Drop, Handoff!Count
<1>2. UNCHANGED <<Handoff!brokerVars, uploads, Handoff!pollVars, noted>>
  BY <1>1
<1>3. /\ used \in [boox : Nat, note : Nat, late : Nat, crashes : Nat, drops : Nat, losses : Nat]
      /\ used.drops \in Nat
  BY DEF HandoffInv, CompanionOK
<1>4. used' \in [boox : Nat, note : Nat, late : Nat, crashes : Nat, drops : Nat, losses : Nat]
      /\ used'.drops # 0 /\ used'.boox = used.boox /\ used'.late = used.late
  BY <1>1, <1>3
<1>5. FilesOK'
  BY <1>1, <1>2, CompanionStill DEF HandoffInv, FilesOK, Handoff!outVars, Handoff!companionVars
<1>6. CompanionOK'
  <2>1. Shown' = Shown
    BY <1>1 DEF Shown, Handoff!companionVars
  <2> QED
    BY <1>1, <1>2, <1>4, <2>1, CompanionStill DEF HandoffInv, CompanionOK, Handoff!pollVars,
       Handoff!companionVars
<1>7. OrderOK' /\ PairOK(saved)' /\ PairOK(work)'
  BY <1>1, <1>4 DEF HandoffInv, OrderOK, PairOK, Older, Shown, Handoff!pollVars, Handoff!companionVars
<1>8. InkOK'
  BY <1>1, <1>4 DEF HandoffInv, InkOK, Handoff!Drawn, KeptInk, PdfsSending, UploadInk,
     Handoff!outVars, Handoff!companionVars
<1> QED
  BY <1>2, <1>5, <1>6, <1>7, <1>8, CompanionStep
-----------------------------------------------------------------------------
(* The poll *)

(* What a step of the transport owes: it leaves the broker and the companion
   alone. *)
LEMMA PollStep ==
  ASSUME HandoffInv, UNCHANGED <<Handoff!brokerVars, Handoff!companionVars>>, uploads \subseteq uploads',
         HandoffBrokerOK', FilesOK', HandoffJournalOK(saved)', HandoffJournalOK(work)', OrderOK', PairOK(saved)',
         PairOK(work)', InkOK', HandoffTodoOK',
         used' \in [boox : Nat, note : Nat, late : Nat, crashes : Nat, drops : Nat, losses : Nat],
         noted' \subseteq {m.gen : m \in manifests},
         seen' # None => seen' \in Handoff!Receipts /\ DeliveryOK(seen'),
         pc' \in {"idle", "ack", "list", "verify", "deliver", "boox", "note", "save"}
  PROVE  HandoffInv'
<1> USE DEF Handoff!companionVars, Handoff!brokerVars
<1>1. Handoff!TypeOK'
  <2>1. /\ processed' \cup conflicts' \cup accepted' \subseteq uploads'
        /\ noted' \subseteq {m.gen : m \in manifests'}
    BY DEF HandoffInv, Handoff!TypeOK
  <2> QED
    BY <2>1, TypesFollow
<1>2. CompanionOK'
  <2>1. HandoffBrokerOK /\ UNCHANGED <<canon, generation>>
    BY DEF HandoffInv
  <2>2. /\ UploadInk \subseteq UploadInk'
        /\ \A d : DeliveryOK(d) => DeliveryOK(d)'
    BY <2>1, Still
  <2>3. DeliveryOK(Shown) => DeliveryOK(Shown)'
    BY <2>2 DEF DeliveryOK, Behind, Shown
  <2> QED
    BY <2>2, <2>3 DEF HandoffInv, CompanionOK, DeliveryOK, Behind, ArtifactOK
<1> QED
  BY <1>1, <1>2 DEF HandoffInv

(* Candidates that remain stay candidates. *)
LEMMA TodoShrinks ==
  ASSUME HandoffInv, UNCHANGED Handoff!brokerVars, uploads \subseteq uploads', todo' \subseteq todo, pc' # "list"
  PROVE  HandoffTodoOK'
<1>1. HandoffBrokerOK /\ UNCHANGED <<canon, generation, manifests>>
  BY DEF HandoffInv, Handoff!brokerVars
<1>2. UploadInk \subseteq UploadInk'
  BY <1>1, Still
<1> QED
  BY <1>1, <1>2 DEF HandoffInv, HandoffTodoOK, DeliveryOK, Behind

(* A step on the journal and the poll's locals. *)
LEMMA JournalStep ==
  ASSUME HandoffInv, UNCHANGED <<Handoff!brokerVars, uploads, Handoff!companionVars, Handoff!outVars, Handoff!inVars>>,
         used' \in [boox : Nat, note : Nat, late : Nat, crashes : Nat, drops : Nat, losses : Nat],
         used'.boox = used.boox, used'.late = used.late, used'.drops = used.drops,
         HandoffJournalOK(saved'), HandoffJournalOK(work'),
         {saved'.receipt, work'.receipt} \subseteq {None, saved.receipt, work.receipt},
         seen' \in {None, ack, seen}, HandoffTodoOK',
         pc' \in {"idle", "ack", "list", "verify", "deliver", "boox", "note", "save"}
  PROVE  HandoffInv'
<1> USE DEF Handoff!companionVars, Handoff!brokerVars, Handoff!outVars, Handoff!inVars
<1>1. canon' = canon /\ generation' = generation /\ uploads' = uploads /\ manifests' = manifests /\ view' = view
  BY DEF Handoff!brokerVars
<1>2. HandoffBrokerOK'
  BY <1>1 DEF HandoffInv, HandoffBrokerOK, HandoffUploadOK, DeliveryOK, HandoffManifestOK, Behind, UploadInk
<1>3. HandoffJournalOK(saved)' /\ HandoffJournalOK(work)'
  BY <1>1 DEF HandoffJournalOK, DeliveryOK, Behind, UploadInk
<1>4. FilesOK'
  BY <1>1 DEF HandoffInv, FilesOK, DeliveryOK, ArtifactOK, Behind, UploadInk
<1>5. OrderOK' /\ PairOK(saved)' /\ PairOK(work)'
  BY DEF HandoffInv, OrderOK, PairOK, Older, Shown
<1>6. InkOK'
  BY <1>1 DEF HandoffInv, InkOK, Handoff!Drawn, KeptInk, PdfsSending, UploadInk
<1>7. noted' \subseteq {m.gen : m \in manifests} /\ (seen' # None => seen' \in Handoff!Receipts /\ DeliveryOK(seen'))
  BY DEF HandoffInv, Handoff!TypeOK, CompanionOK
<1> QED
  BY <1>2, <1>3, <1>4, <1>5, <1>6, <1>7, PollStep

(* Where a poll begins, what it reads and lists, and where it ends. *)
LEMMA BeginPollKeepsHandoff == ASSUME Handoff!HandoffAssumption, HandoffInv, Handoff!BeginPoll PROVE HandoffInv'
<1>1. /\ work' = [saved EXCEPT !.conflict = conflicts # {}] /\ saved' = saved /\ seen' = seen
      /\ todo' = todo /\ pc' \in {"save", "ack"} /\ used' = used
      /\ UNCHANGED <<Handoff!brokerVars, uploads, Handoff!companionVars, Handoff!outVars, Handoff!inVars>>
  BY DEF Handoff!BeginPoll, Handoff!others
<1>2. HandoffJournalOK(work') /\ work'.receipt = saved.receipt
  BY <1>1 DEF HandoffInv, HandoffJournalOK
<1>3. HandoffTodoOK'
  BY <1>1, TodoShrinks
<1> QED
  BY <1>1, <1>2, <1>3, JournalStep DEF HandoffInv, CompanionOK

(* The acknowledgement it reads is the present one. *)
LEMMA ReadAckKeepsHandoff == ASSUME Handoff!HandoffAssumption, HandoffInv, Handoff!ReadAck PROVE HandoffInv'
<1>1. /\ pc' = "list" /\ seen' = ack /\ todo' = [side : {"supernote"}, object : manifests]
      /\ UNCHANGED <<Handoff!brokerVars, uploads, Handoff!companionVars, Handoff!outVars, Handoff!inVars, saved, work, used>>
  BY DEF Handoff!ReadAck, Handoff!others
<1>2. HandoffTodoOK'
  BY <1>1 DEF HandoffTodoOK, Handoff!brokerVars
<1> QED
  BY <1>1, <1>2, JournalStep DEF HandoffInv, CompanionOK

(* The view joins the candidates. *)
LEMMA ListViewsKeepsHandoff == ASSUME Handoff!HandoffAssumption, HandoffInv, Handoff!ListViews PROVE HandoffInv'
<1>1. /\ pc = "list" /\ pc' = "verify"
      /\ todo' = todo \cup [side : {"boox"}, object : {view}]
      /\ UNCHANGED <<Handoff!brokerVars, uploads, Handoff!companionVars, Handoff!outVars, Handoff!inVars, saved, work, seen, used>>
  BY DEF Handoff!ListViews, Handoff!others
<1>2. HandoffTodoOK'
  <2>1. \A c \in [side : {"boox"}, object : {view}] : c = [side |-> "boox", object |-> view]
    OBVIOUS
  <2>2. \A c \in todo : c.side = "supernote"
    BY <1>1 DEF HandoffInv, HandoffTodoOK
  <2>3. DeliveryOK(view) /\ view.gen \notin {m.gen : m \in manifests}
    BY DEF HandoffInv, HandoffBrokerOK
  <2> QED
    BY <1>1, <2>1, <2>2, <2>3 DEF HandoffInv, HandoffTodoOK, Handoff!brokerVars, DeliveryOK, Behind,
       UploadInk
<1> QED
  BY <1>1, <1>2, JournalStep DEF HandoffInv, CompanionOK

(* The accepted artifacts are those of uploads. *)
LEMMA RecoverKeepsHandoff == ASSUME Handoff!HandoffAssumption, HandoffInv, Handoff!Recover PROVE HandoffInv'
<1>1. /\ pc' = "boox" /\ work' = [work EXCEPT !.accepted = @ \cup Handoff!AcceptedSources]
      /\ UNCHANGED <<Handoff!brokerVars, uploads, Handoff!companionVars, Handoff!outVars, Handoff!inVars, saved, todo, seen, used>>
  BY DEF Handoff!Recover, Handoff!others
<1>2. \A a \in Handoff!AcceptedSources : a.ink \subseteq UploadInk
  BY DEF HandoffInv, HandoffBrokerOK, HandoffUploadOK, Handoff!AcceptedSources, UploadInk, Handoff!InkOf
<1>3. HandoffJournalOK(work') /\ work'.receipt = work.receipt
  BY <1>1, <1>2 DEF HandoffInv, HandoffJournalOK
<1>4. HandoffTodoOK'
  BY <1>1, TodoShrinks
<1> QED
  BY <1>1, <1>3, <1>4, JournalStep DEF HandoffInv, CompanionOK

(* The loop over the artifacts ends. *)
LEMMA EndLoopKeepsHandoff == ASSUME Handoff!HandoffAssumption, HandoffInv, Handoff!EndLoop PROVE HandoffInv'
<1>1. /\ pc' = "note" /\ UNCHANGED <<Handoff!brokerVars, uploads, Handoff!companionVars, Handoff!outVars, Handoff!inVars, saved,
                                     todo, seen, used, work>>
  BY DEF Handoff!EndLoop, Handoff!loopRest, Handoff!others
<1>2. HandoffTodoOK'
  BY <1>1, TodoShrinks
<1> QED
  BY <1>1, <1>2, JournalStep DEF HandoffInv, CompanionOK

(* The journal is saved, lost with the process, or lost altogether. *)
LEMMA SaveKeepsHandoff == ASSUME Handoff!HandoffAssumption, HandoffInv, Handoff!Save PROVE HandoffInv'
<1>1. /\ pc' = "idle" /\ saved' = work /\ seen' = None /\ work' = work
      /\ UNCHANGED <<Handoff!brokerVars, uploads, Handoff!companionVars, Handoff!outVars, Handoff!inVars, todo, used>>
  BY DEF Handoff!Save, Handoff!others
<1>2. HandoffTodoOK'
  BY <1>1, TodoShrinks
<1> QED
  BY <1>1, <1>2, JournalStep DEF HandoffInv, CompanionOK

(* A crash leaves what has been saved. *)
LEMMA CrashKeepsHandoff == ASSUME Handoff!HandoffAssumption, HandoffInv, Handoff!Crash PROVE HandoffInv'
<1>1. /\ pc' = "idle" /\ work' = saved /\ saved' = saved /\ seen' = None /\ todo' = {}
      /\ used' = [used EXCEPT !.crashes = @ + 1]
      /\ UNCHANGED <<Handoff!brokerVars, uploads, Handoff!companionVars, Handoff!outVars, Handoff!inVars>>
  BY DEF Handoff!Crash, Handoff!Count
<1>2. HandoffTodoOK'
  BY <1>1, TodoShrinks
<1>3. /\ used' \in [boox : Nat, note : Nat, late : Nat, crashes : Nat, drops : Nat, losses : Nat]
      /\ used'.boox = used.boox /\ used'.late = used.late /\ used'.drops = used.drops
  BY <1>1 DEF HandoffInv, CompanionOK
<1> QED
  BY <1>1, <1>2, <1>3, JournalStep DEF HandoffInv

(* An empty journal covers everything. *)
LEMMA LoseCheckpointKeepsHandoff == ASSUME Handoff!HandoffAssumption, HandoffInv, Handoff!LoseCheckpoint PROVE HandoffInv'
<1>1. /\ pc' = "idle" /\ work' = Handoff!EmptyJournal /\ saved' = Handoff!EmptyJournal
      /\ used' = [used EXCEPT !.losses = @ + 1]
      /\ UNCHANGED <<Handoff!brokerVars, uploads, Handoff!companionVars, Handoff!outVars, Handoff!inVars, todo, seen>>
  BY DEF Handoff!LoseCheckpoint, Handoff!Count
<1>2. HandoffTodoOK'
  BY <1>1, TodoShrinks
<1>3. /\ used' \in [boox : Nat, note : Nat, late : Nat, crashes : Nat, drops : Nat, losses : Nat]
      /\ used'.boox = used.boox /\ used'.late = used.late /\ used'.drops = used.drops
  BY <1>1 DEF HandoffInv, CompanionOK
<1>4. HandoffJournalOK(Handoff!EmptyJournal) /\ Handoff!EmptyJournal.receipt = None
  BY DEF HandoffJournalOK, Handoff!EmptyJournal, Handoff!Zero, Behind, Handoff!Frontiers,
     Handoff!Dominates, HandoffInv, HandoffBrokerOK
<1> QED
  BY <1>1, <1>2, <1>3, <1>4, JournalStep
(* What the frontier moves up to covers the receipt. *)
LEMMA HandoffRecordedOK ==
  ASSUME HandoffBrokerOK, NEW j,
         DOMAIN j = {"rev", "pending", "note", "delivered", "generations", "uploaded", "accepted",
                     "receipt", "conflict"},
         j.generations \subseteq 1 .. generation,
         j.pending # None => j.pending \in uploads /\ j.pending.side = "boox",
         \A a \in j.accepted : a.ink \subseteq UploadInk,
         NEW rev, Behind(rev),
         j.receipt # None => /\ j.receipt \in Handoff!Receipts /\ DeliveryOK(j.receipt)
                             /\ Handoff!Dominates(rev, j.receipt.rev)
  PROVE  HandoffJournalOK(Handoff!Recorded(j, rev)) /\ Handoff!Recorded(j, rev).receipt = j.receipt
<1> DEFINE r == Handoff!Recorded(j, rev)
<1>1. /\ DOMAIN r = DOMAIN j /\ r.rev = rev /\ r.generations = j.generations
      /\ r.receipt = j.receipt /\ r.pending \in {None, j.pending}
      /\ r.accepted = j.accepted \/ (j.pending # None /\ r.accepted = j.accepted \cup {j.pending.artifact})
  BY DEF Handoff!Recorded
<1>2. j.pending # None => j.pending.artifact.ink \subseteq UploadInk
  BY DEF HandoffBrokerOK, HandoffUploadOK, UploadInk, Handoff!InkOf
<1> HIDE DEF r
<1>3. \A a \in r.accepted : a.ink \subseteq UploadInk
  BY <1>1, <1>2
<1>4. HandoffJournalOK(r) /\ r.receipt = j.receipt
  BY <1>1, <1>3 DEF HandoffJournalOK
<1> QED
  BY <1>4 DEF r

(* A delivered generation is one the broker has made. *)
LEMMA HandoffMarkedOK ==
  ASSUME NEW j, HandoffJournalOK(j), NEW gen \in 1 .. generation
  PROVE  HandoffJournalOK(Handoff!Marked(j, gen)) /\ Handoff!Marked(j, gen).receipt = j.receipt
<1> DEFINE r == Handoff!Marked(j, gen)
<1>1. /\ DOMAIN r = DOMAIN j /\ r.rev = j.rev /\ r.generations = j.generations \cup {gen}
      /\ r.receipt = j.receipt /\ r.pending = j.pending /\ r.accepted = j.accepted
  BY DEF Handoff!Marked, HandoffJournalOK
<1> HIDE DEF r
<1>2. HandoffJournalOK(r) /\ r.receipt = j.receipt
  BY <1>1 DEF HandoffJournalOK
<1> QED
  BY <1>2 DEF r

(* Dominance is transitive. *)
LEMMA HandoffDominatesFurther ==
  ASSUME NEW a \in Handoff!Frontiers, NEW b \in Handoff!Frontiers, NEW c \in Handoff!Frontiers, Handoff!Dominates(a, b), Handoff!Dominates(b, c)
  PROVE  Handoff!Dominates(a, c)
  BY DEF Handoff!Frontiers, Handoff!Dominates

(* The transport sees an installed view; its pair comes back to incoming/, and
   what it supersedes goes. *)
LEMMA VerifyAckKeepsHandoff == ASSUME Handoff!HandoffAssumption, HandoffInv, Handoff!VerifyAck PROVE HandoffInv'
<1> DEFINE received == [work EXCEPT !.receipt = seen]
<1>1. /\ pc = "verify" /\ UNCHANGED <<Handoff!brokerVars, uploads, Handoff!companionVars, Handoff!outVars, noted, saved, todo, seen, used>>
  BY DEF Handoff!VerifyAck, Handoff!others
<1>2. pc' \in {"deliver", "idle"}
  BY DEF Handoff!VerifyAck, Handoff!Discard
<1>3. HandoffTodoOK'
  BY <1>1, <1>2, TodoShrinks
<1>4. CASE ~Handoff!Verified
  <2>1. UNCHANGED <<inPdf, inDesc, work>>
    BY <1>4 DEF Handoff!VerifyAck
  <2> QED
    BY <1>1, <1>2, <1>3, <2>1, JournalStep DEF Handoff!inVars, HandoffInv, CompanionOK
<1>5. CASE Handoff!Verified
  <2>1. /\ inPdf' = Handoff!Restored(inPdf) /\ inDesc' = Handoff!Restored(inDesc)
        /\ \/ work' = saved
           \/ Handoff!Dominates(seen.rev, work.rev)
              /\ work' = [Handoff!Recorded(received, seen.rev) EXCEPT !.delivered = seen.ink]
           \/ Handoff!Dominates(work.rev, seen.rev) /\ work' = received
    BY <1>5 DEF Handoff!VerifyAck, Handoff!Discard
  <2>2. seen # None /\ seen \in Handoff!Receipts /\ DeliveryOK(seen)
    BY <1>5 DEF Handoff!Verified, HandoffInv, CompanionOK
  <2>3. seen \in Handoff!Restored(inPdf) /\ seen \in Handoff!Restored(inDesc)
    BY DEF Handoff!Restored, Handoff!Superseded
  <2>4. HandoffJournalOK(work) /\ HandoffJournalOK(saved) /\ HandoffBrokerOK
    BY DEF HandoffInv
  <2>5. /\ DOMAIN received = DOMAIN work /\ received.rev = work.rev
        /\ received.generations = work.generations /\ received.receipt = seen
        /\ received.pending = work.pending /\ received.accepted = work.accepted
    BY <2>4 DEF HandoffJournalOK
  <2> HIDE DEF received
  <2>6. HandoffJournalOK(work') /\ work'.receipt \in {saved.receipt, seen}
    <3>1. CASE work' = saved
      BY <2>4, <3>1
    <3>2. CASE Handoff!Dominates(seen.rev, work.rev)
               /\ work' = [Handoff!Recorded(received, seen.rev) EXCEPT !.delivered = seen.ink]
      <4>1. Behind(seen.rev) /\ Handoff!Dominates(seen.rev, seen.rev)
        BY <2>2 DEF DeliveryOK, Behind, Handoff!Dominates, Handoff!Frontiers
      <4> DEFINE r == Handoff!Recorded(received, seen.rev)
      <4>2. HandoffJournalOK(r) /\ r.receipt = seen
        BY <2>2, <2>4, <2>5, <4>1, HandoffRecordedOK DEF HandoffJournalOK
      <4> HIDE DEF r
      <4>3. work' = [r EXCEPT !.delivered = seen.ink]
        BY <3>2 DEF r
      <4>4. /\ DOMAIN work' = DOMAIN r /\ work'.rev = r.rev /\ work'.generations = r.generations
            /\ work'.pending = r.pending /\ work'.accepted = r.accepted /\ work'.receipt = r.receipt
        BY <4>2, <4>3 DEF HandoffJournalOK
      <4> QED
        BY <4>2, <4>4 DEF HandoffJournalOK
    <3>3. CASE Handoff!Dominates(work.rev, seen.rev) /\ work' = received
      BY <2>2, <2>4, <2>5, <3>3 DEF HandoffJournalOK
    <3> QED
      BY <2>1, <3>1, <3>2, <3>3
  <2>7. UNCHANGED <<canon, generation, uploads, manifests, view>>
    BY <1>1 DEF Handoff!brokerVars
  <2>8. HandoffBrokerOK'
    BY <2>7 DEF HandoffInv, HandoffBrokerOK, HandoffUploadOK, DeliveryOK, HandoffManifestOK, Behind,
       UploadInk
  <2>9. HandoffJournalOK(saved)' /\ HandoffJournalOK(work)'
    BY <1>1, <2>4, <2>6, <2>7 DEF HandoffJournalOK, DeliveryOK, Behind, UploadInk
  <2>10. FilesOK'
    <3>1. \A d \in inPdf' \cup inDesc' : DeliveryOK(d)
      BY <2>1, <2>2 DEF HandoffInv, FilesOK, Handoff!Restored
    <3> QED
      BY <1>1, <2>7, <3>1 DEF HandoffInv, FilesOK, DeliveryOK, ArtifactOK, Behind, UploadInk,
         Handoff!outVars, Handoff!companionVars
  <2>11. Shown' = Shown /\ ack' = ack /\ seen' = seen /\ saved' = saved
    BY <1>1 DEF Shown, Handoff!companionVars
  <2>12. OrderOK'
    BY <2>2, <2>6, <2>11 DEF HandoffInv, OrderOK, Older
  <2>13. \A r \in {saved.receipt, seen} : r # None /\ r = ack => seen = ack
    <3>1. ack # None /\ Older(seen, ack) /\ (saved.receipt # None => Older(saved.receipt, seen))
      BY <2>2 DEF HandoffInv, OrderOK
    <3>2. ack.gen \in Nat /\ seen.gen \in Nat
      BY <2>2, <3>1 DEF HandoffInv, CompanionOK, Handoff!Receipts
    <3> QED
      BY <3>1, <3>2 DEF Older
  <2>14. PairOK(saved)' /\ PairOK(work)'
    BY <1>1, <2>1, <2>3, <2>6, <2>11, <2>13 DEF PairOK
  <2>15. InkOK'
    BY <1>1, <2>7 DEF HandoffInv, InkOK, Handoff!Drawn, KeptInk, PdfsSending, UploadInk,
       Handoff!outVars, Handoff!companionVars
  <2>16. noted' \subseteq {m.gen : m \in manifests}
    BY <1>1 DEF HandoffInv, Handoff!TypeOK
  <2> QED
    BY <1>1, <1>2, <1>3, <2>2, <2>8, <2>9, <2>10, <2>12, <2>14, <2>15, <2>16, PollStep
       DEF HandoffInv, CompanionOK
<1> QED
  BY <1>4, <1>5

(* A delivery adds to the folders and marks what it has done. *)
LEMMA DeliverStep ==
  ASSUME HandoffInv, UNCHANGED <<Handoff!brokerVars, uploads, Handoff!companionVars, Handoff!outVars, saved, seen, used>>,
         HandoffJournalOK(work'), work'.receipt = work.receipt, todo' \subseteq todo, pc' = "deliver",
         noted' \subseteq {m.gen : m \in manifests}, inPdf \subseteq inPdf', inDesc \subseteq inDesc',
         \A d \in inPdf' \cup inDesc' : DeliveryOK(d)
  PROVE  HandoffInv'
<1>1. canon' = canon /\ generation' = generation /\ uploads' = uploads /\ manifests' = manifests /\ view' = view
  BY DEF Handoff!brokerVars
<1>2. HandoffBrokerOK'
  BY <1>1 DEF HandoffInv, HandoffBrokerOK, HandoffUploadOK, DeliveryOK, HandoffManifestOK, Behind, UploadInk
<1>3. HandoffJournalOK(saved)' /\ HandoffJournalOK(work)'
  BY <1>1 DEF HandoffInv, HandoffJournalOK, DeliveryOK, Behind, UploadInk
<1>4. FilesOK'
  BY <1>1 DEF HandoffInv, FilesOK, DeliveryOK, ArtifactOK, Behind, UploadInk, Handoff!outVars,
     Handoff!companionVars
<1>5. OrderOK' /\ PairOK(saved)' /\ PairOK(work)'
  BY DEF HandoffInv, OrderOK, PairOK, Older, Shown, Handoff!companionVars
<1>6. InkOK'
  BY <1>1 DEF HandoffInv, InkOK, Handoff!Drawn, KeptInk, PdfsSending, UploadInk, Handoff!outVars,
     Handoff!companionVars
<1>7. HandoffTodoOK'
  BY TodoShrinks
<1> QED
  BY <1>2, <1>3, <1>4, <1>5, <1>6, <1>7, PollStep DEF HandoffInv, CompanionOK

(* Candidates have names of their own, so there is a first one. *)
LEMMA HandoffNextCandidateListed == ASSUME HandoffInv, todo # {} PROVE Handoff!NextCandidate \in todo
<1> DEFINE sum(c) == c.object.rev.boox + c.object.rev.supernote
           f == [c \in todo |-> sum(c)]
           g == [c \in todo |-> c.object.rev.boox]
           h == [c \in todo |-> c.object.gen]
<1>1. \A c \in todo : c.object.rev \in Handoff!Frontiers /\ c.object.gen \in Nat
  BY DEF HandoffInv, HandoffTodoOK, HandoffBrokerOK, HandoffManifestOK, DeliveryOK, Behind
<1>2. \A c \in todo : f[c] \in Nat /\ g[c] \in Nat /\ h[c] \in Nat
  BY <1>1 DEF Handoff!Frontiers
<1>3. PICK c : IsFirst(c, todo, f, g, h)
  <2> HIDE DEF f, g, h
  <2> QED
    BY <1>2, LexLeast
<1>4. c \in todo
  BY <1>3 DEF IsFirst
<1>5. ASSUME NEW d \in todo \ {c} PROVE Handoff!Earlier(c.object, d.object)
  <2>1. c.object.gen # d.object.gen
    BY <1>4 DEF HandoffInv, HandoffTodoOK, HandoffBrokerOK, HandoffManifestOK
  <2>2. c.object.rev \in Handoff!Frontiers /\ d.object.rev \in Handoff!Frontiers /\ c.object.gen \in Nat /\ d.object.gen \in Nat
    BY <1>1, <1>4
  <2>3. \/ sum(c) < sum(d)
        \/ sum(c) = sum(d) /\ c.object.rev.boox < d.object.rev.boox
        \/ sum(c) = sum(d) /\ c.object.rev.boox = d.object.rev.boox /\ c.object.gen <= d.object.gen
    BY <1>3, <1>4 DEF IsFirst
  <2>4. sum(c) = sum(d) /\ c.object.rev.boox = d.object.rev.boox => c.object.rev = d.object.rev
    <3>1. \A r, q \in Handoff!Frontiers : r.boox + r.supernote = q.boox + q.supernote /\ r.boox = q.boox => r = q
      <4>1. \A i, j, k \in Nat : i + j = i + k => j = k
        OBVIOUS
      <4> QED
        BY <4>1 DEF Handoff!Frontiers
    <3> QED
      BY <2>2, <3>1
  <2> QED
    BY <2>1, <2>2, <2>3, <2>4 DEF Handoff!Earlier
<1> QED
  BY <1>4, <1>5 DEF Handoff!NextCandidate

(* A candidate is skipped, written or delivered. *)
LEMMA DeliverKeepsHandoff == ASSUME Handoff!HandoffAssumption, HandoffInv, Handoff!Deliver PROVE HandoffInv'
<1> DEFINE c == Handoff!NextCandidate
<1>1. /\ pc = "deliver" /\ todo # {}
      /\ UNCHANGED <<Handoff!brokerVars, uploads, Handoff!companionVars, Handoff!outVars, saved, seen, used>>
  BY DEF Handoff!Deliver, Handoff!others
<1>2. c \in todo
  BY <1>1, HandoffNextCandidateListed
<1>3. /\ c.object.gen \in 1 .. generation /\ Behind(c.object.rev)
      /\ c.side = "boox" => DeliveryOK(c.object)
  BY <1>2 DEF HandoffInv, HandoffTodoOK, HandoffBrokerOK, HandoffManifestOK, DeliveryOK
<1>4. HandoffJournalOK(work) /\ HandoffBrokerOK
  BY DEF HandoffInv
<1>5. HandoffJournalOK(Handoff!Marked(work, c.object.gen)) /\ Handoff!Marked(work, c.object.gen).receipt = work.receipt
  BY <1>3, <1>4, HandoffMarkedOK
<1>6. ASSUME Handoff!Dominates(c.object.rev, work.rev)
      PROVE  LET r == Handoff!Marked(Handoff!Recorded(work, c.object.rev), c.object.gen)
             IN  HandoffJournalOK(r) /\ r.receipt = work.receipt
  <2> DEFINE q == Handoff!Recorded(work, c.object.rev)
  <2>1. work.receipt # None => Handoff!Dominates(c.object.rev, work.receipt.rev)
    BY <1>3, <1>4, <1>6, HandoffDominatesFurther DEF HandoffJournalOK, Behind, DeliveryOK
  <2>2. HandoffJournalOK(q) /\ q.receipt = work.receipt
    BY <1>3, <1>4, <2>1, HandoffRecordedOK DEF HandoffJournalOK
  <2> HIDE DEF q
  <2>3. HandoffJournalOK(Handoff!Marked(q, c.object.gen)) /\ Handoff!Marked(q, c.object.gen).receipt = work.receipt
    BY <1>3, <2>2, HandoffMarkedOK
  <2> QED
    BY <2>3 DEF q
<1>7. noted \subseteq {m.gen : m \in manifests} /\ \A d \in inPdf \cup inDesc : DeliveryOK(d)
  BY DEF HandoffInv, Handoff!TypeOK, FilesOK
<1>8. CASE Handoff!SkipInstalled \/ Handoff!SkipDominated
  <2>1. work' = Handoff!Marked(work, c.object.gen) /\ todo' \subseteq todo /\ pc' = pc /\ UNCHANGED Handoff!inVars
    BY <1>8 DEF Handoff!SkipInstalled, Handoff!SkipDominated, Handoff!Handled
  <2> QED
    BY <1>1, <1>5, <1>7, <2>1, DeliverStep DEF Handoff!inVars
<1>9. CASE Handoff!DeliverManifest
  <2>1. /\ c.side = "supernote" /\ todo' \subseteq todo /\ pc' = pc /\ UNCHANGED <<inPdf, inDesc>>
        /\ \/ UNCHANGED <<noted, work>>
           \/ /\ Handoff!Dominates(c.object.rev, work.rev) /\ noted' = noted \cup {c.object.gen}
              /\ work' = Handoff!Marked(Handoff!Recorded(work, c.object.rev), c.object.gen)
    BY <1>9 DEF Handoff!DeliverManifest, Handoff!Handled
  <2>2. c.object \in manifests
    BY <1>2, <2>1 DEF HandoffInv, HandoffTodoOK
  <2>3. HandoffJournalOK(work') /\ work'.receipt = work.receipt
    BY <1>4, <1>6, <2>1
  <2>4. noted' \subseteq {m.gen : m \in manifests}
    BY <1>7, <2>1, <2>2
  <2> QED
    BY <1>1, <1>7, <2>1, <2>3, <2>4, DeliverStep
<1>10. CASE Handoff!DeliverView
  <2> DEFINE d == Handoff!Delivery(c.object)
             again == d.gen \in work.generations
  <2>1. /\ c.side = "boox" /\ (again \/ Handoff!Dominates(d.rev, work.rev))
        /\ d.gen = c.object.gen /\ d.rev = c.object.rev /\ d.ink = c.object.ink
    BY <1>10 DEF Handoff!DeliverView, Handoff!Delivery
  <2>2. \/ inPdf' = inPdf \cup {d} /\ UNCHANGED <<inDesc, noted, work, todo, pc>>
        \/ /\ inDesc' = inDesc \cup {d}
           /\ work' = IF again THEN work
                      ELSE [Handoff!Marked(Handoff!Recorded(work, d.rev), d.gen) EXCEPT !.delivered = d.ink]
           /\ todo' \subseteq todo /\ pc' = pc /\ UNCHANGED <<inPdf, noted>>
    BY <1>10 DEF Handoff!DeliverView, Handoff!PublishDescriptor, Handoff!Handled
  <2>3. DeliveryOK(d)
    BY <1>3, <2>1 DEF DeliveryOK
  <2>4. ASSUME ~again, work' = [Handoff!Marked(Handoff!Recorded(work, d.rev), d.gen) EXCEPT !.delivered = d.ink]
        PROVE  HandoffJournalOK(work') /\ work'.receipt = work.receipt
    <3> DEFINE r == Handoff!Marked(Handoff!Recorded(work, c.object.rev), c.object.gen)
    <3>1. HandoffJournalOK(r) /\ r.receipt = work.receipt
      BY <1>6, <2>1, <2>4
    <3>2. work' = [r EXCEPT !.delivered = d.ink]
      BY <2>1, <2>4
    <3> HIDE DEF r, d
    <3>3. /\ DOMAIN work' = DOMAIN r /\ work'.rev = r.rev /\ work'.generations = r.generations
          /\ work'.pending = r.pending /\ work'.accepted = r.accepted /\ work'.receipt = r.receipt
      BY <3>1, <3>2 DEF HandoffJournalOK
    <3> QED
      BY <3>1, <3>3 DEF HandoffJournalOK
  <2>5. HandoffJournalOK(work') /\ work'.receipt = work.receipt
    BY <1>4, <2>2, <2>4
  <2> HIDE DEF d, again
  <2>6. /\ todo' \subseteq todo /\ pc' = pc /\ noted' = noted
        /\ inPdf \subseteq inPdf' /\ inDesc \subseteq inDesc'
        /\ \A e \in inPdf' \cup inDesc' : DeliveryOK(e)
    BY <1>7, <2>2, <2>3
  <2> QED
    BY <1>1, <1>7, <2>5, <2>6, DeliverStep
<1> QED
  BY <1>8, <1>9, <1>10 DEF Handoff!Deliver
-----------------------------------------------------------------------------
(* Artifacts and exports *)

(* What leaves outgoing/ has been uploaded, and so has what is marked. *)
LEMMA OutStep ==
  ASSUME HandoffInv, UNCHANGED <<Handoff!brokerVars, Handoff!companionVars, Handoff!inVars, saved, todo, seen>>,
         used' \in [boox : Nat, note : Nat, late : Nat, crashes : Nat, drops : Nat, losses : Nat],
         used'.boox = used.boox, used'.late = used.late, used'.drops = used.drops,
         uploads \subseteq uploads', \A u \in uploads' : HandoffUploadOK(u),
         HandoffJournalOK(work)', work'.receipt = work.receipt, pc' \in {"boox", "note", "save"},
         outPdf' \cup outDesc' \cup markers' \subseteq outPdf \cup outDesc \cup markers,
         \A a \in markers' \cup (outPdf \ outPdf') : a.ink \subseteq UploadInk
  PROVE  HandoffInv'
<1>1. canon' = canon /\ generation' = generation /\ manifests' = manifests /\ view' = view
  BY DEF Handoff!brokerVars
<1>2. UploadInk \subseteq UploadInk' /\ HandoffBrokerOK
  BY DEF UploadInk, Handoff!InkOf, HandoffInv
<1>3. HandoffBrokerOK'
  BY <1>1, <1>2 DEF HandoffBrokerOK, HandoffUploadOK, DeliveryOK, HandoffManifestOK, Behind
<1>4. HandoffJournalOK(saved)'
  BY <1>1, <1>2 DEF HandoffInv, HandoffJournalOK, DeliveryOK, Behind
<1>5. FilesOK'
  BY <1>1, <1>2 DEF HandoffInv, FilesOK, DeliveryOK, ArtifactOK, Behind, Handoff!inVars,
     Handoff!companionVars
<1>6. OrderOK' /\ PairOK(saved)' /\ PairOK(work)'
  BY DEF HandoffInv, OrderOK, PairOK, Older, Shown, Handoff!companionVars, Handoff!inVars
<1>7. InkOK'
  <2>1. KeptInk \subseteq KeptInk'
    <3>1. PdfsSending' = PdfsSending
      BY DEF PdfsSending, Handoff!companionVars
    <3>2. \A a \in outPdf : a \in outPdf' \/ a.ink \subseteq UploadInk'
      BY <1>2
    <3> QED
      BY <1>2, <3>1, <3>2 DEF KeptInk, Handoff!InkOf
  <2>2. Handoff!Drawn' = Handoff!Drawn
    BY DEF Handoff!Drawn
  <2> QED
    BY <1>2, <2>1, <2>2 DEF HandoffInv, InkOK, Handoff!companionVars
<1>8. HandoffTodoOK'
  BY TodoShrinks
<1>9. noted' \subseteq {m.gen : m \in manifests} /\ (seen' # None => seen' \in Handoff!Receipts /\ DeliveryOK(seen'))
  BY DEF HandoffInv, Handoff!TypeOK, CompanionOK, Handoff!inVars
<1> QED
  BY <1>3, <1>4, <1>5, <1>6, <1>7, <1>8, <1>9, PollStep

(* An interrupted retirement goes on: PDF, descriptor, marker. *)
LEMMA FinishRetirementKeepsHandoff == ASSUME Handoff!HandoffAssumption, HandoffInv, Handoff!FinishRetirement PROVE HandoffInv'
<1>1. /\ UNCHANGED <<Handoff!brokerVars, Handoff!companionVars, Handoff!inVars, saved, todo, seen, used, uploads, work>>
      /\ pc' = "boox"
  BY DEF Handoff!FinishRetirement, Handoff!Looping, Handoff!loopRest, Handoff!others
<1>2. /\ outPdf' \subseteq outPdf /\ outDesc' \subseteq outDesc /\ markers' \subseteq markers
      /\ outPdf \ outPdf' \subseteq markers
  BY DEF Handoff!FinishRetirement
<1>3. \A a \in markers' \cup (outPdf \ outPdf') : a.ink \subseteq UploadInk
  BY <1>2 DEF HandoffInv, InkOK
<1>4. HandoffJournalOK(work)'
  BY <1>1 DEF HandoffInv, HandoffJournalOK, DeliveryOK, Behind, UploadInk, Handoff!brokerVars
<1> QED
  BY <1>1, <1>2, <1>3, <1>4, OutStep DEF HandoffInv, HandoffBrokerOK, CompanionOK

(* An accepted artifact is marked for retirement. *)
LEMMA RetireKeepsHandoff == ASSUME Handoff!HandoffAssumption, HandoffInv, Handoff!Retire PROVE HandoffInv'
<1>1. /\ UNCHANGED <<Handoff!brokerVars, Handoff!companionVars, Handoff!inVars, saved, todo, seen, used, uploads, work,
                     outPdf, outDesc>>
      /\ pc' = "boox"
  BY DEF Handoff!Retire, Handoff!Recovered, Handoff!Looping, Handoff!loopRest, Handoff!others
<1>2. PICK a \in work.accepted : a \in outPdf /\ markers' = markers \cup {a}
  BY DEF Handoff!Retire, Handoff!FirstOf, Handoff!Actionable, Handoff!Visible,
     Handoff!publish_retirement_marker
<1>3. a.ink \subseteq UploadInk
  BY <1>2 DEF HandoffInv, HandoffJournalOK
<1>4. HandoffJournalOK(work)'
  BY <1>1 DEF HandoffInv, HandoffJournalOK, DeliveryOK, Behind, UploadInk, Handoff!brokerVars
<1> QED
  BY <1>1, <1>2, <1>3, <1>4, OutStep DEF HandoffInv, HandoffBrokerOK, CompanionOK, InkOK

(* One artifact is uploaded under its own base. *)
LEMMA UploadArtifactKeepsHandoff == ASSUME Handoff!HandoffAssumption, HandoffInv, Handoff!UploadArtifact PROVE HandoffInv'
<1>1. /\ UNCHANGED <<Handoff!brokerVars, Handoff!companionVars, Handoff!inVars, Handoff!outVars, saved, todo, seen, used>>
      /\ pc' = "note"
  BY DEF Handoff!UploadArtifact, Handoff!loopRest, Handoff!others
<1>2. PICK a \in Handoff!Actionable : \E u :
         /\ u = [side |-> "boox", based |-> a.based, rev |-> Handoff!RevisionOf(a), ink |-> a.ink, artifact |-> a]
         /\ uploads' = uploads \cup {u}
         /\ work' = [work EXCEPT !.pending = u, !.uploaded = @ \cup {a}]
  BY DEF Handoff!UploadArtifact
<1>3. PICK u :
         /\ u = [side |-> "boox", based |-> a.based, rev |-> Handoff!RevisionOf(a), ink |-> a.ink, artifact |-> a]
         /\ uploads' = uploads \cup {u}
         /\ work' = [work EXCEPT !.pending = u, !.uploaded = @ \cup {a}]
  BY <1>2
<1>4. ArtifactOK(a)
  BY DEF HandoffInv, FilesOK, Handoff!Actionable, Handoff!Visible
<1>5. HandoffUploadOK(u) /\ u.side = "boox"
  BY <1>3, <1>4 DEF HandoffUploadOK, ArtifactOK, Handoff!Snapshots, Handoff!RevisionOf, Sides
<1>6. /\ DOMAIN work' = DOMAIN work /\ work'.rev = work.rev /\ work'.generations = work.generations
      /\ work'.pending = u /\ work'.accepted = work.accepted /\ work'.receipt = work.receipt
  BY <1>3 DEF HandoffInv, HandoffJournalOK
<1>7. HandoffJournalOK(work)'
  <2>1. UploadInk \subseteq UploadInk'
    BY <1>3 DEF UploadInk, Handoff!InkOf
  <2> QED
    BY <1>1, <1>3, <1>5, <1>6, <2>1 DEF HandoffInv, HandoffJournalOK, DeliveryOK, Behind, Handoff!brokerVars
<1> QED
  BY <1>1, <1>3, <1>5, <1>6, <1>7, OutStep DEF HandoffInv, HandoffBrokerOK, CompanionOK, InkOK,
     Handoff!outVars

(* At most one export is pending. *)
LEMMA UploadNoteKeepsHandoff == ASSUME Handoff!HandoffAssumption, HandoffInv, Handoff!UploadNote PROVE HandoffInv'
<1>1. /\ UNCHANGED <<Handoff!brokerVars, Handoff!companionVars, Handoff!inVars, Handoff!outVars, saved, todo, seen>> /\ pc' = "save"
  BY DEF Handoff!UploadNote
<1>2. CASE UNCHANGED <<uploads, work, used>>
  <2>1. HandoffJournalOK(work)'
    BY <1>1, <1>2 DEF HandoffInv, HandoffJournalOK, DeliveryOK, Behind, UploadInk, Handoff!brokerVars
  <2> QED
    BY <1>1, <1>2, <2>1, OutStep DEF HandoffInv, HandoffBrokerOK, CompanionOK, InkOK, Handoff!outVars
<1>3. CASE ~UNCHANGED <<uploads, work, used>>
  <2>1. PICK u :
           /\ u = [side |-> "supernote", based |-> work.rev, rev |-> work.rev.supernote + 1,
                   ink |-> {20 + used.note}, artifact |-> None]
           /\ uploads' = uploads \cup {u} /\ work' = [work EXCEPT !.note = u.rev]
           /\ used' = [used EXCEPT !.note = @ + 1]
    BY <1>3 DEF Handoff!UploadNote, Handoff!Count
  <2>2. used \in [boox : Nat, note : Nat, late : Nat, crashes : Nat, drops : Nat, losses : Nat]
    BY DEF HandoffInv, CompanionOK
  <2>3. HandoffUploadOK(u)
    BY <2>1, <2>2 DEF HandoffUploadOK, HandoffInv, HandoffJournalOK, Sides
  <2>4. /\ DOMAIN work' = DOMAIN work /\ work'.rev = work.rev /\ work'.generations = work.generations
        /\ work'.pending = work.pending /\ work'.accepted = work.accepted /\ work'.receipt = work.receipt
    BY <2>1 DEF HandoffInv, HandoffJournalOK
  <2>5. HandoffJournalOK(work)'
    <3>1. UploadInk \subseteq UploadInk'
      BY <2>1 DEF UploadInk, Handoff!InkOf
    <3> QED
      BY <1>1, <2>1, <2>4, <3>1 DEF HandoffInv, HandoffJournalOK, DeliveryOK, Behind, Handoff!brokerVars
  <2>6. /\ used' \in [boox : Nat, note : Nat, late : Nat, crashes : Nat, drops : Nat, losses : Nat]
        /\ used'.boox = used.boox /\ used'.late = used.late /\ used'.drops = used.drops
    BY <2>1, <2>2
  <2> QED
    BY <1>1, <2>1, <2>3, <2>4, <2>5, <2>6, OutStep DEF HandoffInv, HandoffBrokerOK, InkOK, Handoff!outVars
<1> QED
  BY <1>2, <1>3
-----------------------------------------------------------------------------
(* Every step of the handoff. *)
LEMMA NextHandoff == ASSUME Handoff!HandoffAssumption, HandoffInv, [Handoff!Next]_(Handoff!vars) PROVE HandoffInv'
<1>1. CASE UNCHANGED Handoff!vars
  <2>1. UNCHANGED <<Handoff!brokerVars, uploads, Handoff!pollVars, noted>>
    BY <1>1 DEF Handoff!vars, Handoff!inVars
  <2>2. FilesOK'
    BY <1>1, <2>1, CompanionStill DEF HandoffInv, FilesOK, Handoff!vars, Handoff!inVars,
       Handoff!outVars, Handoff!companionVars
  <2>3. CompanionOK'
    BY <1>1, <2>1, CompanionStill DEF HandoffInv, CompanionOK, Shown, Handoff!vars,
       Handoff!companionVars, Handoff!pollVars
  <2>4. OrderOK' /\ PairOK(saved)' /\ PairOK(work)'
    BY <1>1 DEF HandoffInv, OrderOK, PairOK, Older, Shown, Handoff!vars, Handoff!companionVars,
       Handoff!pollVars, Handoff!inVars
  <2>5. InkOK'
    BY <1>1 DEF HandoffInv, InkOK, Handoff!Drawn, KeptInk, PdfsSending, UploadInk, Handoff!vars,
       Handoff!companionVars, Handoff!outVars
  <2> QED
    BY <2>1, <2>2, <2>3, <2>4, <2>5, CompanionStep
<1>2. CASE Handoff!Poll
  BY <1>2, BeginPollKeepsHandoff, ReadAckKeepsHandoff, ListViewsKeepsHandoff, VerifyAckKeepsHandoff,
     DeliverKeepsHandoff, RecoverKeepsHandoff,
     FinishRetirementKeepsHandoff, RetireKeepsHandoff, UploadArtifactKeepsHandoff, EndLoopKeepsHandoff, UploadNoteKeepsHandoff, SaveKeepsHandoff DEF Handoff!Poll
<1>3. CASE Handoff!Companion
  BY <1>3, FinalizeKeepsHandoff, AcknowledgeKeepsHandoff, InstallKeepsHandoff DEF Handoff!Companion
<1>4. CASE Handoff!BooxEdit \/ Handoff!LateEdit \/ Handoff!Drop \/ Handoff!Crash \/ Handoff!LoseCheckpoint
  BY <1>4, BooxEditKeepsHandoff, LateEditKeepsHandoff, DropKeepsHandoff, CrashKeepsHandoff,
     LoseCheckpointKeepsHandoff
<1> QED
  BY <1>1, <1>2, <1>3, <1>4, MirrorKeepsHandoff, ProcessKeepsHandoff, ResolveKeepsHandoff DEF Handoff!Next

(* It holds in every state, for any number of edits, late edits, crashes and
   lost files or checkpoints. *)
THEOREM HandoffInvariance == ASSUME Handoff!HandoffAssumption PROVE Handoff!Spec => []HandoffInv
  BY InitHandoff, NextHandoff, PTL DEF Handoff!Spec

(* The handoff directories, the journal and the broker's objects keep their
   types. *)
THEOREM HandoffTypes == ASSUME Handoff!HandoffAssumption PROVE Handoff!Spec => []Handoff!TypeOK
<1>1. HandoffInv => Handoff!TypeOK
  BY DEF HandoffInv
<1> QED
  BY <1>1, HandoffInvariance, PTL

(* retire_accepted_artifact and the companion's installation: a stroke drawn on
   the BOOX is in the active PDF, in an artifact that is not retired, or in the
   store, whatever the companion installs and wherever the transport dies. *)
THEOREM NothingDrawnLost == ASSUME Handoff!HandoffAssumption PROVE Handoff!Spec => []Handoff!BooxInkKept
<1>1. ASSUME HandoffInv PROVE Handoff!BooxInkKept
  <2>1. KeptInk \subseteq Handoff!InkOf({f.of : f \in sending} \cup (outPdf \ markers)) \cup UploadInk
    BY <1>1 DEF KeptInk, Handoff!InkOf, PdfsSending, HandoffInv, InkOK
  <2> QED
    BY <1>1, <2>1 DEF HandoffInv, InkOK, Handoff!BooxInkKept, UploadInk
<1> QED
  BY <1>1, HandoffInvariance, PTL

(* retire_superseded_incoming: the pair of the acknowledged view stays in
   incoming/ while the transport's receipt is that acknowledgement and the mirror
   loses nothing. *)
THEOREM RecoveryPair == ASSUME Handoff!HandoffAssumption PROVE Handoff!Spec => []Handoff!RecoveryPairKept
<1>1. HandoffInv => Handoff!RecoveryPairKept
  BY DEF HandoffInv, PairOK, Handoff!RecoveryPairKept
<1> QED
  BY <1>1, HandoffInvariance, PTL

(* The frontier of a journal, the saved one and the one a poll works with, covers
   the installation it has a receipt of, also one rebuilt from the acknowledgement
   after the checkpoint was lost. *)
THEOREM FrontierCovers == ASSUME Handoff!HandoffAssumption PROVE Handoff!Spec => []Handoff!FrontierCoversReceipt
<1>1. HandoffInv => Handoff!FrontierCoversReceipt
  BY DEF HandoffInv, HandoffJournalOK, Handoff!FrontierCoversReceipt
<1> QED
  BY <1>1, HandoffInvariance, PTL
===============================================================================
