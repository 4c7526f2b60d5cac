----------------------------- MODULE SpreadProofs -----------------------------
(***************************************************************************)
(* Machine-checked theorems about virtual-spread views. SpreadRegeneration,*)
(* for any views, page lists, revisions and hashes, and from any record    *)
(* that validates: validate_persisted accepts whatever an operation leaves *)
(* behind, an activated view is justified by its evidence, and evidence is *)
(* never replaced. SpreadCache, in the second part, for any publishers,    *)
(* bytes, directories, deaths, losses of power and failing calls: the      *)
(* published name never holds a torn or mixed pair, what a publisher was   *)
(* told is on the disk, a published view is never changed, and publishers  *)
(* that agree succeed.                                                     *)
(***************************************************************************)
EXTENDS SpreadRegeneration, TLAPS

(* validate_persisted is itself the inductive invariant of a transaction that
   has begun; before that the record is the unbegun one. *)
TransactionInv == TypeOK /\ ReloadAccepts /\ (~live => tx = Unbegun)

Begins ==
    \E mode \in {"Clean", "Dirty"}, previous \in Views \cup {None}, revision \in Revisions \cup {None} :
        Begin(mode, previous, revision)

(* The fields of a record of the right type. *)
LEMMA Fields ==
    ASSUME NEW t \in Records
    PROVE  /\ t.mode \in {"Clean", "Dirty"} /\ t.phase \in Phases /\ t.previous \in Views \cup {None}
           /\ t.revision \in Revisions \cup {None} /\ t.export \in Exports \cup {None}
           /\ t.hydration \in Hydrations \cup {None} /\ t.verification \in Verifications \cup {None}
           /\ t.rollback \in Rollbacks \cup {None} /\ t.active \in BOOLEAN
  BY DEF Records

(* A new transaction is a record. *)
LEMMA UnbegunType == Unbegun \in Records
  BY DEF Unbegun, Records, Phases

(* Before it begins, or read back from the disk. *)
LEMMA InitTransaction == ASSUME Init PROVE TransactionInv
  BY UnbegunType DEF Init, TransactionInv, TypeOK, ReloadAccepts

(* Each operation leaves a record that validates. *)
LEMMA BeginKeeps == ASSUME RegenerationAssumption, TransactionInv, Begins PROVE TransactionInv'
<1>1. PICK mode \in {"Clean", "Dirty"}, previous \in Views \cup {None}, revision \in Revisions \cup {None} :
          Begin(mode, previous, revision)
  BY DEF Begins
<1>2. /\ previous # None => Versioned(previous)
      /\ mode = "Dirty" => previous # None /\ revision = None
      /\ mode = "Clean" => revision # None
      /\ live' = TRUE
  BY <1>1 DEF Begin
<1>3. tx' = [mode |-> mode, phase |-> IF revision # None THEN "AwaitingGeneration" ELSE "AwaitingDirtyExport",
             previous |-> previous, revision |-> revision, export |-> None, hydration |-> None,
             verification |-> None, rollback |-> None, active |-> FALSE]
  BY <1>1 DEF Begin, Unbegun
<1>4. tx' \in Records
  BY <1>3 DEF Records, Phases
<1>5. EvidenceBound(tx')
  BY <1>2, <1>3 DEF EvidenceBound
<1>6. ModeFits(tx')
  BY <1>2, <1>3 DEF ModeFits
<1>7. PhaseFits(tx')
  <2>1. CASE revision # None
    BY <1>3, <2>1 DEF PhaseFits, NoneOf
  <2>2. CASE revision = None
    BY <1>2, <1>3, <2>2 DEF PhaseFits, NoneOf
  <2> QED
    BY <2>1, <2>2
<1> QED
  BY <1>2, <1>4, <1>5, <1>6, <1>7 DEF TransactionInv, TypeOK, ReloadAccepts, ValidatePersisted

LEMMA ExportKeeps ==
    ASSUME RegenerationAssumption, TransactionInv, NEW e \in Exports, RecordDirtyExport(e)
    PROVE  TransactionInv'
<1>1. /\ tx \in Records /\ live /\ live' = live /\ ValidatePersisted(tx)
      /\ tx.phase = "AwaitingDirtyExport" /\ ExportFits(tx, e)
      /\ tx' = [tx EXCEPT !.revision = e.revision, !.export = e, !.phase = "AwaitingGeneration"]
  BY DEF TransactionInv, TypeOK, ReloadAccepts, RecordDirtyExport
<1>2. /\ tx.previous # None /\ ~tx.active
      /\ tx.hydration = None /\ tx.verification = None /\ tx.rollback = None
      /\ tx.mode = "Dirty" /\ Versioned(tx.previous)
  BY <1>1, Fields DEF ValidatePersisted, PhaseFits, NoneOf, ModeFits, EvidenceBound
<1>3. /\ tx'.mode = "Dirty" /\ tx'.phase = "AwaitingGeneration" /\ tx'.previous = tx.previous
      /\ tx'.revision = e.revision /\ tx'.export = e /\ tx'.hydration = None
      /\ tx'.verification = None /\ tx'.rollback = None /\ ~tx'.active /\ tx' \in Records
  BY <1>1, <1>2 DEF Records, Phases, Exports
<1>4. e # None /\ e.revision # None /\ e.active_view = tx.previous
  BY <1>1 DEF RegenerationAssumption, Exports, ExportFits
<1>5. EvidenceBound(tx')
  BY <1>2, <1>3, <1>4 DEF EvidenceBound, ExportFits
<1>6. ModeFits(tx')
  BY <1>2, <1>3, <1>4 DEF ModeFits
<1>7. PhaseFits(tx')
  BY <1>3, <1>4 DEF PhaseFits, NoneOf
<1> QED
  BY <1>1, <1>3, <1>5, <1>6, <1>7 DEF TransactionInv, TypeOK, ReloadAccepts, ValidatePersisted

LEMMA GeneratedKeeps ==
    ASSUME RegenerationAssumption, TransactionInv, NEW v \in Views, RecordGenerated(v)
    PROVE  TransactionInv'
<1>1. /\ tx \in Records /\ live /\ live' = live /\ ValidatePersisted(tx)
      /\ tx.phase = "AwaitingGeneration" /\ tx' = [tx EXCEPT !.phase = "AwaitingHydration"]
  BY DEF TransactionInv, TypeOK, ReloadAccepts, RecordGenerated
<1>2. /\ tx'.phase = "AwaitingHydration" /\ tx' \in Records
      /\ \A f \in {"mode", "previous", "revision", "export", "hydration", "verification", "rollback", "active"} :
           tx'[f] = tx[f]
  BY <1>1 DEF Records, Phases
<1>3. EvidenceBound(tx')
  BY <1>1, <1>2 DEF ValidatePersisted, EvidenceBound, ExportFits,
     HydrationFits, VerificationFits, RollbackFits
<1>4. ModeFits(tx')
  BY <1>1, <1>2, Fields DEF ValidatePersisted, ModeFits
<1>5. PhaseFits(tx')
  BY <1>1, <1>2 DEF ValidatePersisted, PhaseFits, NoneOf
<1> QED
  BY <1>1, <1>2, <1>3, <1>4, <1>5 DEF TransactionInv, TypeOK, ReloadAccepts, ValidatePersisted

LEMMA HydrationKeeps ==
    ASSUME RegenerationAssumption, TransactionInv, NEW e \in Hydrations, RecordHydration(e)
    PROVE  TransactionInv'
<1>1. /\ tx \in Records /\ live /\ live' = live /\ ValidatePersisted(tx)
      /\ tx.phase = "AwaitingHydration" /\ HydrationFits(tx, e)
      /\ tx' = [tx EXCEPT !.hydration = e, !.phase = "AwaitingVerification"]
  BY DEF TransactionInv, TypeOK, ReloadAccepts, RecordHydration
<1>2. /\ tx'.phase = "AwaitingVerification" /\ tx'.hydration = e /\ tx' \in Records
      /\ \A f \in {"mode", "previous", "revision", "export", "verification", "rollback", "active"} :
           tx'[f] = tx[f]
  BY <1>1 DEF Records, Phases
<1>3. e # None /\ tx.verification = None /\ tx.rollback = None /\ ~tx.active
  BY <1>1 DEF RegenerationAssumption, ValidatePersisted, PhaseFits, NoneOf
<1>4. EvidenceBound(tx')
  BY <1>1, <1>2, <1>3 DEF ValidatePersisted, EvidenceBound, ExportFits, HydrationFits
<1>5. ModeFits(tx')
  BY <1>1, <1>2, Fields DEF ValidatePersisted, ModeFits
<1>6. PhaseFits(tx')
  BY <1>2, <1>3 DEF PhaseFits, NoneOf
<1> QED
  BY <1>1, <1>2, <1>4, <1>5, <1>6 DEF TransactionInv, TypeOK, ReloadAccepts, ValidatePersisted

LEMMA VerificationKeeps ==
    ASSUME RegenerationAssumption, TransactionInv, NEW e \in Verifications, NEW r \in Rollbacks,
           RecordVerification(e, r)
    PROVE  TransactionInv'
<1>1. /\ tx \in Records /\ live /\ live' = live /\ ValidatePersisted(tx)
      /\ tx.phase = "AwaitingVerification" /\ VerificationFits(tx, e) /\ RollbackFits(tx, r)
      /\ tx' = [tx EXCEPT !.verification = e, !.rollback = r, !.phase = "ReadyToActivate"]
  BY DEF TransactionInv, TypeOK, ReloadAccepts, RecordVerification
<1>2. /\ tx'.phase = "ReadyToActivate" /\ tx'.verification = e /\ tx'.rollback = r /\ tx' \in Records
      /\ \A f \in {"mode", "previous", "revision", "export", "hydration", "active"} : tx'[f] = tx[f]
  BY <1>1 DEF Records, Phases
<1>3. e # None /\ r # None /\ ~tx.active
  BY <1>1 DEF RegenerationAssumption, ValidatePersisted, PhaseFits
<1>4. EvidenceBound(tx')
  BY <1>1, <1>2 DEF ValidatePersisted, EvidenceBound, ExportFits,
     HydrationFits, VerificationFits, RollbackFits
<1>5. ModeFits(tx')
  BY <1>1, <1>2, Fields DEF ValidatePersisted, ModeFits
<1>6. PhaseFits(tx')
  BY <1>2, <1>3 DEF PhaseFits
<1> QED
  BY <1>1, <1>2, <1>4, <1>5, <1>6 DEF TransactionInv, TypeOK, ReloadAccepts, ValidatePersisted

LEMMA CommitKeeps ==
    ASSUME RegenerationAssumption, TransactionInv, CommitActivation
    PROVE  TransactionInv'
<1>1. /\ tx \in Records /\ live /\ live' = live /\ ValidatePersisted(tx)
      /\ tx.phase = "ReadyToActivate" /\ tx.rollback # None /\ tx.verification # None
      /\ tx' = [tx EXCEPT !.active = TRUE, !.phase = "Activated"]
  BY DEF TransactionInv, TypeOK, ReloadAccepts, CommitActivation
<1>2. /\ tx'.phase = "Activated" /\ tx'.active = TRUE /\ tx' \in Records
      /\ \A f \in {"mode", "previous", "revision", "export", "hydration", "verification", "rollback"} :
           tx'[f] = tx[f]
  BY <1>1 DEF Records, Phases
<1>3. EvidenceBound(tx')
  BY <1>1, <1>2 DEF ValidatePersisted, EvidenceBound, ExportFits,
     HydrationFits, VerificationFits, RollbackFits
<1>4. ModeFits(tx')
  BY <1>1, <1>2, Fields DEF ValidatePersisted, ModeFits
<1>5. PhaseFits(tx')
  BY <1>1, <1>2 DEF PhaseFits
<1> QED
  BY <1>1, <1>2, <1>3, <1>4, <1>5 DEF TransactionInv, TypeOK, ReloadAccepts, ValidatePersisted

(* Whatever the phase it ends, a transaction that is rolled back still
   validates: it has an export exactly if it has a revision of its own. *)
LEMMA RollbackKeeps ==
    ASSUME RegenerationAssumption, TransactionInv, Rollback
    PROVE  TransactionInv'
<1>1. /\ tx \in Records /\ live /\ live' = live /\ ValidatePersisted(tx)
      /\ tx.phase \notin {"Activated", "RolledBack"} /\ tx' = [tx EXCEPT !.phase = "RolledBack"]
  BY DEF TransactionInv, TypeOK, ReloadAccepts, Rollback
<1>2. /\ tx'.phase = "RolledBack" /\ tx' \in Records
      /\ \A f \in {"mode", "previous", "revision", "export", "hydration", "verification", "rollback", "active"} :
           tx'[f] = tx[f]
  BY <1>1 DEF Records, Phases
<1>3. EvidenceBound(tx')
  BY <1>1, <1>2 DEF ValidatePersisted, EvidenceBound, ExportFits,
     HydrationFits, VerificationFits, RollbackFits
<1>4. tx.mode = "Dirty" => (tx.revision # None) = (tx.export # None)
  <2>1. CASE tx.phase = "AwaitingDirtyExport"
    BY <1>1, <2>1 DEF ValidatePersisted, PhaseFits, NoneOf
  <2>2. CASE tx.phase # "AwaitingDirtyExport"
    BY <1>1, <2>2 DEF ValidatePersisted, ModeFits
  <2> QED
    BY <2>1, <2>2
<1>5. ModeFits(tx')
  BY <1>1, <1>2, <1>4, Fields DEF ValidatePersisted, ModeFits
<1>6. ~tx.active
  BY <1>1, Fields DEF ValidatePersisted, PhaseFits, Phases
<1>7. PhaseFits(tx')
  BY <1>2, <1>6 DEF PhaseFits
<1> QED
  BY <1>1, <1>2, <1>3, <1>5, <1>7 DEF TransactionInv, TypeOK, ReloadAccepts, ValidatePersisted

(* Together: every step keeps a begun transaction valid. *)
LEMMA NextTransaction ==
    ASSUME RegenerationAssumption, TransactionInv, [Next]_vars PROVE TransactionInv'
<1>1. ASSUME Over \/ UNCHANGED vars PROVE TransactionInv'
  BY <1>1 DEF Over, vars, TransactionInv, TypeOK, ReloadAccepts
<1> QED
  BY <1>1, BeginKeeps, ExportKeeps, GeneratedKeeps, HydrationKeeps, VerificationKeeps, CommitKeeps, RollbackKeeps
  DEF Next, Begins

(* The inductive invariant: a begun transaction validates. *)
THEOREM TransactionInvariance == ASSUME RegenerationAssumption PROVE Spec => []TransactionInv
  BY InitTransaction, NextTransaction, PTL DEF Spec

(* Types of the persisted transaction. *)
THEOREM TransactionTypes == ASSUME RegenerationAssumption PROVE Spec => []TypeOK
<1>1. TransactionInv => TypeOK
  BY DEF TransactionInv
<1> QED
  BY <1>1, TransactionInvariance, PTL

(* Whatever an operation leaves behind, validate_persisted accepts: no phase
   strands its own record. *)
THEOREM Reload == ASSUME RegenerationAssumption PROVE Spec => []ReloadAccepts
<1>1. TransactionInv => ReloadAccepts
  BY DEF TransactionInv
<1> QED
  BY <1>1, TransactionInvariance, PTL

(* An activated view, also one whose transaction was read back half-way, is
   the candidate, hydrated and verified at one canonical revision, with the
   replaced view to go back to. *)
THEOREM Activation == ASSUME RegenerationAssumption PROVE Spec => []ActivationJustified
<1>1. ASSUME TransactionInv PROVE ActivationJustified
  <2> SUFFICES ASSUME tx.phase = "Activated" PROVE ActivationJustified
    BY DEF ActivationJustified
  <2>1. live /\ tx \in Records /\ ValidatePersisted(tx)
    BY <1>1 DEF TransactionInv, Unbegun, ReloadAccepts, TypeOK
  <2>2. tx.verification # None /\ tx.rollback # None
    BY <2>1 DEF ValidatePersisted, PhaseFits
  <2>3. VerificationFits(tx, tx.verification) /\ RollbackFits(tx, tx.rollback)
    BY <2>1, <2>2 DEF ValidatePersisted, EvidenceBound
  <2>4. tx.hydration # None /\ HydrationFits(tx, tx.hydration)
    BY <2>1, <2>3 DEF ValidatePersisted, EvidenceBound, VerificationFits
  <2>5. tx.previous # Candidate
    BY <2>1 DEF RegenerationAssumption, ValidatePersisted, EvidenceBound, Versioned
  <2>6. tx.mode = "Dirty" => /\ tx.export # None /\ tx.export.active_view = tx.previous
                             /\ tx.export.revision = tx.revision
    BY <2>1 DEF ValidatePersisted, ModeFits, EvidenceBound, ExportFits
  <2> QED
    BY <2>2, <2>3, <2>4, <2>5, <2>6 DEF ActivationJustified, VerificationFits, RollbackFits, HydrationFits
<1> QED
  BY <1>1, TransactionInvariance, PTL

(* The canonical revision of a transaction, once set, and the evidence
   recorded for it are never replaced. *)
THEOREM Evidence == ASSUME RegenerationAssumption PROVE Spec => EvidenceStands
<1> DEFINE Kept == {"revision", "export", "hydration", "verification", "rollback"}
<1>1. ASSUME TransactionInv, [Next]_vars, live PROVE \A f \in Kept : tx[f] # None => tx'[f] = tx[f]
  <2>1. tx \in Records /\ ValidatePersisted(tx)
    BY <1>1 DEF TransactionInv, TypeOK, ReloadAccepts
  <2>2. ASSUME NEW e \in Exports, RecordDirtyExport(e) PROVE \A f \in Kept : tx[f] # None => tx'[f] = tx[f]
    <3>1. tx.revision = None /\ tx.export = None
      BY <2>1, <2>2 DEF RecordDirtyExport, ValidatePersisted, PhaseFits, NoneOf
    <3>2. \A f \in Kept \ {"revision", "export"} : tx'[f] = tx[f]
      BY <2>1, <2>2 DEF RecordDirtyExport, Records
    <3> QED
      BY <3>1, <3>2
  <2>3. ASSUME NEW e \in Hydrations, RecordHydration(e) PROVE \A f \in Kept : tx[f] # None => tx'[f] = tx[f]
    <3>1. tx.hydration = None
      BY <2>1, <2>3 DEF RecordHydration, ValidatePersisted, PhaseFits, NoneOf
    <3>2. \A f \in Kept \ {"hydration"} : tx'[f] = tx[f]
      BY <2>1, <2>3 DEF RecordHydration, Records
    <3> QED
      BY <3>1, <3>2
  <2>4. ASSUME NEW e \in Verifications, NEW r \in Rollbacks,
           RecordVerification(e, r)
        PROVE  \A f \in Kept : tx[f] # None => tx'[f] = tx[f]
    <3>1. tx.verification = None /\ tx.rollback = None
      BY <2>1, <2>4 DEF RecordVerification, ValidatePersisted, PhaseFits, NoneOf
    <3>2. \A f \in Kept \ {"verification", "rollback"} : tx'[f] = tx[f]
      BY <2>1, <2>4 DEF RecordVerification, Records
    <3> QED
      BY <3>1, <3>2
  <2>5. ASSUME (\E v \in Views : RecordGenerated(v)) \/ CommitActivation \/ Rollback
        PROVE  \A f \in Kept : tx'[f] = tx[f]
    BY <2>1, <2>5 DEF RecordGenerated, CommitActivation, Rollback, Records
  <2>6. ~Begins
    BY <1>1 DEF Begins, Begin
  <2>7. ASSUME Over \/ UNCHANGED vars PROVE tx' = tx
    BY <2>7 DEF Over, vars
  <2> QED
    BY <1>1, <2>2, <2>3, <2>4, <2>5, <2>6, <2>7 DEF Next, Begins
<1>2. ASSUME TransactionInv, [Next]_vars PROVE [EvidenceStandsStep]_vars
  BY <1>1, <1>2 DEF EvidenceStandsStep
<1> QED
  BY <1>2, TransactionInvariance, PTL DEF Spec, EvidenceStands
-----------------------------------------------------------------------------
(* The cache of published views: SpreadCache.  A loss of power may bring back
   any entry in possible, so the invariant speaks of all of them: whatever name
   was ever published and may come back points to a whole, synced directory
   (PublishedOK), and while the user has not removed it there is one such
   directory only (OneFinal).  Whoever holds the lock alone knows more
   (WorkOK). *)
CONSTANTS Procs, Bytes, MaxDirs, MaxDeaths, MaxLosses, MaxErrors, MaxDetaches
VARIABLES pc, pinned, holder, docDir, entry, possible, files, synced, detached, deaths, losses, errors

Cache == INSTANCE SpreadCache

Critical == {"clean", "cleaned", "look", "write", "rename", "renamed", "verify", "attached",
             "failing"}

(* One process at a time publishes. *)
LockOK == \A p \in Procs : pc[p] \in Critical <=> holder = p

(* Whoever has passed the sync of the document's directory will find it. *)
DocOK == \A p \in Procs : pc[p] \in Critical \cup {"lock", "ok"} => docDir = "synced"

(* What may be published after a loss of power is whole, on the disk, and not
   what is being staged. *)
PublishedOK ==
    \A e \in possible :
        /\ e.final # None => e.final \in synced /\ \E p \in Procs : Cache!Complete(e.final, Bytes[p])
        /\ e.stage # None => e.stage # e.final
        /\ entry.stage # None => entry.stage # e.final

OneFinal == ~detached => \A e \in possible : e.final \in {None, entry.final}

(* What a publisher knows of the directory it holds open. *)
WorkOK ==
    \A p \in Procs :
        /\ pc[p] \in {"write", "rename"} =>
               pinned[p] # None /\ pinned[p] = entry.stage /\ entry.final = None
        /\ pc[p] \in {"rename", "renamed", "verify", "attached"} =>
               pinned[p] \in synced /\ Cache!Complete(pinned[p], Bytes[p])
        /\ pc[p] \in {"renamed", "verify", "attached"} =>
               pinned[p] # None /\ (~detached => entry.final = pinned[p])
        /\ pc[p] \in {"verify", "attached"} /\ ~detached => possible = {entry}

(* Without errors and rivals nobody fails. *)
AgreedOK ==
    errors = 0 /\ ~detached /\ (\A p, q \in Procs : Bytes[p] = Bytes[q]) =>
        \A p \in Procs : pc[p] \notin {"failing", "failed"}

CacheInv ==
    /\ Cache!TypeOK /\ errors \in Nat
    /\ LockOK /\ DocOK /\ PublishedOK /\ OneFinal /\ WorkOK /\ Cache!AnswerIsDurable /\ AgreedOK
---------------------------------------------------------------------------
(* An answer stays true while nothing that was published is touched. *)
LEMMA AnswersStay ==
  ASSUME Cache!AnswerIsDurable, detached' = detached, docDir = "synced" => docDir' = "synced",
         \A p \in Procs : pc'[p] = "ok" => pc[p] = "ok",
         \A e \in possible' : \E c \in possible : c.final = e.final,
         \A e \in possible : e.final # None /\ e.final \in synced =>
             e.final \in synced' /\ files'[e.final] = files[e.final]
  PROVE  Cache!AnswerIsDurable'
<1> SUFFICES ASSUME NEW p \in Procs, pc'[p] = "ok", ~detached'
             PROVE  docDir' = "synced" /\ \A e \in possible' :
                        e.final # None /\ Cache!Complete(e.final, Bytes[p])' /\ e.final \in synced'
  BY DEF Cache!AnswerIsDurable
<1>1. docDir = "synced" /\ \A e \in possible :
          e.final # None /\ Cache!Complete(e.final, Bytes[p]) /\ e.final \in synced
  BY DEF Cache!AnswerIsDurable
<1> QED
  BY <1>1 DEF Cache!Complete

(* It finds or makes the directory of the document. *)
LEMMA OpenComponentKeeps ==
  ASSUME Cache!SpreadCacheAssumption, CacheInv, NEW p \in Procs, Cache!OpenComponent(p)
  PROVE  CacheInv'
<1> USE DEF CacheInv, Cache!TypeOK, Cache!OpenComponent, Cache!Go, Cache!disk, Cache!faults, Critical, Cache!SpreadCacheAssumption
<1>1. Cache!TypeOK' /\ errors' \in Nat
  OBVIOUS
<1>2. LockOK' /\ DocOK' /\ OneFinal' /\ AgreedOK'
  BY DEF LockOK, DocOK, OneFinal, AgreedOK
<1>3. PublishedOK'
  BY DEF PublishedOK, WorkOK, Cache!Complete
<1>4. WorkOK'
  BY DEF WorkOK, LockOK, Cache!Complete
<1>5. Cache!AnswerIsDurable'
  BY DEF Cache!AnswerIsDurable, DocOK, Cache!Complete
<1> QED
  BY <1>1, <1>2, <1>3, <1>4, <1>5

(* The directory of the document reaches the disk. *)
LEMMA SyncComponentKeeps ==
  ASSUME Cache!SpreadCacheAssumption, CacheInv, NEW p \in Procs, Cache!SyncComponent(p)
  PROVE  CacheInv'
<1> USE DEF CacheInv, Cache!TypeOK, Cache!SyncComponent, Cache!Go, Cache!disk, Cache!faults, Critical, Cache!SpreadCacheAssumption
<1>1. Cache!TypeOK' /\ errors' \in Nat
  OBVIOUS
<1>2. LockOK' /\ DocOK' /\ OneFinal' /\ AgreedOK'
  BY DEF LockOK, DocOK, OneFinal, AgreedOK
<1>3. PublishedOK'
  BY DEF PublishedOK, WorkOK, Cache!Complete
<1>4. WorkOK'
  BY DEF WorkOK, LockOK, Cache!Complete
<1>5. Cache!AnswerIsDurable'
  BY DEF Cache!AnswerIsDurable, DocOK, Cache!Complete
<1> QED
  BY <1>1, <1>2, <1>3, <1>4, <1>5

(* One publisher goes on. *)
LEMMA LockKeeps ==
  ASSUME Cache!SpreadCacheAssumption, CacheInv, NEW p \in Procs, Cache!Lock(p)
  PROVE  CacheInv'
<1> USE DEF CacheInv, Cache!TypeOK, Cache!Lock, Cache!Go, Cache!disk, Cache!faults, Critical, Cache!SpreadCacheAssumption
<1>1. Cache!TypeOK' /\ errors' \in Nat
  OBVIOUS
<1>2. LockOK' /\ DocOK' /\ OneFinal' /\ AgreedOK'
  BY DEF LockOK, DocOK, OneFinal, AgreedOK
<1>3. PublishedOK'
  BY DEF PublishedOK, WorkOK, Cache!Complete
<1>4. WorkOK'
  BY DEF WorkOK, LockOK, Cache!Complete
<1>5. Cache!AnswerIsDurable'
  BY AnswersStay
<1> QED
  BY <1>1, <1>2, <1>3, <1>4, <1>5

(* What an earlier attempt staged loses its name, and its directory is no published one. *)
LEMMA RemoveStagedKeeps ==
  ASSUME Cache!SpreadCacheAssumption, CacheInv, NEW p \in Procs, Cache!RemoveStaged(p)
  PROVE  CacheInv'
<1> USE DEF CacheInv, Cache!TypeOK, Cache!RemoveStaged, Cache!Go, Cache!disk, Cache!faults, Critical, Cache!SpreadCacheAssumption
<1>1. Cache!TypeOK' /\ errors' \in Nat
  OBVIOUS
<1>2. LockOK' /\ DocOK' /\ OneFinal' /\ AgreedOK'
  BY DEF LockOK, DocOK, OneFinal, AgreedOK
<1>3. PublishedOK'
  BY DEF PublishedOK, WorkOK, Cache!Complete
<1>4. WorkOK'
  BY DEF WorkOK, LockOK, Cache!Complete
<1>5. Cache!AnswerIsDurable'
  <2>1. \A e \in possible' : \E c \in possible : c.final = e.final
    OBVIOUS
  <2> QED
    BY <2>1, AnswersStay
<1> QED
  BY <1>1, <1>2, <1>3, <1>4, <1>5

(* There is nothing to clear away. *)
LEMMA NothingStagedKeeps ==
  ASSUME Cache!SpreadCacheAssumption, CacheInv, NEW p \in Procs, Cache!NothingStaged(p)
  PROVE  CacheInv'
<1> USE DEF CacheInv, Cache!TypeOK, Cache!NothingStaged, Cache!Go, Cache!disk, Cache!faults, Critical, Cache!SpreadCacheAssumption
<1>1. Cache!TypeOK' /\ errors' \in Nat
  OBVIOUS
<1>2. LockOK' /\ DocOK' /\ OneFinal' /\ AgreedOK'
  BY DEF LockOK, DocOK, OneFinal, AgreedOK
<1>3. PublishedOK'
  BY DEF PublishedOK, WorkOK, Cache!Complete
<1>4. WorkOK'
  BY DEF WorkOK, LockOK, Cache!Complete
<1>5. Cache!AnswerIsDurable'
  BY AnswersStay
<1> QED
  BY <1>1, <1>2, <1>3, <1>4, <1>5

(* The removal reaches the disk, and with it whatever the entry now says. *)
LEMMA SyncRemovalKeeps ==
  ASSUME Cache!SpreadCacheAssumption, CacheInv, NEW p \in Procs, Cache!SyncRemoval(p)
  PROVE  CacheInv'
<1> USE DEF CacheInv, Cache!TypeOK, Cache!SyncRemoval, Cache!Go, Cache!Fsync, Cache!disk, Cache!faults, Critical, Cache!SpreadCacheAssumption
<1>1. Cache!TypeOK' /\ errors' \in Nat
  OBVIOUS
<1>2. LockOK' /\ DocOK' /\ OneFinal' /\ AgreedOK'
  BY DEF LockOK, DocOK, OneFinal, AgreedOK
<1>3. PublishedOK'
  BY DEF PublishedOK, WorkOK, Cache!Complete
<1>4. WorkOK'
  BY DEF WorkOK, LockOK, Cache!Complete
<1>5. Cache!AnswerIsDurable'
  <2>1. \A e \in possible' : \E c \in possible : c.final = e.final
    OBVIOUS
  <2> QED
    BY <2>1, AnswersStay
<1> QED
  BY <1>1, <1>2, <1>3, <1>4, <1>5

(* The published pair is already the wanted one. *)
LEMMA AcceptKeeps ==
  ASSUME Cache!SpreadCacheAssumption, CacheInv, NEW p \in Procs, Cache!Accept(p)
  PROVE  CacheInv'
<1> USE DEF CacheInv, Cache!TypeOK, Cache!Accept, Cache!Go, Cache!Fsync, Cache!disk, Cache!faults, Critical, Cache!SpreadCacheAssumption
<1>1. Cache!TypeOK' /\ errors' \in Nat
  OBVIOUS
<1>2. LockOK' /\ DocOK' /\ OneFinal' /\ AgreedOK'
  BY DEF LockOK, DocOK, OneFinal, AgreedOK
<1>3. PublishedOK'
  BY DEF PublishedOK, WorkOK, Cache!Complete
<1>4. WorkOK'
  <2>1. entry.final \in synced /\ holder = p /\ \A q \in Procs : pc[q] \in Critical => q = p
    BY DEF PublishedOK, LockOK
  <2> QED
    BY <2>1 DEF WorkOK, Cache!Complete
<1>5. Cache!AnswerIsDurable'
  <2>1. \A e \in possible' : \E c \in possible : c.final = e.final
    OBVIOUS
  <2> QED
    BY <2>1, AnswersStay
<1> QED
  BY <1>1, <1>2, <1>3, <1>4, <1>5

(* The published pair is another one: that of a rival. *)
LEMMA RefuseKeeps ==
  ASSUME Cache!SpreadCacheAssumption, CacheInv, NEW p \in Procs, Cache!Refuse(p)
  PROVE  CacheInv'
<1> USE DEF CacheInv, Cache!TypeOK, Cache!Refuse, Cache!Go, Cache!disk, Cache!faults, Critical, Cache!SpreadCacheAssumption
<1>1. Cache!TypeOK' /\ errors' \in Nat
  OBVIOUS
<1>2. LockOK' /\ DocOK' /\ OneFinal'
  BY DEF LockOK, DocOK, OneFinal
<1>3. AgreedOK'
  <2>1. \E q \in Procs : Cache!Complete(entry.final, Bytes[q])
    BY DEF PublishedOK
  <2> QED
    BY <2>1 DEF AgreedOK
<1>4. PublishedOK'
  BY DEF PublishedOK, Cache!Complete
<1>5. WorkOK'
  BY DEF WorkOK, LockOK, Cache!Complete
<1>6. Cache!AnswerIsDurable'
  BY DEF Cache!AnswerIsDurable, DocOK, Cache!Complete
<1> QED
  BY <1>1, <1>2, <1>3, <1>4, <1>5, <1>6

(* The new directory is one no entry names. *)
LEMMA MakeStagingKeeps ==
  ASSUME Cache!SpreadCacheAssumption, CacheInv, NEW p \in Procs, Cache!MakeStaging(p)
  PROVE  CacheInv'
<1> USE DEF CacheInv, Cache!TypeOK, Cache!MakeStaging, Cache!Go, Cache!disk, Cache!faults, Critical, Cache!SpreadCacheAssumption
<1>1. Cache!TypeOK' /\ errors' \in Nat
  BY DEF Cache!NoFiles
<1>2. LockOK' /\ DocOK' /\ OneFinal' /\ AgreedOK'
  BY DEF LockOK, DocOK, OneFinal, AgreedOK
<1>3. PublishedOK'
  BY DEF PublishedOK, WorkOK, Cache!Complete
<1>4. WorkOK'
  BY DEF WorkOK, LockOK, Cache!Complete
<1>5. Cache!AnswerIsDurable'
  BY DEF Cache!AnswerIsDurable, DocOK, LockOK
<1> QED
  BY <1>1, <1>2, <1>3, <1>4, <1>5

(* What it staged reaches the disk before it can be published. *)
LEMMA SyncStagingKeeps ==
  ASSUME Cache!SpreadCacheAssumption, CacheInv, NEW p \in Procs, Cache!SyncStaging(p)
  PROVE  CacheInv'
<1> USE DEF CacheInv, Cache!TypeOK, Cache!SyncStaging, Cache!Go, Cache!disk, Cache!faults, Critical, Cache!SpreadCacheAssumption
<1>1. Cache!TypeOK' /\ errors' \in Nat
  BY DEF WorkOK
<1>2. LockOK' /\ DocOK' /\ OneFinal' /\ AgreedOK'
  BY DEF LockOK, DocOK, OneFinal, AgreedOK, Cache!Complete
<1>3. PublishedOK'
  BY DEF PublishedOK, WorkOK, Cache!Complete
<1>4. WorkOK'
  BY DEF WorkOK, LockOK, Cache!Complete
<1>5. Cache!AnswerIsDurable'
  BY DEF Cache!AnswerIsDurable, DocOK, Cache!Complete
<1> QED
  BY <1>1, <1>2, <1>3, <1>4, <1>5

(* What gets the name is whole and synced, and nothing had the name. *)
LEMMA PublishKeeps ==
  ASSUME Cache!SpreadCacheAssumption, CacheInv, NEW p \in Procs, Cache!Publish(p)
  PROVE  CacheInv'
<1> USE DEF CacheInv, Cache!TypeOK, Cache!Publish, Cache!Go, Cache!disk, Cache!faults, Critical, Cache!SpreadCacheAssumption
<1>1. Cache!TypeOK' /\ errors' \in Nat
  OBVIOUS
<1>2. LockOK' /\ DocOK' /\ OneFinal' /\ AgreedOK'
  BY DEF LockOK, DocOK, OneFinal, AgreedOK
<1>3. PublishedOK'
  <2>1. pinned[p] # None /\ pinned[p] \in synced /\ Cache!Complete(pinned[p], Bytes[p])'
    BY DEF WorkOK, Cache!Complete
  <2>2. entry'.stage = None /\ entry'.final = pinned[p]
    OBVIOUS
  <2>3. \A e \in possible : \A q \in Procs : Cache!Complete(e.final, Bytes[q])' <=> Cache!Complete(e.final, Bytes[q])
    BY DEF Cache!Complete
  <2> QED
    BY <2>1, <2>2, <2>3 DEF PublishedOK
<1>4. WorkOK'
  <2>1. pinned[p] # None /\ pinned[p] \in synced /\ Cache!Complete(pinned[p], Bytes[p])
    BY DEF WorkOK
  <2>2. \A q \in Procs : pc[q] \in Critical => q = p
    BY DEF LockOK
  <2> QED
    BY <2>1, <2>2 DEF WorkOK, Cache!Complete
<1>5. Cache!AnswerIsDurable'
  BY DEF Cache!AnswerIsDurable
<1> QED
  BY <1>1, <1>2, <1>3, <1>4, <1>5

(* Only now is the name sure to survive. *)
LEMMA SyncPublishedKeeps ==
  ASSUME Cache!SpreadCacheAssumption, CacheInv, NEW p \in Procs, Cache!SyncPublished(p)
  PROVE  CacheInv'
<1> USE DEF CacheInv, Cache!TypeOK, Cache!SyncPublished, Cache!Go, Cache!Fsync, Cache!disk, Cache!faults, Critical,
     Cache!SpreadCacheAssumption
<1>1. Cache!TypeOK' /\ errors' \in Nat
  OBVIOUS
<1>2. LockOK' /\ DocOK' /\ OneFinal' /\ AgreedOK'
  BY DEF LockOK, DocOK, OneFinal, AgreedOK
<1>3. PublishedOK'
  BY DEF PublishedOK, WorkOK, Cache!Complete
<1>4. WorkOK'
  BY DEF WorkOK, LockOK, Cache!Complete
<1>5. Cache!AnswerIsDurable'
  <2>1. \A e \in possible' : \E c \in possible : c.final = e.final
    OBVIOUS
  <2> QED
    BY <2>1, AnswersStay
<1> QED
  BY <1>1, <1>2, <1>3, <1>4, <1>5

(* What it reads back is what it wrote. *)
LEMMA VerifyKeeps ==
  ASSUME Cache!SpreadCacheAssumption, CacheInv, NEW p \in Procs, Cache!Verify(p)
  PROVE  CacheInv'
<1> USE DEF CacheInv, Cache!TypeOK, Cache!Verify, Cache!Go, Cache!disk, Cache!faults, Critical, Cache!SpreadCacheAssumption
<1>1. Cache!TypeOK' /\ errors' \in Nat
  OBVIOUS
<1>2. LockOK' /\ DocOK' /\ OneFinal' /\ AgreedOK'
  BY DEF LockOK, DocOK, OneFinal, AgreedOK, WorkOK
<1>3. PublishedOK'
  BY DEF PublishedOK, WorkOK, LockOK, Cache!Complete
<1>4. WorkOK'
  BY DEF WorkOK, LockOK, Cache!Complete
<1>5. Cache!AnswerIsDurable'
  BY DEF Cache!AnswerIsDurable, DocOK, Cache!Complete
<1> QED
  BY <1>1, <1>2, <1>3, <1>4, <1>5

(* The answer: what it published is still the published one and on the disk. *)
LEMMA CheckAttachedKeeps ==
  ASSUME Cache!SpreadCacheAssumption, CacheInv, NEW p \in Procs, Cache!CheckAttached(p)
  PROVE  CacheInv'
<1> USE DEF CacheInv, Cache!TypeOK, Cache!CheckAttached, Cache!Go, Cache!disk, Cache!faults, Critical, Cache!SpreadCacheAssumption
<1>1. Cache!TypeOK' /\ errors' \in Nat
  OBVIOUS
<1>2. LockOK' /\ DocOK' /\ OneFinal' /\ AgreedOK'
  BY DEF LockOK, DocOK, OneFinal, AgreedOK, WorkOK
<1>3. PublishedOK'
  BY DEF PublishedOK, WorkOK, LockOK, Cache!Complete
<1>4. WorkOK'
  BY DEF WorkOK, LockOK, Cache!Complete
<1>5. Cache!AnswerIsDurable'
  <2>1. CASE entry.final # pinned[p]
    BY <2>1, AnswersStay
  <2>2. CASE entry.final = pinned[p]
    <3>1. ~detached => docDir = "synced" /\ possible = {entry} /\ pinned[p] # None
                       /\ pinned[p] \in synced /\ Cache!Complete(pinned[p], Bytes[p])
      BY DEF WorkOK, DocOK
    <3>2. \A q \in Procs \ {p} : pc'[q] = "ok" => pc[q] = "ok"
      OBVIOUS
    <3> QED
      BY <2>2, <3>1, <3>2 DEF Cache!AnswerIsDurable, Cache!Complete
  <2> QED
    BY <2>1, <2>2
<1> QED
  BY <1>1, <1>2, <1>3, <1>4, <1>5

(* A failing call leaves the disk as it is. *)
LEMMA StageErrorKeeps ==
  ASSUME Cache!SpreadCacheAssumption, CacheInv, NEW p \in Procs, Cache!StageError(p)
  PROVE  CacheInv'
<1> USE DEF CacheInv, Cache!TypeOK, Cache!StageError, Cache!Go, Cache!disk, Cache!faults, Critical, Cache!SpreadCacheAssumption
<1>1. Cache!TypeOK' /\ errors' \in Nat
  OBVIOUS
<1>2. LockOK' /\ DocOK' /\ OneFinal' /\ AgreedOK'
  BY DEF LockOK, DocOK, OneFinal, AgreedOK
<1>3. PublishedOK'
  BY DEF PublishedOK, WorkOK, Cache!Complete
<1>4. WorkOK'
  BY DEF WorkOK, LockOK, Cache!Complete
<1>5. Cache!AnswerIsDurable'
  BY AnswersStay
<1> QED
  BY <1>1, <1>2, <1>3, <1>4, <1>5

(* Whoever dies leaves its files and gives up the lock. *)
LEMMA DieKeeps ==
  ASSUME Cache!SpreadCacheAssumption, CacheInv, NEW p \in Procs, Cache!Die(p)
  PROVE  CacheInv'
<1> USE DEF CacheInv, Cache!TypeOK, Cache!Die, Cache!Go, Cache!Freed, Cache!disk, Cache!faults, Critical, Cache!SpreadCacheAssumption
<1>1. Cache!TypeOK' /\ errors' \in Nat
  OBVIOUS
<1>2. LockOK' /\ DocOK' /\ OneFinal' /\ AgreedOK'
  BY DEF LockOK, DocOK, OneFinal, AgreedOK
<1>3. PublishedOK'
  BY DEF PublishedOK, WorkOK, Cache!Complete
<1>4. WorkOK'
  BY DEF WorkOK, LockOK, Cache!Complete
<1>5. Cache!AnswerIsDurable'
  BY DEF Cache!AnswerIsDurable, DocOK, Cache!Complete
<1> QED
  BY <1>1, <1>2, <1>3, <1>4, <1>5

(* Only a staged file goes. *)
LEMMA UnlinkStagedKeeps ==
  ASSUME Cache!SpreadCacheAssumption, CacheInv, NEW p \in Procs, NEW n \in Cache!Names, Cache!UnlinkStaged(p, n)
  PROVE  CacheInv'
<1> USE DEF CacheInv, Cache!TypeOK, Cache!UnlinkStaged, Cache!Go, Cache!disk, Cache!faults, Critical, Cache!SpreadCacheAssumption
<1>1. Cache!TypeOK' /\ errors' \in Nat
  OBVIOUS
<1>2. LockOK' /\ DocOK' /\ OneFinal' /\ AgreedOK'
  BY DEF LockOK, DocOK, OneFinal, AgreedOK
<1>3. PublishedOK'
  BY DEF PublishedOK, WorkOK, Cache!Complete
<1>4. WorkOK'
  BY DEF WorkOK, LockOK, Cache!Complete
<1>5. Cache!AnswerIsDurable'
  <2>1. \A e \in possible : e.final # None => e.final \in Cache!Dirs /\ e.final # entry.stage
    BY DEF PublishedOK
  <2> QED
    BY <2>1, AnswersStay
<1> QED
  BY <1>1, <1>2, <1>3, <1>4, <1>5

(* Only a staged file is written. *)
LEMMA WriteFileKeeps ==
  ASSUME Cache!SpreadCacheAssumption, CacheInv, NEW p \in Procs, NEW n \in Cache!Names, Cache!WriteFile(p, n)
  PROVE  CacheInv'
<1> USE DEF CacheInv, Cache!TypeOK, Cache!WriteFile, Cache!Go, Cache!disk, Cache!faults, Critical, Cache!SpreadCacheAssumption
<1>1. Cache!TypeOK' /\ errors' \in Nat
  OBVIOUS
<1>2. LockOK' /\ DocOK' /\ OneFinal' /\ AgreedOK'
  BY DEF LockOK, DocOK, OneFinal, AgreedOK
<1>3. PublishedOK'
  BY DEF PublishedOK, WorkOK, Cache!Complete
<1>4. WorkOK'
  BY DEF WorkOK, LockOK, PublishedOK, Cache!Complete
<1>5. Cache!AnswerIsDurable'
  BY DEF Cache!AnswerIsDurable, WorkOK, DocOK, LockOK
<1> QED
  BY <1>1, <1>2, <1>3, <1>4, <1>5

(* Only a staged file is synced. *)
LEMMA SyncFileKeeps ==
  ASSUME Cache!SpreadCacheAssumption, CacheInv, NEW p \in Procs, NEW n \in Cache!Names, Cache!SyncFile(p, n)
  PROVE  CacheInv'
<1> USE DEF CacheInv, Cache!TypeOK, Cache!SyncFile, Cache!Go, Cache!disk, Cache!faults, Critical, Cache!SpreadCacheAssumption
<1>1. Cache!TypeOK' /\ errors' \in Nat
  OBVIOUS
<1>2. LockOK' /\ DocOK' /\ OneFinal' /\ AgreedOK'
  BY DEF LockOK, DocOK, OneFinal, AgreedOK
<1>3. PublishedOK'
  BY DEF PublishedOK, WorkOK, Cache!Complete
<1>4. WorkOK'
  BY DEF WorkOK, LockOK, PublishedOK, Cache!Complete
<1>5. Cache!AnswerIsDurable'
  BY DEF Cache!AnswerIsDurable, WorkOK, DocOK, LockOK
<1> QED
  BY <1>1, <1>2, <1>3, <1>4, <1>5

LEMMA DetachKeeps == ASSUME Cache!SpreadCacheAssumption, CacheInv, Cache!Detach PROVE CacheInv'
<1> USE DEF CacheInv, Cache!TypeOK, Cache!Detach, Critical, Cache!SpreadCacheAssumption
<1>1. Cache!TypeOK'
  OBVIOUS
<1>2. LockOK' /\ DocOK'
  BY DEF LockOK, DocOK
<1>3. PublishedOK'
  BY DEF PublishedOK, Cache!Complete
<1>4. OneFinal' /\ Cache!AnswerIsDurable' /\ AgreedOK'
  BY DEF OneFinal, Cache!AnswerIsDurable, AgreedOK
<1>5. WorkOK'
  BY DEF WorkOK, Cache!Complete
<1> QED
  BY <1>1, <1>2, <1>3, <1>4, <1>5

LEMMA LosePowerKeeps == ASSUME Cache!SpreadCacheAssumption, CacheInv, Cache!LosePower PROVE CacheInv'
<1> USE DEF CacheInv, Cache!TypeOK, Cache!LosePower, Critical, Cache!SpreadCacheAssumption
<1>1. Cache!TypeOK'
  OBVIOUS
<1>2. LockOK' /\ DocOK'
  BY DEF LockOK, DocOK
<1>3. PublishedOK'
  BY DEF PublishedOK, Cache!Complete
<1>4. OneFinal'
  BY DEF OneFinal
<1>5. WorkOK'
  BY DEF WorkOK
<1>6. Cache!AnswerIsDurable'
  <2>1. \A e \in possible : e.final # None /\ e.final \in synced => files'[e.final] = files[e.final]
    OBVIOUS
  <2>2. \A p \in Procs : pc'[p] = "ok" => pc[p] = "ok"
    OBVIOUS
  <2>3. CASE docDir = "synced"
    <3>1. entry' \in possible /\ docDir' = "synced" /\ possible' = {entry'} /\ synced' = Cache!Dirs
      BY <2>3
    <3> QED
      BY <2>1, <2>2, <3>1, AnswersStay
  <2>4. CASE docDir # "synced"
    BY <2>2, <2>4 DEF Cache!AnswerIsDurable
  <2> QED
    BY <2>3, <2>4
<1>7. AgreedOK'
  BY DEF AgreedOK
<1> QED
  BY <1>1, <1>2, <1>3, <1>4, <1>5, <1>6, <1>7

LEMMA InitCache == ASSUME Cache!SpreadCacheAssumption, Cache!Init PROVE CacheInv
<1> USE DEF Cache!Init, Cache!NoFiles, Critical, Cache!SpreadCacheAssumption
<1>1. Cache!TypeOK /\ errors \in Nat
  BY DEF Cache!TypeOK
<1>2. LockOK /\ DocOK /\ PublishedOK /\ OneFinal /\ WorkOK /\ Cache!AnswerIsDurable /\ AgreedOK
  BY DEF LockOK, DocOK, PublishedOK, OneFinal, WorkOK, Cache!AnswerIsDurable, AgreedOK
<1> QED
  BY <1>1, <1>2 DEF CacheInv

(* Every step of every process and every fault keeps the invariant. *)
LEMMA NextCache == ASSUME Cache!SpreadCacheAssumption, CacheInv, [Cache!Next]_(Cache!vars) PROVE CacheInv'
<1>1. ASSUME NEW p \in Procs, Cache!Steps(p) PROVE CacheInv'
  BY <1>1, OpenComponentKeeps, SyncComponentKeeps, LockKeeps, RemoveStagedKeeps,
     NothingStagedKeeps, SyncRemovalKeeps, AcceptKeeps, RefuseKeeps, MakeStagingKeeps,
     SyncStagingKeeps, PublishKeeps, SyncPublishedKeeps, VerifyKeeps, CheckAttachedKeeps,
     UnlinkStagedKeeps, WriteFileKeeps, SyncFileKeeps
  DEF Cache!Steps
<1>2. ASSUME NEW p \in Procs, Cache!StageError(p) \/ Cache!Die(p) PROVE CacheInv'
  BY <1>2, StageErrorKeeps, DieKeeps
<1>3. ASSUME UNCHANGED Cache!vars PROVE CacheInv'
  BY <1>3 DEF CacheInv, Cache!TypeOK, LockOK, DocOK, PublishedOK, OneFinal, WorkOK, Cache!AnswerIsDurable, AgreedOK,
     Cache!Complete, Cache!vars
<1> QED
  BY <1>1, <1>2, <1>3, LosePowerKeeps, DetachKeeps DEF Cache!Next, Cache!Finished

(* IInv holds in every state, for any publishers and faults. *)
THEOREM CacheInvariance == ASSUME Cache!SpreadCacheAssumption PROVE Cache!Spec => []CacheInv
  BY InitCache, NextCache, PTL DEF Cache!Spec

(* Processes, entries and files keep their types. *)
THEOREM CacheTypes == ASSUME Cache!SpreadCacheAssumption PROVE Cache!Spec => []Cache!TypeOK
<1>1. CacheInv => Cache!TypeOK
  BY DEF CacheInv
<1> QED
  BY <1>1, CacheInvariance, PTL
---------------------------------------------------------------------------
(* publish_cache_files: the published name holds a whole pair of one publisher,
   an answer outlives the next loss of power, and publishers that bring the
   same bytes succeed unless a call fails or the user interferes. *)
LEMMA CacheInvPublished == ASSUME CacheInv PROVE Cache!NoMixedPair /\ Cache!AnswerIsDurable /\ Cache!AgreedSucceeds
<1>1. Cache!NoMixedPair
  BY DEF CacheInv, Cache!TypeOK, PublishedOK, Cache!NoMixedPair
<1>2. Cache!AgreedSucceeds
  BY DEF CacheInv, AgreedOK, Cache!AgreedSucceeds, Cache!Answered
<1> QED
  BY <1>1, <1>2 DEF CacheInv

(* No step of a publisher, no death and no loss of power changes what is published. *)
LEMMA StepImmutable ==
  ASSUME Cache!SpreadCacheAssumption, CacheInv, [Cache!Next]_(Cache!vars) PROVE Cache!PublishedIsImmutableStep
<1> SUFFICES ASSUME ~detached', entry.final # None, entry'.final # None
             PROVE  entry'.final = entry.final /\ files'[entry.final] = files[entry.final]
  BY DEF Cache!PublishedIsImmutableStep
<1> USE DEF CacheInv, Cache!TypeOK, Cache!SpreadCacheAssumption
<1>1. /\ entry \in possible /\ entry.final \in Cache!Dirs /\ entry.final \in synced
      /\ entry.stage # entry.final
      /\ \A p \in Procs : pc[p] \notin {"write", "rename"}
  BY DEF PublishedOK, WorkOK
<1>2. ASSUME NEW p \in Procs, Cache!Steps(p) PROVE UNCHANGED entry.final /\ files'[entry.final] = files[entry.final]
  <2>1. CASE Cache!OpenComponent(p) \/ Cache!SyncComponent(p) \/ Cache!Lock(p) \/ Cache!NothingStaged(p) \/ Cache!SyncRemoval(p)
             \/ Cache!Accept(p) \/ Cache!Refuse(p) \/ Cache!SyncPublished(p) \/ Cache!Verify(p) \/ Cache!CheckAttached(p)
    BY <2>1 DEF Cache!OpenComponent, Cache!SyncComponent, Cache!Lock, Cache!NothingStaged, Cache!SyncRemoval, Cache!Accept, Cache!Refuse,
       Cache!SyncPublished, Cache!Verify, Cache!CheckAttached, Cache!disk
  <2>2. CASE Cache!RemoveStaged(p)
    BY <2>2 DEF Cache!RemoveStaged
  <2>3. CASE \E n \in Cache!Names : Cache!UnlinkStaged(p, n)
    BY <1>1, <2>3 DEF Cache!UnlinkStaged
  <2>4. ~Cache!MakeStaging(p) /\ ~Cache!SyncStaging(p) /\ ~Cache!Publish(p)
        /\ \A n \in Cache!Names : ~Cache!WriteFile(p, n) /\ ~Cache!SyncFile(p, n)
    BY <1>1 DEF Cache!MakeStaging, Cache!SyncStaging, Cache!Publish, Cache!WriteFile, Cache!SyncFile, Cache!Go
  <2> QED
    BY <1>2, <2>1, <2>2, <2>3, <2>4 DEF Cache!Steps
<1>3. ASSUME NEW p \in Procs, Cache!StageError(p) \/ Cache!Die(p) PROVE UNCHANGED <<entry, files>>
  BY <1>3 DEF Cache!StageError, Cache!Die, Cache!disk
<1>4. CASE Cache!LosePower
  <2>1. entry' \in possible /\ ~detached
    BY <1>4 DEF Cache!LosePower
  <2> QED
    BY <1>1, <1>4, <2>1 DEF Cache!LosePower, OneFinal
<1>5. CASE Cache!Detach
  BY <1>5 DEF Cache!Detach
<1>6. CASE UNCHANGED Cache!vars
  BY <1>6 DEF Cache!vars
<1> QED
  BY <1>2, <1>3, <1>4, <1>5, <1>6 DEF Cache!Next, Cache!Finished

(* What publish_cache_files promises of the published view, whoever publishes,
   dies, fails or loses power, and however often. *)
THEOREM Published == ASSUME Cache!SpreadCacheAssumption PROVE Cache!Spec => Cache!PublishedPairs
<1>1. CacheInv /\ [Cache!Next]_(Cache!vars) => Cache!PublishedIsImmutableStep
  BY StepImmutable
<1>2. CacheInv /\ [Cache!Next]_(Cache!vars) => [Cache!PublishedIsImmutableStep]_(Cache!vars)
  BY <1>1
<1> QED
  BY <1>2, CacheInvariance, CacheInvPublished, PTL DEF Cache!PublishedPairs, Cache!PublishedIsImmutable, Cache!Spec
=============================================================================
