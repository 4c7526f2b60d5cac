------------------------- MODULE SpreadRegeneration -------------------------
(***************************************************************************)
(* The regeneration transaction of a virtual-spread view                   *)
(* (virtual_spread_cache.rs, CacheRegenerationTransaction): evidence       *)
(* recorded phase by phase, and the validation of a record read back.      *)
(* Hashes are members of small sets; a view is its identity, from which    *)
(* validate_view derives the cache's name.                                 *)
(***************************************************************************)
EXTENDS Integers, FiniteSets

CONSTANTS Views,        \* view identities; the candidate is one of them
          Candidate,
          PageLists,    \* the represented pages, and other page lists
          Represented,
          Revisions, Hashes, None

Exports == [active_view : Views, revision : Revisions]
Hydrations == [view : Views, revision : Revisions, pages : PageLists, mark : Hashes]
Verifications == [view : Views, mark : Hashes]
Rollbacks == [previous : Views \cup {None}]

RegenerationAssumption ==
    /\ Candidate \in Views /\ Represented \in PageLists
    /\ None \notin Views \cup Revisions \cup Hashes \cup Exports \cup Hydrations \cup Verifications \cup Rollbacks

Phases == {"AwaitingDirtyExport", "AwaitingGeneration", "AwaitingHydration", "AwaitingVerification", "ReadyToActivate", "Activated", "RolledBack"}

VARIABLES tx,       \* the transaction, as persisted
          live      \* it has begun

vars == <<tx, live>>

Records == [mode : {"Clean", "Dirty"}, phase : Phases, previous : Views \cup {None}, revision : Revisions \cup {None},
            export : Exports \cup {None}, hydration : Hydrations \cup {None}, verification : Verifications \cup {None},
            rollback : Rollbacks \cup {None}, active : BOOLEAN]

-----------------------------------------------------------------------------
(* Evidence *)

\* validate_versioned_candidate
Versioned(previous) == previous # Candidate

HydrationOfAnyRevision(t, e) == e.view = Candidate /\ e.pages = Represented

\* record_hydration: the candidate, the transaction's one revision, every represented page
HydrationFits(t, e) == e.view = Candidate /\ e.revision = t.revision /\ e.pages = Represented

\* record_verification: the generated candidate with the ink that was hydrated
VerificationFits(t, e) == t.hydration # None /\ e.view = Candidate /\ e.mark = t.hydration.mark

\* validate_rollback
RollbackFits(t, e) == e.previous = t.previous

\* record_dirty_export: the export is of the active view
ExportFits(t, e) == t.previous # None /\ e.active_view = t.previous

-----------------------------------------------------------------------------
(* validate_persisted *)

EvidenceBound(t) ==
    /\ t.previous # None => Versioned(t.previous)
    /\ t.export # None => ExportFits(t, t.export) /\ t.export.revision = t.revision
    /\ t.hydration # None => HydrationFits(t, t.hydration)
    /\ t.verification # None => VerificationFits(t, t.verification)
    /\ t.rollback # None => RollbackFits(t, t.rollback)

ModeFits(t) ==
    IF t.mode = "Clean" THEN t.revision # None /\ t.export = None /\ t.phase # "AwaitingDirtyExport"
    ELSE /\ t.previous # None
         /\ CASE t.phase = "AwaitingDirtyExport" -> TRUE
              [] t.phase = "RolledBack" -> (t.revision # None) = (t.export # None)
              [] OTHER -> t.revision # None /\ t.export # None

NoneOf(t, fields) == \A f \in fields : t[f] = None

PhaseFits(t) ==
    CASE t.phase = "AwaitingDirtyExport" -> t.previous # None /\ NoneOf(t, {"revision", "export", "hydration", "verification", "rollback"}) /\ ~t.active
      [] t.phase \in {"AwaitingGeneration", "AwaitingHydration"} -> t.revision # None /\ NoneOf(t, {"hydration", "verification", "rollback"}) /\ ~t.active
      [] t.phase = "AwaitingVerification" -> t.hydration # None /\ NoneOf(t, {"verification", "rollback"}) /\ ~t.active
      [] t.phase = "ReadyToActivate" -> t.verification # None /\ t.rollback # None /\ ~t.active
      [] t.phase = "Activated" -> t.verification # None /\ t.rollback # None /\ t.active
      [] OTHER -> ~t.active

ValidatePersisted(t) == EvidenceBound(t) /\ ModeFits(t) /\ PhaseFits(t)

-----------------------------------------------------------------------------
(* Operations *)

Unbegun == [mode |-> "Clean", phase |-> "AwaitingGeneration", previous |-> None, revision |-> None, export |-> None,
            hydration |-> None, verification |-> None, rollback |-> None, active |-> FALSE]

\* begin_clean, begin_dirty
Begin(mode, previous, revision) ==
    /\ ~live
    /\ previous # None => Versioned(previous)
    /\ mode = "Dirty" => previous # None /\ revision = None
    /\ mode = "Clean" => revision # None
    /\ tx' = [Unbegun EXCEPT !.mode = mode, !.previous = previous, !.revision = revision,
                             !.phase = IF revision # None THEN "AwaitingGeneration" ELSE "AwaitingDirtyExport"]
    /\ live' = TRUE

RecordDirtyExport(e) ==
    /\ live /\ tx.phase = "AwaitingDirtyExport" /\ ExportFits(tx, e)
    /\ tx' = [tx EXCEPT !.revision = e.revision, !.export = e, !.phase = "AwaitingGeneration"]
    /\ UNCHANGED live

RecordGenerated(view) ==
    /\ live /\ tx.phase = "AwaitingGeneration" /\ view = Candidate
    /\ tx' = [tx EXCEPT !.phase = "AwaitingHydration"]
    /\ UNCHANGED live

RecordHydrationAgain(e) ==
    /\ live /\ tx.phase \in {"AwaitingHydration", "AwaitingVerification"} /\ HydrationFits(tx, e)
    /\ tx' = [tx EXCEPT !.hydration = e, !.phase = "AwaitingVerification"]
    /\ UNCHANGED live

RecordHydration(e) ==
    /\ live /\ tx.phase = "AwaitingHydration" /\ HydrationFits(tx, e)
    /\ tx' = [tx EXCEPT !.hydration = e, !.phase = "AwaitingVerification"]
    /\ UNCHANGED live

RecordVerification(e, rollback) ==
    /\ live /\ tx.phase = "AwaitingVerification" /\ VerificationFits(tx, e) /\ RollbackFits(tx, rollback)
    /\ tx' = [tx EXCEPT !.verification = e, !.rollback = rollback, !.phase = "ReadyToActivate"]
    /\ UNCHANGED live

CommitEarly ==
    /\ live /\ tx.phase \in {"AwaitingVerification", "ReadyToActivate"}
    /\ tx' = [tx EXCEPT !.active = TRUE, !.phase = "Activated"]
    /\ UNCHANGED live

CommitActivation ==
    /\ live /\ tx.phase = "ReadyToActivate" /\ tx.rollback # None /\ tx.verification # None
    /\ tx' = [tx EXCEPT !.active = TRUE, !.phase = "Activated"]
    /\ UNCHANGED live

Rollback ==
    /\ live /\ tx.phase \notin {"Activated", "RolledBack"}
    /\ tx' = [tx EXCEPT !.phase = "RolledBack"]
    /\ UNCHANGED live

Over == live /\ tx.phase \in {"Activated", "RolledBack"} /\ UNCHANGED vars

\* a new transaction, or any record read back from the disk that validates
Init ==
    \/ tx = Unbegun /\ live = FALSE
    \/ tx \in {t \in Records : ValidatePersisted(t)} /\ live = TRUE

Next ==
    \/ \E mode \in {"Clean", "Dirty"}, previous \in Views \cup {None}, revision \in Revisions \cup {None} : Begin(mode, previous, revision)
    \/ \E e \in Exports : RecordDirtyExport(e)
    \/ \E v \in Views : RecordGenerated(v)
    \/ \E e \in Hydrations : RecordHydration(e)
    \/ \E e \in Verifications, r \in Rollbacks : RecordVerification(e, r)
    \/ CommitActivation \/ Rollback \/ Over

Spec == Init /\ [][Next]_vars

-----------------------------------------------------------------------------
(* Properties *)

TypeOK == tx \in Records /\ live \in BOOLEAN

\* Whatever the operations leave behind, validate_persisted accepts: no phase strands its own record.
ReloadAccepts == live => ValidatePersisted(tx)

\* An activated view, also one whose transaction was read back half-way, is the candidate at one
\* canonical revision: every represented page was hydrated at that revision, the verification is
\* of that ink, a dirty view was exported first, and the view to go back to is the one replaced.
ActivationJustified ==
    tx.phase = "Activated" =>
        /\ tx.hydration # None /\ tx.hydration.revision = tx.revision /\ tx.hydration.pages = Represented
        /\ tx.verification # None /\ tx.verification.mark = tx.hydration.mark /\ tx.verification.view = Candidate
        /\ tx.rollback # None /\ tx.rollback.previous = tx.previous /\ tx.previous # Candidate
        /\ tx.mode = "Dirty" => tx.export # None /\ tx.export.active_view = tx.previous /\ tx.export.revision = tx.revision

\* The canonical revision of a transaction, once set, and the evidence recorded are never replaced.
EvidenceStandsStep == live => \A f \in {"revision", "export", "hydration", "verification", "rollback"} : tx[f] # None => tx'[f] = tx[f]
EvidenceStands == [][EvidenceStandsStep]_vars
=============================================================================
