---------------------------- MODULE SpreadCache -----------------------------
(***************************************************************************)
(* Publication of one virtual-spread view to the device cache              *)
(* (virtual_spread_cache.rs, publish_cache_files): several processes       *)
(* publish the same versioned view under an advisory lock, each through a  *)
(* staging directory renamed into place.  A directory entry that was not   *)
(* synced may or may not outlive a loss of power.                          *)
(***************************************************************************)
EXTENDS Integers, FiniteSets

CONSTANTS Procs, None,
          Bytes,          \* the PDF and sidecar each process brings
          MaxDirs,        \* directories there are identities for
          MaxDeaths,      \* processes killed
          MaxLosses,      \* losses of power
          MaxErrors,      \* operations on the staging directory that fail
          MaxDetaches     \* the user removes the published directory

Names == {"nomedia", "pdf", "json"}
Dirs == 1 .. MaxDirs

SpreadCacheAssumption ==
    /\ None \notin Procs \cup Dirs
    /\ DOMAIN Bytes = Procs /\ {None, "torn"} \cap {Bytes[p] : p \in Procs} = {}
    /\ {MaxDirs, MaxDeaths, MaxLosses, MaxErrors, MaxDetaches} \subseteq Nat

VARIABLES
    pc,             \* where each process stands
    pinned,         \* the directory each process holds open
    holder,         \* of the publication lock
    docDir,         \* the document's directory: "absent", "made" or "synced"
    entry,          \* its entries: the staging and the published directory
    possible,       \* the entries a loss of power may leave
    files,          \* of each directory: the bytes of each name, "torn" or None
    synced,         \* directories whose entries are on the disk
    detached,       \* the user has removed the published directory
    deaths, losses, errors

vars == <<pc, pinned, holder, docDir, entry, possible, files, synced, detached, deaths, losses, errors>>
disk == <<docDir, entry, possible, files, synced>>
faults == <<detached, deaths, losses, errors>>

NoFiles == [n \in Names |-> None]
Complete(d, b) == files[d] = [n \in Names |-> b]

Go(p, from, to) == pc[p] = from /\ pc' = [pc EXCEPT ![p] = to]

-----------------------------------------------------------------------------
(* The document's directory and the lock *)

\* ensure_child_directory_at: open or make the component; another process may be making it too
OpenComponent(p) ==
    /\ Go(p, "idle", "component")
    /\ docDir' = IF docDir = "absent" THEN "made" ELSE docDir
    /\ UNCHANGED <<pinned, holder, entry, possible, files, synced, faults>>

\* ensure_child_directory_at: sync the parent whoever made the component
SyncComponent(p) ==
    /\ Go(p, "component", "lock")
    /\ docDir' = "synced"
    /\ UNCHANGED <<pinned, holder, entry, possible, files, synced, faults>>

\* flock, exclusive
Lock(p) ==
    /\ holder = None /\ Go(p, "lock", "clean")
    /\ holder' = p
    /\ UNCHANGED <<pinned, disk, faults>>

-----------------------------------------------------------------------------
(* remove_abandoned_staging_directory *)

\* unlinkat of one name at a time
UnlinkStaged(p, n) ==
    /\ pc[p] \in {"clean", "failing"} /\ entry.stage # None /\ files[entry.stage][n] # None
    /\ files' = [files EXCEPT ![entry.stage][n] = None]
    /\ synced' = synced \ {entry.stage}
    /\ UNCHANGED <<pc, pinned, holder, docDir, entry, possible, faults>>

\* unlinkat of the directory, then fsync of its parent
RemoveStaged(p) ==
    /\ entry.stage # None /\ files[entry.stage] = NoFiles
    /\ Go(p, "clean", "cleaned") \/ Go(p, "failing", "failed")
    /\ entry' = [entry EXCEPT !.stage = None]
    /\ possible' = possible \cup {entry'}
    /\ holder' = IF pc[p] = "failing" THEN None ELSE holder
    /\ UNCHANGED <<pinned, docDir, files, synced, faults>>

\* there is none
NothingStaged(p) ==
    /\ entry.stage = None
    /\ Go(p, "clean", "look") \/ Go(p, "failing", "failed")
    /\ holder' = IF pc[p] = "failing" THEN None ELSE holder
    /\ UNCHANGED <<pinned, disk, faults>>

\* fsync of the document's directory
Fsync == possible' = {entry}

SyncRemoval(p) == Go(p, "cleaned", "look") /\ Fsync /\ UNCHANGED <<pinned, holder, docDir, entry, files, synced, faults>>

-----------------------------------------------------------------------------
(* publish_cache_files *)

\* an identical directory is accepted, after the sync its publisher may have missed
Accept(p) ==
    /\ entry.final # None /\ Complete(entry.final, Bytes[p]) /\ Go(p, "look", "attached")
    /\ pinned' = [pinned EXCEPT ![p] = entry.final]
    /\ Fsync
    /\ UNCHANGED <<holder, docDir, entry, files, synced, faults>>

\* verify_complete_cache_directory: other bytes under the versioned name
Refuse(p) ==
    /\ entry.final # None /\ ~Complete(entry.final, Bytes[p]) /\ Go(p, "look", "failed")
    /\ holder' = None
    /\ UNCHANGED <<pinned, disk, faults>>

\* create_staging_directory
MakeStaging(p) ==
    /\ entry.final = None /\ Go(p, "look", "write")
    /\ \E d \in Dirs :
         /\ \A e \in possible : d \notin {e.stage, e.final}
         /\ \A q \in Procs : pinned[q] # d
         /\ d \notin {entry.stage, entry.final}
         /\ pinned' = [pinned EXCEPT ![p] = d]
         /\ entry' = [entry EXCEPT !.stage = d]
         /\ files' = [files EXCEPT ![d] = NoFiles]
         /\ synced' = synced \ {d}
    /\ possible' = possible \cup {entry'}
    /\ UNCHANGED <<holder, docDir, faults>>

\* write_new_file_at: the bytes are on their way
WriteFile(p, n) ==
    /\ pc[p] = "write" /\ files[pinned[p]][n] = None
    /\ \A m \in Names : files[pinned[p]][m] # "torn"
    /\ files' = [files EXCEPT ![pinned[p]][n] = "torn"]
    /\ UNCHANGED <<pc, pinned, holder, docDir, entry, possible, synced, faults>>

\* write_new_file_at: sync_all
SyncFile(p, n) ==
    /\ pc[p] = "write" /\ files[pinned[p]][n] = "torn"
    /\ files' = [files EXCEPT ![pinned[p]][n] = Bytes[p]]
    /\ UNCHANGED <<pc, pinned, holder, docDir, entry, possible, synced, faults>>

SkipStagingSync(p) ==
    /\ Go(p, "write", "rename") /\ Complete(pinned[p], Bytes[p])
    /\ UNCHANGED <<pinned, holder, disk, faults>>

\* sync_directory_at
SyncStaging(p) ==
    /\ Go(p, "write", "rename") /\ Complete(pinned[p], Bytes[p])
    /\ synced' = synced \cup {pinned[p]}
    /\ UNCHANGED <<pinned, holder, docDir, entry, possible, files, faults>>

\* publish_staging_directory: RENAME_NOREPLACE
Publish(p) ==
    /\ entry.stage = pinned[p] /\ entry.final = None /\ Go(p, "rename", "renamed")
    /\ entry' = [stage |-> None, final |-> pinned[p]]
    /\ possible' = possible \cup {entry'}
    /\ UNCHANGED <<pinned, holder, docDir, files, synced, faults>>

\* fsync of the parent after the rename
SyncPublished(p) == Go(p, "renamed", "verify") /\ Fsync /\ UNCHANGED <<pinned, holder, docDir, entry, files, synced, faults>>

\* verify_complete_cache_directory through the pinned directory
Verify(p) ==
    /\ pc[p] = "verify" /\ Go(p, "verify", IF Complete(pinned[p], Bytes[p]) THEN "attached" ELSE "failing")
    /\ UNCHANGED <<pinned, holder, disk, faults>>

\* verify_directory_is_still_attached
CheckAttached(p) ==
    /\ Go(p, "attached", IF entry.final = pinned[p] THEN "ok" ELSE "failing")
    /\ holder' = IF entry.final = pinned[p] THEN None ELSE holder
    /\ UNCHANGED <<pinned, disk, faults>>

\* an operation on the staging directory fails; the error cleans up under the lock
StageError(p) ==
    /\ errors < MaxErrors /\ errors' = errors + 1
    /\ Go(p, "write", "failing") \/ Go(p, "rename", "failing") \/ Go(p, "renamed", "failing")
    /\ UNCHANGED <<pinned, holder, disk, detached, deaths, losses>>

-----------------------------------------------------------------------------
(* Faults *)

Freed(p) == IF holder = p THEN None ELSE holder

\* the process is killed; the kernel drops its lock and its next run starts over
Die(p) ==
    /\ deaths < MaxDeaths /\ pc[p] \notin {"idle", "ok", "failed"}
    /\ deaths' = deaths + 1
    /\ pc' = [pc EXCEPT ![p] = "idle"] /\ pinned' = [pinned EXCEPT ![p] = None] /\ holder' = Freed(p)
    /\ UNCHANGED <<disk, detached, losses, errors>>

\* a loss of power: unsynced entries are kept or lost, and every process that has not answered starts over
LosePower ==
    /\ losses < MaxLosses /\ losses' = losses + 1
    /\ pc' = [p \in Procs |-> IF pc[p] \in {"ok", "failed"} THEN pc[p] ELSE "idle"]
    /\ pinned' = [p \in Procs |-> None] /\ holder' = None
    /\ \/ docDir = "made" /\ docDir' = "absent" /\ entry' = [stage |-> None, final |-> None]
       \/ docDir' = (IF docDir = "made" THEN "synced" ELSE docDir) /\ entry' \in possible
    /\ possible' = {entry'}
    /\ \E kept \in SUBSET Names :
         files' = [d \in Dirs |-> IF d \in synced THEN files[d] ELSE [n \in Names |-> IF n \in kept THEN files[d][n] ELSE None]]
    /\ synced' = Dirs
    /\ UNCHANGED <<detached, deaths, errors>>

\* the user or another application removes the published directory
Detach ==
    /\ entry.final # None /\ ~detached /\ MaxDetaches > 0
    /\ detached' = TRUE
    /\ entry' = [entry EXCEPT !.final = None] /\ possible' = possible \cup {entry'}
    /\ UNCHANGED <<pc, pinned, holder, docDir, files, synced, deaths, losses, errors>>

-----------------------------------------------------------------------------
Init ==
    /\ pc = [p \in Procs |-> "idle"] /\ pinned = [p \in Procs |-> None] /\ holder = None
    /\ docDir = "absent" /\ entry = [stage |-> None, final |-> None] /\ possible = {entry}
    /\ files = [d \in Dirs |-> NoFiles] /\ synced = Dirs
    /\ detached = FALSE /\ deaths = 0 /\ losses = 0 /\ errors = 0

Steps(p) ==
    \/ OpenComponent(p) \/ SyncComponent(p) \/ Lock(p)
    \/ RemoveStaged(p) \/ NothingStaged(p) \/ SyncRemoval(p)
    \/ Accept(p) \/ Refuse(p) \/ MakeStaging(p) \/ SyncStaging(p) \/ Publish(p) \/ SyncPublished(p)
    \/ Verify(p) \/ CheckAttached(p)
    \/ \E n \in Names : UnlinkStaged(p, n) \/ WriteFile(p, n) \/ SyncFile(p, n)

Answered == \A p \in Procs : pc[p] \in {"ok", "failed"}

Finished == Answered /\ UNCHANGED vars

Next == (\E p \in Procs : Steps(p) \/ StageError(p) \/ Die(p)) \/ LosePower \/ Detach \/ Finished

Spec == Init /\ [][Next]_vars

\* A process that is not killed goes on, and a killed one is run again.
FairSpec == Spec /\ \A p \in Procs : WF_vars(Steps(p))

-----------------------------------------------------------------------------
(* Properties *)

TypeOK ==
    /\ pc \in [Procs -> {"idle", "component", "lock", "clean", "cleaned", "look", "write", "rename", "renamed", "verify", "attached", "failing", "ok", "failed"}]
    /\ pinned \in [Procs -> Dirs \cup {None}] /\ holder \in Procs \cup {None}
    /\ docDir \in {"absent", "made", "synced"} /\ entry \in possible /\ synced \subseteq Dirs
    /\ possible \subseteq [stage : Dirs \cup {None}, final : Dirs \cup {None}]
    /\ files \in [Dirs -> [Names -> {Bytes[p] : p \in Procs} \cup {"torn", None}]]

\* The published name never holds an incomplete or a mixed PDF and sidecar, whoever dies and
\* whenever the power goes.
NoMixedPair == entry.final # None => \E p \in Procs : Complete(entry.final, Bytes[p])

\* What publish_cache_files has answered for is on the disk: a loss of power would leave the
\* document's directory and the complete view in it.
AnswerIsDurable ==
    \A p \in Procs : pc[p] = "ok" /\ ~detached =>
        /\ docDir = "synced"
        /\ \A e \in possible : e.final # None /\ Complete(e.final, Bytes[p]) /\ e.final \in synced

\* A published view is never changed or replaced, unless the user removed it.
PublishedIsImmutableStep == ~detached' /\ entry.final # None /\ entry'.final # None => entry'.final = entry.final /\ files'[entry.final] = files[entry.final]
PublishedIsImmutable == [][PublishedIsImmutableStep]_vars

\* Every publisher is answered, and one that brings the bytes all the others bring succeeds
\* when nothing but deaths and losses of power stood in its way.
EveryoneAnswered == <>[]Answered

AgreedSucceeds ==
    Answered /\ errors = 0 /\ ~detached /\ (\A p, q \in Procs : Bytes[p] = Bytes[q]) => \A p \in Procs : pc[p] = "ok"

\* A published view is one whole, lasting pair.
PublishedPairs == [](NoMixedPair /\ AnswerIsDurable /\ AgreedSucceeds) /\ PublishedIsImmutable
=============================================================================
