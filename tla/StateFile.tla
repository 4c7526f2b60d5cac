----------------------------- MODULE StateFile ------------------------------
(***************************************************************************)
(* TransportState::load and TransportState::save (folder transport,        *)
(* model.rs): the journal is exchanged through two sibling names, any      *)
(* filesystem call can fail and the process can die between two calls.     *)
(***************************************************************************)
CONSTANTS States, Empty,
          Missing,     \* no such file
          Torn         \* a file whose write was interrupted

StateAssumption == Empty \in States /\ Missing \notin States /\ Torn \notin States
                          /\ Missing # Torn

VARIABLES path, previous, next,   \* state.json, state.json.previous, state.json.next
          mem,                    \* the process's TransportState
          pc,                     \* where the process is inside save
          hadCurrent              \* save's local variable

vars == <<path, previous, next, mem, pc, hadCurrent>>

Init == /\ path = Missing /\ previous = Missing /\ next = Missing
        /\ mem = Empty /\ pc = "down" /\ hadCurrent = FALSE

\* Mutant: no fall back to the staged name.
LoadedNoFallback == IF path # Missing THEN path ELSE Empty

\* The state file a load reads: the current name, else the staged previous one.
Loaded == IF path # Missing THEN path
          ELSE IF previous # Missing THEN previous ELSE Empty

Load == /\ pc = "down"
        /\ mem' = Loaded
        /\ pc' = "idle"
        /\ UNCHANGED <<path, previous, next, hadCurrent>>

\* A successful sync_document leaves a new journal in memory; after an error
\* the watch loop keeps polling with the journal it has.
SyncDocument == /\ pc \in {"idle", "error"}
                /\ mem' \in States
                /\ UNCHANGED <<path, previous, next, pc, hadCurrent>>

WriteNext == /\ pc \in {"idle", "error"}
             /\ next' = Torn
             /\ pc' = "write"
             /\ UNCHANGED <<path, previous, mem, hadCurrent>>

WriteDone == /\ pc = "write"
             /\ next' = mem
             /\ hadCurrent' = (path # Missing)
             /\ pc' = IF path # Missing THEN "remove" ELSE "publish"
             /\ UNCHANGED <<path, previous, mem>>

RemovePrevious == /\ pc = "remove"
                  /\ previous' = Missing
                  /\ pc' = "stage"
                  /\ UNCHANGED <<path, next, mem, hadCurrent>>

StageCurrent == /\ pc = "stage"
                /\ previous' = path
                /\ path' = Missing
                /\ pc' = "publish"
                /\ UNCHANGED <<next, mem, hadCurrent>>

PublishNext == /\ pc = "publish"
               /\ path' = next
               /\ next' = Missing
               /\ pc' = "retire"
               /\ UNCHANGED <<previous, mem, hadCurrent>>

\* The rename failed: put the staged file back when there was one, ignoring
\* whether that rename succeeds.
PublishFailed == /\ pc = "publish"
                 /\ \/ /\ hadCurrent
                       /\ path' = previous
                       /\ previous' = Missing
                    \/ UNCHANGED <<path, previous>>
                 /\ pc' = "error"
                 /\ UNCHANGED <<next, mem, hadCurrent>>

RetirePrevious == /\ pc = "retire"
                  /\ previous' = Missing
                  /\ pc' = "idle"
                  /\ UNCHANGED <<path, next, mem, hadCurrent>>

\* Any other call of save returns an error and leaves the files as they are.
SaveFailed == /\ pc \in {"write", "remove", "stage", "retire"}
              /\ pc' = "error"
              /\ UNCHANGED <<path, previous, next, mem, hadCurrent>>

Crash == /\ pc # "down"
         /\ pc' = "down"
         /\ mem' = Empty
         /\ UNCHANGED <<path, previous, next, hadCurrent>>

Next == \/ Load \/ SyncDocument \/ WriteNext \/ WriteDone \/ RemovePrevious
        \/ StageCurrent \/ PublishNext \/ PublishFailed \/ RetirePrevious
        \/ SaveFailed \/ Crash

Spec == Init /\ [][Next]_vars
-----------------------------------------------------------------------------
Pcs == {"down", "idle", "error", "write", "remove", "stage", "publish", "retire"}

\* Types of the files and of the process (load and save, model.rs 573-623).
TypeOK == /\ path \in States \cup {Missing}
          /\ previous \in States \cup {Missing}
          /\ next \in States \cup {Missing, Torn}
          /\ mem \in States
          /\ pc \in Pcs
          /\ hadCurrent \in BOOLEAN

\* The inductive invariant: what each point of save may rely on about the
\* three names.
SavePoints == /\ pc = "publish" => next = mem /\ path = Missing
              /\ pc = "publish" /\ hadCurrent => previous # Missing
              /\ pc \in {"remove", "stage"} => next = mem /\ path # Missing
              /\ pc = "retire" => path = mem

Mode == IF pc \in {"down", "idle", "error"} THEN pc ELSE "saving"

Checkpoint == INSTANCE AtomicCheckpoint WITH durable <- Loaded, mode <- Mode

\* save and load implement one atomic durable journal: whatever call fails
\* and wherever the process dies, a restart loads the last journal whose
\* exchange took effect, and save reports success only for that journal.
AtomicJournal == Checkpoint!Spec
=============================================================================
