-------------------------- MODULE AtomicCheckpoint --------------------------
(***************************************************************************)
(* What the folder transport relies on when it saves its journal: one      *)
(* durable value that a save replaces in a single step or not at all, that *)
(* a crash cannot lose, and that a restart reads back.                     *)
(***************************************************************************)
CONSTANTS States,      \* journal contents
          Empty        \* TransportState::empty

VARIABLES durable,     \* the journal a restart would load
          mem,         \* the journal in the running process
          mode         \* "down", "idle", "saving" or "error" (last save failed)

cvars == <<durable, mem, mode>>

Init == durable = Empty /\ mem = Empty /\ mode = "down"

Start == mode = "down" /\ mem' = durable /\ mode' = "idle" /\ UNCHANGED durable

Sync == /\ mode \in {"idle", "error"}
        /\ mem' \in States
        /\ UNCHANGED <<durable, mode>>

BeginSave == /\ mode \in {"idle", "error"}
             /\ mode' = "saving"
             /\ UNCHANGED <<durable, mem>>

Commit == /\ mode = "saving"
          /\ durable' = mem
          /\ UNCHANGED <<mem, mode>>

\* A save reports success only once the durable value is the saved one.
ReturnOk == /\ mode = "saving"
            /\ durable = mem
            /\ mode' = "idle"
            /\ UNCHANGED <<durable, mem>>

\* A failed save may or may not have taken effect.
ReturnErr == /\ mode = "saving"
             /\ mode' = "error"
             /\ UNCHANGED <<durable, mem>>

Crash == mode # "down" /\ mode' = "down" /\ mem' = Empty /\ UNCHANGED durable

Next == Start \/ Sync \/ BeginSave \/ Commit \/ ReturnOk \/ ReturnErr \/ Crash

Spec == Init /\ [][Next]_cvars
=============================================================================
