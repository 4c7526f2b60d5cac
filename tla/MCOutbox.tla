------------------------------ MODULE MCOutbox ------------------------------
(***************************************************************************)
(* Instances of Outbox: a registration, a device event whose output is the *)
(* BOOX view, a conflict resolution (view, manifest unless the Supernote   *)
(* has it all, marker) and an event raised by an in-place edit of the view.*)
(***************************************************************************)
EXTENDS Outbox, TLC

CONSTANTS w1, w2,                              \* workers
          reg, sup, res, edit,                \* events
          original, view, manifest, marker, incoming   \* paths

MCObjWrites == [e \in Events |->
    CASE e = reg -> <<original>> [] e = sup -> <<view>>
      [] e = res -> <<view, manifest>> [] OTHER -> <<incoming>>]
\* A resolution that changes nothing on the Supernote writes no manifest (conflict.rs:276).
MCOneSided == [MCObjWrites EXCEPT ![res] = <<view>>]
MCRelWrites == [e \in Events |-> IF e = res THEN <<marker>> ELSE <<>>]
MCEditOf == [e \in Events |-> IF e = edit THEN view ELSE None]
MCTracked == {view, incoming}
WorkerSymmetry == Permutations(Workers)
=============================================================================
