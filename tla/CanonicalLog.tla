---------------------------- MODULE CanonicalLog ----------------------------
(***************************************************************************)
(* What the durable outbox promises its callers, with the machinery of     *)
(* reservations, staged payloads and workers left out.                     *)
(*                                                                         *)
(* A document has one linear history of accepted commits.  A commit is     *)
(* first made visible through its ordinary device outputs, then becomes    *)
(* canonical exactly once, and only then may its release signal (the       *)
(* conflict-resolution marker that unblocks a device) be seen.             *)
(*   BrokerStorage::commit   inkbridge-broker/src/storage.rs:43-55         *)
(*   "This ordering provides these invariants"                             *)
(*                           docs/INKBRIDGE_CLOUD_RUNTIME.md:87-94         *)
(***************************************************************************)
EXTENDS Sequences, Functions

CONSTANTS Events,
          Silent      \* events whose commit writes the state alone

VARIABLES views,      \* events all of whose ordinary outputs are visible
          log,        \* accepted events, in the order they became canonical
          released    \* events some release signal of which is visible

vars == <<views, log, released>>

Init == views = Silent /\ log = <<>> /\ released = {}

(* Every ordinary output of the commit of e has been uploaded. *)
Deliver(e) ==
    /\ e \notin Range(log)
    /\ views' = views \cup {e}
    /\ UNCHANGED <<log, released>>

(* The commit of e becomes the canonical state; it extends the state it was
   computed from, so nothing accepted before it is lost. *)
Publish(e) ==
    /\ e \in views
    /\ e \notin Range(log)
    /\ log' = Append(log, e)
    /\ UNCHANGED <<views, released>>

(* The post-finalization marker of e becomes visible. *)
Release(e) ==
    /\ e \in Range(log)
    /\ released' = released \cup {e}
    /\ UNCHANGED <<views, log>>

Next == \E e \in Events : Deliver(e) \/ Publish(e) \/ Release(e)

Spec == Init /\ [][Next]_vars
=============================================================================
