------------------------------ MODULE MCBroker ------------------------------
(***************************************************************************)
(* Broker with compact BOOX manifests, pipelined exports and a transport   *)
(* that may die after the first upload; its other instances are in         *)
(* MCBrokerModes.                                                          *)
(***************************************************************************)
EXTENDS Broker

CONSTANTS s1, s3

\* s1 has a page of its own
PageOfStroke == [s \in Strokes |-> IF s = s1 THEN 1 ELSE 2]

ASSUME BrokerAssumption
-----------------------------------------------------------------------------
(* An operator can always keep the current canonical state and so end a conflict:
   with compact manifests too, some conflict can be decided
   (docs/INKBRIDGE_CONFLICT_RESOLUTION.md). *)
KeepCurrentResolves == SomeConflictResolvable
=============================================================================
