---------------------------- MODULE MCBrokerModes ---------------------------
(***************************************************************************)
(* The instances of Broker besides MCBroker's (a transport that waits for  *)
(* each export, pipelined exports of full views, and exports that overtake *)
(* a conflict), and the registration of an original by two services under  *)
(* two names (Registration, which is extended here). The strokes a1 and    *)
(* a2, which only the second instance has, are interchangeable. A          *)
(* behaviour follows one instance, the scenario; the variables of the      *)
(* other modules are Parked, those of a module it EXTENDS at rest.         *)
(***************************************************************************)
EXTENDS Integers, TLC, Registration

CONSTANTS Scenarios, Parked, s1, a1, a2

VARIABLES scenario,   \* the instance a behaviour follows
          doc, uploads, unacked, echoes, dev, analysis, consumed

brokerVars == <<doc, uploads, unacked, echoes, dev, analysis, consumed>>
suiteVars == <<scenario, brokerVars, vars>>

StrokeSymmetry == Permutations({a1, a2})

Serial == INSTANCE Broker
    WITH Strokes <- {s1}, PageOf <- [s \in {s1} |-> 1], BooxKind <- "manifest",
         Pipelined <- FALSE, Retries <- 1 .. 3, MaxUploads <- 3
\* two strokes on one page
Pipe == INSTANCE Broker
    WITH Strokes <- {a1, a2}, PageOf <- [s \in {a1, a2} |-> 1], BooxKind <- "view",
         Pipelined <- TRUE, Retries <- {}, MaxUploads <- 3
Supersede == INSTANCE Broker
    WITH Strokes <- {s1}, PageOf <- [s \in {s1} |-> 1], BooxKind <- "view",
         Pipelined <- TRUE, Retries <- 1 .. 3, MaxUploads <- 3

ASSUME Serial!BrokerAssumption /\ Pipe!BrokerAssumption /\ Supersede!BrokerAssumption
       /\ RegistrationAssumption

NoBroker == doc = Parked /\ uploads = Parked /\ unacked = Parked /\ echoes = Parked
         /\ dev = Parked /\ analysis = Parked /\ consumed = Parked

\* The extended module at rest, while another is followed.
Resting == Init

SuiteInit ==
    /\ scenario \in Scenarios
    /\ \/ scenario = "serial" /\ Serial!Init /\ Resting
       \/ scenario = "pipelined" /\ Pipe!Init /\ Resting
       \/ scenario = "supersede" /\ Supersede!Init /\ Resting
       \/ scenario = "register" /\ Init /\ NoBroker

SuiteNext ==
    /\ UNCHANGED scenario
    /\ \/ scenario = "serial" /\ Serial!Next /\ UNCHANGED <<vars>>
       \/ scenario = "pipelined" /\ Pipe!Next /\ UNCHANGED <<vars>>
       \/ scenario = "supersede" /\ Supersede!Next /\ UNCHANGED <<vars>>
       \/ scenario = "register" /\ Next /\ UNCHANGED <<brokerVars>>

SuiteSpec == SuiteInit /\ [][SuiteNext]_suiteVars
-----------------------------------------------------------------------------
\* Broker: no export is lost or skipped, some conflict can always be decided,
\* and what is accepted or decided writes over nothing unseen and stays
\* decided.
\*   - NothingLost: Every export the broker took is accounted for, whatever
\*     was retried or overtaken, and no conflict is decided twice.
\*   - NoRevisionSkipped: The frontier of a device passes no revision whose
\*     export it has not taken or decided.
\*   - SomeConflictResolvable: Conflicts never wait for each other for ever:
\*     one of them can always be decided (conflict.rs resolution order).
\*   - AckedIsProcessed: With a transport that waits, an event Eventarc will
\*     not deliver again has been processed.
\*   - NoUnseenOverwrite: An accepted export overwrites no stroke change its
\*     device had not seen.
\*   - NoRejectedRevival: Ink an operator rejected does not come back through
\*     a later link of its chain.
\*   - MergesAsAnalysed: A merge changes exactly what the analysis the
\*     operator decided on announced.
DecisionsHold ==
    /\ [](/\ scenario = "serial" => Serial!TypeOK /\ Serial!NothingLost /\ Serial!NoRevisionSkipped
                                    /\ Serial!SomeConflictResolvable
                                    /\ Serial!AckedIsProcessed
          /\ scenario = "pipelined" => Pipe!TypeOK /\ Pipe!NothingLost /\ Pipe!NoRevisionSkipped
          /\ scenario = "supersede" => Supersede!TypeOK /\ Supersede!NothingLost
                                       /\ Supersede!NoRevisionSkipped
                                       /\ Supersede!SomeConflictResolvable)
    /\ [][/\ scenario = "serial" => Serial!NoUnseenOverwriteStep /\ Serial!NoRejectedRevivalStep
                                    /\ Serial!MergesAsAnalysedStep
          /\ scenario = "pipelined" => Pipe!NoUnseenOverwriteStep /\ Pipe!NoRejectedRevivalStep
                                       /\ Pipe!MergesAsAnalysedStep
          /\ scenario = "supersede" => Supersede!NoUnseenOverwriteStep
                                       /\ Supersede!NoRejectedRevivalStep
                                       /\ Supersede!MergesAsAnalysedStep]_suiteVars
=============================================================================
