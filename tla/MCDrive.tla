------------------------------- MODULE MCDrive ------------------------------
(***************************************************************************)
(* DriveGateway with two pollers: a job that crashes between the edits of  *)
(* one original, jobs that overlap, a job whose inputs meet an event of    *)
(* the folder transport, and files that are moved while the bucket's       *)
(* trigger delivers the evidence too.  A behaviour follows one budget.     *)
(***************************************************************************)
EXTENDS DriveGateway

CONSTANTS g1, g2

Nothing == [jobs |-> {g1}, edits |-> 0, moves |-> 0, others |-> 0, crashes |-> 0,
            eventarc |-> FALSE]

TestBudgets ==
    {[Nothing EXCEPT !.edits = 2, !.crashes = 1],
     [Nothing EXCEPT !.jobs = {g1, g2}, !.crashes = 1],
     [Nothing EXCEPT !.edits = 1, !.others = 1, !.crashes = 1],
     [Nothing EXCEPT !.edits = 1, !.moves = 1, !.eventarc = TRUE]}

ASSUME DriveAssumption
=============================================================================
