------------------------------ MODULE MCRunQueue ------------------------------
(***************************************************************************)
(* Values for the constants of RunQueue.                                   *)
(***************************************************************************)
EXTENDS RunQueue, TLC

UserSymmetry == Permutations(Users)

\* Faults that lose a run but not the record of what became of it.
RecordedFaults == {"dispatch_error", "lost_reply", "deadline", "api_crash"}
=============================================================================
