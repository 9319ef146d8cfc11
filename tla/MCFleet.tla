------------------------------- MODULE MCFleet --------------------------------
(***************************************************************************)
(* Values for the constants of Fleet.                                      *)
(***************************************************************************)
EXTENDS Fleet, TLC

WorkerSymmetry == Permutations(Workers)
=============================================================================
