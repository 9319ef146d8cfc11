------------------------------ MODULE MCRegistry -------------------------------
(***************************************************************************)
(* Values for the constants of Registry.                                   *)
(***************************************************************************)
EXTENDS Registry
CONSTANTS n1, n2, n3

\* The second node overwrites a point of the first, and the last key is not
\* followed by another.
SharedPoints == [w \in Nodes |-> CASE w = n1 -> {1, 3} [] w = n2 -> {3, 5} [] OTHER -> {4}]
=============================================================================
