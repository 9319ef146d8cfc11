--------------------------------- MODULE Feed ---------------------------------
(***************************************************************************)
(* What a dashboard is promised about the run it watches: a picture that   *)
(* only ever moves forward, never ahead of what has been recorded, and,    *)
(* once it has been told that the run is over, nothing more.               *)
(***************************************************************************)
EXTENDS Naturals

CONSTANTS Viewers, Ends, NoEnd

VARIABLES
  recorded,   \* number of samples recorded so far
  seen,       \* the youngest sample each viewer has been shown, 0 for none
  told        \* how each viewer has been told the run ended

vars == <<recorded, seen, told>>

Init ==
  /\ recorded = 0
  /\ seen = [v \in Viewers |-> 0]
  /\ told = [v \in Viewers |-> NoEnd]

Record == recorded' = recorded + 1 /\ UNCHANGED <<seen, told>>

Show(v) ==
  /\ told[v] = NoEnd
  /\ \E n \in seen[v] .. recorded : seen' = [seen EXCEPT ![v] = n]
  /\ UNCHANGED <<recorded, told>>

Tell(v) ==
  /\ told[v] = NoEnd
  /\ \E s \in Ends : told' = [told EXCEPT ![v] = s]
  /\ UNCHANGED <<recorded, seen>>

Next == Record \/ \E v \in Viewers : Show(v) \/ Tell(v)

Spec == Init /\ [][Next]_vars
=============================================================================
