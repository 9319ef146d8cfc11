------------------------------ MODULE OneAtATime ------------------------------
(***************************************************************************)
(* What the run queue promises its users: load tests are serialised.       *)
(*                                                                         *)
(* An executor has one slot.  A run is executed only by the run that holds *)
(* the slot, may be started again while it holds it, and gives the slot    *)
(* back only once nothing executes.                                        *)
(***************************************************************************)
CONSTANTS Runs, NoRun

VARIABLES
  holder,     \* the run that holds the slot, or NoRun
  executing   \* the runs that execute on the fleet

vars == <<holder, executing>>

Init == holder = NoRun /\ executing = {}

Acquire(r) ==
  /\ holder = NoRun
  /\ holder' = r
  /\ UNCHANGED executing

Execute ==
  /\ holder # NoRun
  /\ executing' = {holder}
  /\ UNCHANGED holder

Stop ==
  /\ executing' = {}
  /\ UNCHANGED holder

GiveBack ==
  /\ executing = {}
  /\ holder' = NoRun
  /\ UNCHANGED executing

Next == (\E r \in Runs : Acquire(r)) \/ Execute \/ Stop \/ GiveBack

Spec == Init /\ [][Next]_vars
=============================================================================
