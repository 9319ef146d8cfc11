------------------------------ MODULE Allocation ------------------------------
(***************************************************************************)
(* How the orchestrator turns a plan's virtual users into whole numbers    *)
(* per worker: DistributePlan shares out the peak, allocateStageVUs splits *)
(* every stage in those proportions, and a worker's engine runs its part.  *)
(*                                                                         *)
(* A worker without capacity or share is one that is absent from the       *)
(* code's maps.  Integers are int32, here of any width.  A float64 product *)
(* may fall just short of a whole number, and equal remainders need not    *)
(* compare equal, so both are choices; nothing else of floating point      *)
(* shows below 2^53.                                                       *)
(***************************************************************************)
EXTENDS Integers, FiniteSets, Functions, SequencesExt

CONSTANTS
  Nodes,        \* ids of the workers that may register
  MaxCapacity,  \* bound on max_vus of a worker
  MaxTarget,    \* bound on target_vus of a stage
  IntMax        \* the largest int32

ASSUME NodesAreFinite == IsFiniteSet(Nodes)

ASSUME BoundsAssumption ==
  /\ MaxCapacity \in Nat /\ MaxTarget \in Nat /\ IntMax \in Nat
  /\ MaxCapacity <= IntMax /\ MaxTarget <= IntMax

VARIABLES
  maxVUs,      \* NodeManager.nodes, by MaxVUs
  peak,        \* the largest stage target of the plan distributed last
  shares,      \* its ActiveTest.Workers, captured by dispatchToWorkers
  target,      \* target_vus of the stage allocated last, 0 for none
  allocation   \* its target_vus in each worker's copy of the plan

vars == <<maxVUs, peak, shares, target, allocation>>

Nothing == [n \in Nodes |-> 0]

TypeOK ==
  /\ maxVUs \in [Nodes -> 0 .. MaxCapacity]
  /\ peak \in 0 .. MaxTarget /\ target \in 0 .. MaxTarget
  /\ shares \in [Nodes -> 0 .. MaxTarget]
  /\ allocation \in [Nodes -> 0 .. MaxTarget]

Init ==
  /\ maxVUs = Nothing
  /\ peak = 0 /\ shares = Nothing
  /\ target = 0 /\ allocation = Nothing

-----------------------------------------------------------------------------
\* Two's complement, of width log2(2 * (IntMax + 1)).
Wrap(x) == ((x + IntMax + 1) % (2 * (IntMax + 1))) - (IntMax + 1)

\* int32(float64(x) / float64(y) * float64(z)): what does not fit an int32 is
\* saturated on some architectures and the least int32 on others.
Share(x, y, z, low) ==
  LET whole == (x * z) \div y IN
  IF whole > IntMax THEN IF low THEN -IntMax - 1 ELSE IntMax
  ELSE IF low /\ whole * y = x * z THEN whole - 1 ELSE whole

Smaller(x, y) == IF x < y THEN x ELSE y

\* Mutant of Give: nothing keeps a negative share out.
GiveAny(part, n, vus) ==
  IF part.left <= 0 THEN part
  ELSE [left |-> part.left - vus, to |-> [part.to EXCEPT ![n] = @ + vus]]

\* One worker's turn: it is given so many of the virtual users that are left.
Give(part, n, vus) ==
  IF part.left <= 0 \/ vus <= 0 THEN part
  ELSE [left |-> part.left - vus, to |-> [part.to EXCEPT ![n] = @ + vus]]

\* The first loop of DistributePlan: shares in proportion to capacity.
Proportional(part, order, total, vus, low) ==
  LET turn(p, n) ==
        Give(p, n, Smaller(Smaller(Share(maxVUs[n], total, vus, n \in low), maxVUs[n]), p.left))
  IN  FoldLeft(turn, part, order)

\* Mutant of FillUp: the first worker takes what is left.
FillFirst(part, order) == FoldLeft(LAMBDA p, n : Give(p, n, p.left), part, order)

\* Mutant of FillUp: what truncation lost stays lost.
FillNobody(part, order) == part

\* The second loop: what is left, to whoever has room.
FillUp(part, order) ==
  FoldLeft(LAMBDA p, n : Give(p, n, Smaller(p.left, maxVUs[n] - p.to[n])), part, order)

Orders == SetToSeqs(Nodes)

-----------------------------------------------------------------------------
\* RegisterNode: a worker registers, or again with another capacity.
Register(n, vus) ==
  /\ maxVUs' = [maxVUs EXCEPT ![n] = vus]
  /\ UNCHANGED <<peak, shares, target, allocation>>

\* DistributePlan; GetNodes lists a Go map, in any order.
DistributePlan(vus, order, low) ==
  LET total == Wrap(SumFunction(maxVUs)) IN
  /\ total >= vus
  /\ peak' = vus
  /\ shares' = FillUp(Proportional([left |-> vus, to |-> Nothing], order, total, vus, low),
                      order).to
  /\ target' = 0 /\ allocation' = Nothing
  /\ UNCHANGED maxVUs

\* The remainders of a stage, in units of 1 / totalShare.
Remainder(vus, n) == (vus * shares[n]) % SumFunction(shares)

\* Mutant of LargestFirst: sorted the other way round.
SmallestFirst(vus, order) ==
  \A i, j \in DOMAIN order : i < j => Remainder(vus, order[i]) <= Remainder(vus, order[j])

LargestFirst(vus, order) ==
  \A i, j \in DOMAIN order : i < j => Remainder(vus, order[i]) >= Remainder(vus, order[j])

\* Mutant of HandOut: the virtual users lost to truncation are not handed out.
HandOutNothing(part, order) == part

\* One more for each worker in turn, unless it has all it can run.
HandOut(part, order) ==
  FoldLeft(LAMBDA p, n : Give(p, n, IF p.to[n] < shares[n] THEN 1 ELSE 0), part, order)

\* allocateStageVUs for a stage of the plan, and planForWorker.
AllocateStage(vus, order) ==
  LET whole == [n \in Nodes |-> (vus * shares[n]) \div SumFunction(shares)] IN
  /\ 0 < vus /\ vus <= peak
  /\ LargestFirst(vus, order)
  /\ target' = vus
  /\ allocation' = HandOut([left |-> vus - SumFunction(whole), to |-> whole], order).to
  /\ UNCHANGED <<maxVUs, peak, shares>>

Next ==
  \/ \E n \in Nodes, vus \in 0 .. MaxCapacity : Register(n, vus)
  \/ \E vus \in 1 .. MaxTarget, order \in Orders, low \in SUBSET Nodes :
       DistributePlan(vus, order, low)
  \/ \E vus \in 1 .. MaxTarget, order \in Orders : AllocateStage(vus, order)

Spec == Init /\ [][Next]_vars

-----------------------------------------------------------------------------
\* Nobody is lost to rounding: the workers' shares are the peak of the plan,
\* whatever order the map is listed in and wherever a product was truncated.
PeakIsShared == SumFunction(shares) = peak

\* No worker is given more than it had registered for when the plan came.
WithinCapacity ==
  [][shares' # shares => \A n \in Nodes : shares'[n] <= maxVUs[n]]_vars

\* runStage of the engine starts its part of the stage, capped at its share.
Active(n) == Smaller(allocation[n], shares[n])

\* The fleet runs exactly the stage's target: "Letting each worker round its own
\* share independently would make the fleet overshoot or undershoot".
StageIsExact == SumFunction([n \in Nodes |-> Active(n)]) = target

\* And in proportion: no worker is a whole virtual user off its exact part.
StageIsProportional ==
  \A n \in Nodes :
    LET error == allocation[n] * peak - target * shares[n]
    IN  target > 0 => -peak < error /\ error < peak
=============================================================================
