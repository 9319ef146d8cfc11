----------------------------- MODULE RegistryProofs ------------------------------
(***************************************************************************)
(* Proofs about the table of worker nodes: for every fleet, every way the  *)
(* virtual nodes of two workers may collide on the ring, and every number  *)
(* of attempts and restarts.                                               *)
(***************************************************************************)
EXTENDS Registry, WellFoundedInduction, TLAPS

\* The lock: while RegisterNode waits for etcd its node is in the table, and
\* while UnregisterNode does its worker is not taken for a registered one.
HolderInv ==
  /\ holder \in Calls => holder[1] \in nodes
  /\ holder \in Nodes \X {0} => worker[holder[1]] # "registered"

\* Every key of the ring leads into the table, and nobody takes from a node the
\* points that only it has.
RingInv ==
  /\ keys = DOMAIN hashMap
  /\ \A p \in keys : hashMap[p] \in nodes
  /\ \A w \in nodes : \A p \in Points : Own(w, p) => p \in keys /\ hashMap[p] = w

\* UnregisterNode is never called by the repository; where it is, a node has a
\* virtual node that collides with no other's.
PointsRemain ==
  "unregister" \notin Env \/ \A w \in Nodes : \E p \in Points : Own(w, p)

RingIsUsed == nodes # {} => keys # {}

TableInv == TypeOK /\ HolderInv /\ RingInv

-----------------------------------------------------------------------------
(***************************************************************************)
(* The ring, as sets of numbers.                                           *)
(***************************************************************************)
LEMMA MinOfSet ==
  ASSUME NEW S \in SUBSET Nat, S # {}
  PROVE  Min(S) \in S /\ \A q \in S : Min(S) <= q
<1>0. IsWellFoundedOn(OpToRel(<, Nat), Nat)
  BY NatLessThanWellFounded
<1>1. PICK m \in S : \A q \in S : ~ (<<q, m>> \in OpToRel(<, Nat))
  BY <1>0, WFMin
<1>2. ASSUME NEW q \in S PROVE m <= q
  <2>1. q \in Nat /\ m \in Nat
    OBVIOUS
  <2>2. q < m => <<q, m>> \in {ss \in Nat \X Nat : ss[1] < ss[2]}
    BY <2>1
  <2>3. ~ (q < m)
    BY <1>1, <2>2, Zenon DEF OpToRel
  <2> QED
    BY <2>1, <2>3
<1> QED
  BY <1>2 DEF Min

\* k is the first key of K from p on, or the first of all when none follows.
IsNext(k, K, p) ==
  /\ k \in K
  /\ \A q \in K : q >= p => k >= p /\ k <= q
  /\ k >= p \/ \A q \in K : k <= q

LEMMA NextIsUnique ==
  ASSUME NEW K \in SUBSET Nat, NEW p \in Nat, NEW j, NEW k, IsNext(j, K, p), IsNext(k, K, p)
  PROVE  j = k
<1>1. j \in Nat /\ k \in Nat
  BY DEF IsNext
<1>2. j <= k /\ k <= j
  BY <1>1 DEF IsNext
<1> QED
  BY <1>1, <1>2

Following(K, p) == {q \in K : q >= p}
FirstFrom(K, p) == Min(IF Following(K, p) = {} THEN K ELSE Following(K, p))

LEMMA FirstIsNext ==
  ASSUME NEW K \in SUBSET Nat, K # {}, NEW p \in Nat
  PROVE  IsNext(FirstFrom(K, p), K, p)
<1>1. CASE Following(K, p) = {}
  <2>1. Min(K) \in K /\ \A q \in K : Min(K) <= q
    BY MinOfSet
  <2>2. IsNext(Min(K), K, p)
    BY <1>1, <2>1 DEF IsNext, Following
  <2> QED
    BY <1>1, <2>2 DEF FirstFrom
<1>2. CASE Following(K, p) # {}
  <2>1. Following(K, p) \in SUBSET Nat
    BY DEF Following
  <2>2. /\ Min(Following(K, p)) \in Following(K, p)
        /\ \A q \in Following(K, p) : Min(Following(K, p)) <= q
    BY <1>2, <2>1, MinOfSet
  <2>3. IsNext(Min(Following(K, p)), K, p)
    BY <2>2 DEF IsNext, Following
  <2> QED
    BY <1>2, <2>3 DEF FirstFrom
<1> QED
  BY <1>1, <1>2

-----------------------------------------------------------------------------
(***************************************************************************)
(* Types.                                                                  *)
(***************************************************************************)
USE NodeAssumption, PointsAreNumbers, BoundsAreNumbers

LEMMA InitTable == Init => TableInv
<1> SUFFICES ASSUME Init PROVE TableInv
  OBVIOUS
<1>1. \A p \in keys : (CHOOSE w \in Old : p \in Virtual[w]) \in Old
  BY DEF Init
<1>2. keys \subseteq Points
  BY DEF Init
<1>3. DOMAIN hashMap = keys /\ \A p \in keys : hashMap[p] \in Old
  BY <1>1 DEF Init
<1>4. TypeOK
  BY <1>2, <1>3 DEF Init, TypeOK, WorkerStatus, NoCall, WorkerPC
<1>5. HolderInv
  BY DEF Init, HolderInv, NoCall, Calls
<1>6. ASSUME NEW w \in nodes, NEW p \in Points, Own(w, p)
      PROVE  p \in keys /\ hashMap[p] = w
  <2>1. w \in Old /\ p \in Virtual[w] /\ p \in keys
    BY <1>6 DEF Init, Own
  <2>2. \A v \in Old : p \in Virtual[v] => v = w
    BY <1>6 DEF Own
  <2>3. hashMap[p] = CHOOSE v \in Old : p \in Virtual[v]
    BY <2>1 DEF Init
  <2> QED
    BY <2>1, <2>2, <2>3
<1>7. nodes = Old
  BY DEF Init
<1>8. RingInv
  BY <1>3, <1>6, <1>7 DEF RingInv
<1> QED
  BY <1>4, <1>5, <1>8 DEF TableInv

LEMMA AddType ==
  ASSUME TypeOK, NEW w \in Nodes, Add(w)
  PROVE  /\ keys' \subseteq Points /\ DOMAIN hashMap' \subseteq Points
         /\ \A p \in DOMAIN hashMap' : hashMap'[p] \in Nodes
  BY DEF TypeOK, Add

LEMMA RemoveType ==
  ASSUME TypeOK, NEW w \in Nodes, Remove(w)
  PROVE  /\ keys' \subseteq Points /\ DOMAIN hashMap' \subseteq Points
         /\ \A p \in DOMAIN hashMap' : hashMap'[p] \in Nodes
  BY DEF TypeOK, Remove

LEMMA NextAttemptType ==
  ASSUME TypeOK, NEW w \in Nodes, NextAttempt(w)
  PROVE  worker' \in [Nodes -> WorkerPC] /\ attempt' \in [Nodes -> 1 .. MaxAttempts]
<1>1. CASE attempt[w] < MaxAttempts
  <2>1. attempt[w] + 1 \in 1 .. MaxAttempts
    BY <1>1 DEF TypeOK
  <2> QED
    BY <1>1, <2>1 DEF TypeOK, NextAttempt, WorkerPC
<1>2. CASE ~(attempt[w] < MaxAttempts)
  BY <1>2 DEF TypeOK, NextAttempt, WorkerPC
<1> QED
  BY <1>1, <1>2

LEMMA HolderNode ==
  ASSUME TypeOK
  PROVE  /\ holder \in Calls => holder[1] \in Nodes /\ holder[2] \in 1 .. MaxAttempts
         /\ holder \in Nodes \X {0} => holder[1] \in Nodes
         /\ ~ (holder \in Calls /\ holder \in Nodes \X {0})
  BY DEF Calls

LEMMA TypeStep ==
  ASSUME TypeOK, [Next]_vars
  PROVE  TypeOK'
<1> USE DEF tableVars, workerVars
<1>1. CASE PutSucceeds
  BY <1>1, HolderNode DEF TypeOK, PutSucceeds, Hear, WorkerPC
<1>2. CASE PutFails
  <2>1. worker' \in [Nodes -> WorkerPC] /\ attempt' \in [Nodes -> 1 .. MaxAttempts]
    BY <1>2, HolderNode, NextAttemptType DEF TypeOK, PutFails, HearFailure
  <2> QED
    BY <1>2, <2>1 DEF TypeOK, PutFails
<1>3. CASE DeleteAnswered
  BY <1>3, HolderNode DEF TypeOK, DeleteAnswered
<1>4. CASE OrchRestart
  BY <1>4 DEF TypeOK, WorkerStatus, OrchRestart, NewConsistentHashRing, WorkerPC
<1>5. ASSUME NEW w \in Nodes, UnregisterNode(w) PROVE TypeOK'
  <2>1. keys' \subseteq Points /\ DOMAIN hashMap' \subseteq Points
        /\ \A p \in DOMAIN hashMap' : hashMap'[p] \in Nodes
    BY <1>5, RemoveType DEF UnregisterNode
  <2> QED
    BY <1>5, <2>1 DEF TypeOK, UnregisterNode, WorkerPC
<1>6. ASSUME NEW w \in Nodes, NEW n \in 1 .. MaxAttempts, RegisterNode(w, n) PROVE TypeOK'
  <2>1. keys' \subseteq Points /\ DOMAIN hashMap' \subseteq Points
        /\ \A p \in DOMAIN hashMap' : hashMap'[p] \in Nodes
    BY <1>6, AddType DEF RegisterNode
  <2> QED
    BY <1>6, <2>1 DEF TypeOK, WorkerStatus, RegisterNode, Calls
<1>7. ASSUME NEW w \in Nodes, NEW active \in BOOLEAN, UpdateStatus(w, active) PROVE TypeOK'
  BY <1>7 DEF TypeOK, WorkerStatus, UpdateStatus
<1>8. ASSUME NEW w \in Nodes, LoseCall(w) \/ Timeout(w) PROVE TypeOK'
  BY <1>8, NextAttemptType DEF TypeOK, LoseCall, Timeout
<1>9. ASSUME NEW w \in Nodes, RegisterWorker(w) PROVE TypeOK'
  BY <1>9 DEF TypeOK, RegisterWorker, WorkerPC, Calls
<1>10. ASSUME NEW w \in Nodes, Test(w) \/ ReportMetrics(w) \/ LoseBatch(w) PROVE TypeOK'
  <2>1. (engine[w] = "during") \in BOOLEAN
    OBVIOUS
  <2>2. CASE Test(w)
    BY <2>2 DEF TypeOK, Test
  <2>3. CASE ReportMetrics(w)
    BY <2>1, <2>3 DEF TypeOK, ReportMetrics
  <2>4. CASE LoseBatch(w)
    BY <2>4 DEF TypeOK, LoseBatch
  <2> QED
    BY <1>10, <2>2, <2>3, <2>4
<1>11. ASSUME NEW w \in Nodes, Die(w) \/ Restart(w) PROVE TypeOK'
  <2>1. CASE Die(w)
    BY <2>1 DEF TypeOK, Die, WorkerPC
  <2>2. CASE Restart(w)
    <3>1. restarts + 1 \in 0 .. MaxRestarts
      BY <2>2 DEF TypeOK, Restart
    <3>2. engine' \in [Nodes -> {"before", "during", "after"}]
      BY <2>2 DEF TypeOK, Restart
    <3>3. worker' \in [Nodes -> WorkerPC] /\ attempt' \in [Nodes -> 1 .. MaxAttempts]
      BY <2>2 DEF TypeOK, Restart, WorkerPC
    <3> QED
      BY <2>2, <3>1, <3>2, <3>3 DEF TypeOK, Restart
  <2> QED
    BY <1>11, <2>1, <2>2
<1>12. CASE UNCHANGED vars
  BY <1>12 DEF TypeOK, vars
<1> QED
  BY <1>1, <1>2, <1>3, <1>4, <1>5, <1>6, <1>7, <1>8, <1>9, <1>10, <1>11, <1>12 DEF Next

-----------------------------------------------------------------------------
(***************************************************************************)
(* The lock, the table and the ring.                                       *)
(***************************************************************************)
\* What the workers do takes none of them for registered, and touches neither
\* the table, nor etcd, nor the lock.
WorkerStep(w) ==
  \/ RegisterWorker(w) \/ LoseCall(w) \/ Timeout(w) \/ Test(w)
  \/ ReportMetrics(w) \/ LoseBatch(w) \/ Die(w) \/ Restart(w)

LEMMA WorkersStandBack ==
  ASSUME TypeOK, NEW w \in Nodes, WorkerStep(w)
  PROVE  /\ UNCHANGED <<nodes, keys, hashMap, etcd, holder>>
         /\ \A v \in Nodes : worker'[v] = "registered" => worker[v] = "registered"
<1> USE DEF TypeOK, tableVars, workerVars
<1>1. CASE RegisterWorker(w)              BY <1>1 DEF RegisterWorker
<1>2. CASE LoseCall(w)                    BY <1>2 DEF LoseCall, NextAttempt
<1>3. CASE Timeout(w)                     BY <1>3 DEF Timeout, NextAttempt
<1>4. CASE Test(w)                        BY <1>4 DEF Test
<1>5. CASE ReportMetrics(w) \/ LoseBatch(w) BY <1>5 DEF ReportMetrics, LoseBatch
<1>6. CASE Die(w) \/ Restart(w)           BY <1>6 DEF Die, Restart
<1> QED
  BY <1>1, <1>2, <1>3, <1>4, <1>5, <1>6 DEF WorkerStep

\* The steps by what they touch.
LEMMA StepKinds ==
  ASSUME [Next]_vars
  PROVE  \/ PutSucceeds \/ PutFails \/ DeleteAnswered \/ OrchRestart
         \/ \E w \in Nodes : UnregisterNode(w)
         \/ \E w \in Nodes, n \in 1 .. MaxAttempts : RegisterNode(w, n)
         \/ \E w \in Nodes, active \in BOOLEAN : UpdateStatus(w, active)
         \/ \E w \in Nodes : WorkerStep(w)
         \/ UNCHANGED vars
  BY DEF Next, WorkerStep

LEMMA HolderStep ==
  ASSUME TypeOK, HolderInv, [Next]_vars
  PROVE  HolderInv'
<1> USE DEF HolderInv, tableVars, workerVars
<1>0. NoCall \notin Calls /\ NoCall \notin Nodes \X {0}
  BY DEF Calls, NoCall
<1>1. CASE PutSucceeds \/ PutFails \/ DeleteAnswered \/ OrchRestart
  BY <1>0, <1>1 DEF PutSucceeds, PutFails, DeleteAnswered, OrchRestart, NewConsistentHashRing
<1>2. ASSUME NEW w \in Nodes, UnregisterNode(w) PROVE HolderInv'
  <2>1. holder' = <<w, 0>> /\ holder'[1] = w /\ holder' \notin Calls
    BY <1>2 DEF UnregisterNode, Calls
  <2>2. worker'[w] # "registered"
    BY <1>2 DEF UnregisterNode, TypeOK
  <2> QED
    BY <2>1, <2>2
<1>3. ASSUME NEW w \in Nodes, NEW n \in 1 .. MaxAttempts, RegisterNode(w, n) PROVE HolderInv'
  <2>1. holder' = <<w, n>> /\ holder'[1] = w /\ holder' \notin Nodes \X {0}
    BY <1>3 DEF RegisterNode
  <2> QED
    BY <1>3, <2>1 DEF RegisterNode
<1>4. ASSUME NEW w \in Nodes, NEW active \in BOOLEAN, UpdateStatus(w, active) PROVE HolderInv'
  BY <1>4 DEF UpdateStatus
<1>5. ASSUME NEW w \in Nodes, WorkerStep(w) PROVE HolderInv'
  BY <1>5, HolderNode, WorkersStandBack
<1>6. CASE UNCHANGED vars
  BY <1>6 DEF vars
<1> QED
  BY <1>1, <1>2, <1>3, <1>4, <1>5, <1>6, StepKinds

LEMMA RingStep ==
  ASSUME TypeOK, RingInv, [Next]_vars
  PROVE  RingInv'
<1>1. ASSUME UNCHANGED <<nodes, keys, hashMap>> PROVE RingInv'
  BY <1>1 DEF RingInv
<1>2. CASE OrchRestart
  BY <1>2 DEF OrchRestart, NewConsistentHashRing, RingInv
<1>3. ASSUME NEW w \in Nodes, UnregisterNode(w) PROVE RingInv'
  <2>1. /\ nodes' = nodes \ {w}
        /\ hashMap' = [p \in {q \in DOMAIN hashMap : hashMap[q] # w} |-> hashMap[p]]
        /\ keys' = DOMAIN hashMap'
    BY <1>3 DEF UnregisterNode, Remove
  <2> QED
    BY <2>1 DEF RingInv
<1>4. ASSUME NEW w \in Nodes, NEW n \in 1 .. MaxAttempts, RegisterNode(w, n) PROVE RingInv'
  <2>1. /\ nodes' = nodes \cup {w} /\ keys' = keys \cup Virtual[w]
        /\ hashMap' = [p \in DOMAIN hashMap \cup Virtual[w] |->
                        IF p \in Virtual[w] THEN w ELSE hashMap[p]]
    BY <1>4 DEF RegisterNode, Add
  <2>2. keys' = DOMAIN hashMap' /\ \A p \in keys' : hashMap'[p] \in nodes'
    BY <2>1 DEF RingInv
  <2>3. ASSUME NEW v \in nodes', NEW p \in Points, Own(v, p)
        PROVE  p \in keys' /\ hashMap'[p] = v
    BY <2>1, <2>3 DEF RingInv, Own, TypeOK
  <2> QED
    BY <2>2, <2>3 DEF RingInv
<1>5. CASE PutSucceeds \/ PutFails \/ DeleteAnswered
  BY <1>1, <1>5 DEF PutSucceeds, PutFails, DeleteAnswered, tableVars
<1>6. ASSUME NEW w \in Nodes, NEW active \in BOOLEAN, UpdateStatus(w, active) PROVE RingInv'
  BY <1>1, <1>6 DEF UpdateStatus
<1>7. ASSUME NEW w \in Nodes, WorkerStep(w) PROVE RingInv'
  BY <1>1, <1>7, WorkersStandBack
<1>8. CASE UNCHANGED vars
  BY <1>1, <1>8 DEF vars, tableVars
<1> QED
  BY <1>2, <1>3, <1>4, <1>5, <1>6, <1>7, <1>8, StepKinds

LEMMA TableStep ==
  ASSUME TableInv, [Next]_vars
  PROVE  TableInv'
  BY TypeStep, HolderStep, RingStep DEF TableInv

\* The inductive invariant: the types, the lock, and the ring.
THEOREM TableInvariant == Spec => []TableInv
BY InitTable, TableStep, PTL DEF Spec

\* Table, ring, calls and workers keep their types: no worker calls more often
\* than it may, and the ring leads to nodes only.
THEOREM TypeCorrect == Spec => []TypeOK
<1>1. TableInv => TypeOK
  BY DEF TableInv
<1> QED
  BY <1>1, TableInvariant, PTL

-----------------------------------------------------------------------------
(***************************************************************************)
(* A worker that was told.                                                 *)
(***************************************************************************)
Listed == \A w \in Nodes : worker[w] = "registered" => w \in nodes \cap etcd

LEMMA InitTold == Init => Listed
  BY DEF Init, Listed

LEMMA ToldStep ==
  ASSUME TableInv, Listed, [Next]_vars
  PROVE  Listed'
<1> USE DEF Listed, tableVars, workerVars
<1>0. TypeOK /\ HolderInv
  BY DEF TableInv
<1>1. CASE PutSucceeds
  <2>1. holder[1] \in nodes /\ holder[1] \in Nodes
    BY <1>0, <1>1, HolderNode DEF HolderInv, PutSucceeds
  <2>2. nodes' = nodes /\ etcd' = etcd \cup {holder[1]}
    BY <1>1 DEF PutSucceeds
  <2>3. \A v \in Nodes \ {holder[1]} : worker'[v] = worker[v]
    BY <1>0, <1>1 DEF PutSucceeds, Hear, TypeOK
  <2> QED
    BY <2>1, <2>2, <2>3
<1>2. CASE PutFails
  <2>1. \A v \in Nodes : worker'[v] = "registered" => worker[v] = "registered"
    BY <1>0, <1>2, HolderNode DEF PutFails, HearFailure, NextAttempt, TypeOK
  <2> QED
    BY <1>2, <2>1 DEF PutFails
<1>3. CASE DeleteAnswered
  <2>1. worker[holder[1]] # "registered"
    BY <1>0, <1>3 DEF HolderInv, DeleteAnswered
  <2>2. nodes' = nodes /\ worker' = worker /\ etcd \ {holder[1]} \subseteq etcd'
    BY <1>3 DEF DeleteAnswered
  <2> QED
    BY <2>1, <2>2
<1>4. CASE OrchRestart
  BY <1>4 DEF OrchRestart, NewConsistentHashRing
<1>5. ASSUME NEW w \in Nodes, UnregisterNode(w) PROVE Listed'
  <2>1. \A v \in Nodes : worker'[v] = "registered" => v # w /\ worker[v] = "registered"
    BY <1>0, <1>5 DEF UnregisterNode, TypeOK
  <2> QED
    BY <1>5, <2>1 DEF UnregisterNode
<1>6. ASSUME NEW w \in Nodes, NEW n \in 1 .. MaxAttempts, RegisterNode(w, n) PROVE Listed'
  BY <1>6 DEF RegisterNode
<1>7. ASSUME NEW w \in Nodes, NEW active \in BOOLEAN, UpdateStatus(w, active) PROVE Listed'
  BY <1>7 DEF UpdateStatus
<1>8. ASSUME NEW w \in Nodes, WorkerStep(w) PROVE Listed'
  BY <1>0, <1>8, WorkersStandBack
<1>9. CASE UNCHANGED vars
  BY <1>9 DEF vars
<1> QED
  BY <1>1, <1>2, <1>3, <1>4, <1>5, <1>6, <1>7, <1>8, <1>9, StepKinds

\* A worker that heard that it is registered is in the table and in etcd until
\* the orchestrator dies or somebody unregisters it, whichever of its calls was
\* answered, and whichever handlers its lost calls have left behind; and on the
\* ring nobody has taken from it the points that only it has.
THEOREM ToldAreListed == Spec => []ToldMeansListed
<1>1. Spec => []Listed
  BY InitTold, ToldStep, TableInvariant, PTL DEF Spec
<1>2. TableInv /\ Listed => ToldMeansListed
  BY DEF TableInv, RingInv, Listed, ToldMeansListed
<1> QED
  BY <1>1, <1>2, TableInvariant, PTL

-----------------------------------------------------------------------------
(***************************************************************************)
(* The ring finds a node.                                                  *)
(***************************************************************************)
LEMMA GetFinds ==
  ASSUME TableInv, keys # {}, NEW p \in Points
  PROVE  \E k \in keys : IsNext(k, keys, p) /\ Get(p) = hashMap[k]
<1>1. keys \in SUBSET Nat /\ p \in Nat
  BY DEF TableInv, TypeOK
<1>2. IsNext(FirstFrom(keys, p), keys, p)
  BY <1>1, FirstIsNext
<1>3. Get(p) = hashMap[FirstFrom(keys, p)]
  BY DEF Get, FirstFrom, Following
<1> QED
  BY <1>2, <1>3 DEF IsNext

LEMMA InitUsed == Init => RingIsUsed
<1> SUFFICES ASSUME Init, nodes # {} PROVE keys # {}
  BY DEF RingIsUsed
<1>1. PICK w \in Old : TRUE
  BY DEF Init
<1>2. Virtual[w] # {}
  BY <1>1
<1> QED
  BY <1>1, <1>2 DEF Init

LEMMA UsedStep ==
  ASSUME PointsRemain, TableInv, RingIsUsed, [Next]_vars
  PROVE  RingIsUsed'
<1>0. TypeOK
  BY DEF TableInv
<1>1. ASSUME UNCHANGED <<nodes, keys, hashMap>> PROVE RingIsUsed'
  BY <1>1 DEF RingIsUsed
<1>2. CASE OrchRestart
  BY <1>2 DEF OrchRestart, NewConsistentHashRing, RingIsUsed
<1>3. ASSUME NEW w \in Nodes, UnregisterNode(w) PROVE RingIsUsed'
  <2> SUFFICES ASSUME NEW v \in nodes' PROVE keys' # {}
    BY DEF RingIsUsed
  <2>1. v \in Nodes /\ "unregister" \in Env
    BY <1>0, <1>3 DEF UnregisterNode, TypeOK
  <2>2. PICK p \in Points : Own(v, p)
    BY <2>1 DEF PointsRemain
  <2>3. RingInv'
    BY RingStep DEF TableInv
  <2> QED
    BY <2>2, <2>3 DEF RingInv
<1>4. ASSUME NEW w \in Nodes, NEW n \in 1 .. MaxAttempts, RegisterNode(w, n) PROVE RingIsUsed'
  <2>1. Virtual[w] # {}
    OBVIOUS
  <2> QED
    BY <1>4, <2>1 DEF RegisterNode, Add, RingIsUsed
<1>5. CASE PutSucceeds \/ PutFails \/ DeleteAnswered
  BY <1>1, <1>5 DEF PutSucceeds, PutFails, DeleteAnswered, tableVars
<1>6. ASSUME NEW w \in Nodes, NEW active \in BOOLEAN, UpdateStatus(w, active) PROVE RingIsUsed'
  BY <1>1, <1>6 DEF UpdateStatus
<1>7. ASSUME NEW w \in Nodes, WorkerStep(w) PROVE RingIsUsed'
  BY <1>0, <1>1, <1>7, WorkersStandBack
<1>8. CASE UNCHANGED vars
  BY <1>1, <1>8 DEF vars, tableVars
<1> QED
  BY <1>2, <1>3, <1>4, <1>5, <1>6, <1>7, <1>8, StepKinds

\* Keys and map of the ring agree, and whenever there is a node the ring finds
\* one for every key, however often nodes are added and whatever they overwrite.
THEOREM RingFindsANode ==
  ASSUME PointsRemain
  PROVE  Spec => []RingIsCovered
<1>1. TableInv /\ RingIsUsed => RingIsCovered
  <2> SUFFICES ASSUME TableInv, RingIsUsed, nodes # {}, NEW p \in Points
               PROVE  keys = DOMAIN hashMap /\ GetNodeForKey(p) # NoNode
    BY DEF RingIsCovered, TableInv, RingInv
  <2>1. PICK k \in keys : Get(p) = hashMap[k]
    BY GetFinds DEF RingIsUsed
  <2>2. Get(p) \in nodes /\ nodes \subseteq Nodes
    BY <2>1 DEF TableInv, RingInv, TypeOK
  <2> QED
    BY <2>2 DEF GetNodeForKey, TableInv, RingInv
<1>2. RingIsUsed /\ TableInv /\ [Next]_vars => RingIsUsed'
  BY UsedStep
<1> QED
  BY <1>1, <1>2, InitUsed, TableInvariant, PTL DEF Spec

-----------------------------------------------------------------------------
(***************************************************************************)
(* A change of the fleet.                                                  *)
(***************************************************************************)
LEMMA GetIs ==
  ASSUME TableInv, NEW p \in Points, NEW k \in keys, IsNext(k, keys, p)
  PROVE  Get(p) = hashMap[k]
<1>1. keys \in SUBSET Nat /\ p \in Nat /\ keys # {}
  BY DEF TableInv, TypeOK
<1>2. PICK j \in keys : IsNext(j, keys, p) /\ Get(p) = hashMap[j]
  BY <1>1, GetFinds
<1>3. j = k
  BY <1>1, <1>2, NextIsUnique
<1> QED
  BY <1>2, <1>3

LEMMA GetIsAfter ==
  ASSUME TableInv', NEW p \in Points, keys' # {}
  PROVE  \E k \in keys' : IsNext(k, keys', p) /\ Get(p)' = hashMap'[k]
<1>1. keys' \in SUBSET Nat /\ p \in Nat
  BY DEF TableInv, TypeOK
<1>2. IsNext(FirstFrom(keys', p), keys', p)
  BY <1>1, FirstIsNext
<1>3. Get(p)' = hashMap'[FirstFrom(keys', p)]
  BY DEF Get, FirstFrom, Following
<1> QED
  BY <1>2, <1>3 DEF IsNext

\* A node that comes takes keys and gives none.
LEMMA AddTakes ==
  ASSUME TableInv, TableInv', NEW w \in Nodes, Add(w), NEW p \in Points, Get(p) # Get(p)'
  PROVE  Get(p)' = w
<1>1. /\ keys' = keys \cup Virtual[w] /\ keys = DOMAIN hashMap
      /\ hashMap' = [q \in keys \cup Virtual[w] |-> IF q \in Virtual[w] THEN w ELSE hashMap[q]]
  BY DEF Add, TableInv, RingInv
<1>2. keys' # {}
  BY <1>1
<1>3. PICK k \in keys' : IsNext(k, keys', p) /\ Get(p)' = hashMap'[k]
  BY <1>2, GetIsAfter
<1>4. CASE k \in Virtual[w]
  BY <1>1, <1>3, <1>4
<1>5. CASE k \notin Virtual[w]
  <2>1. k \in keys /\ hashMap'[k] = hashMap[k]
    BY <1>1, <1>5
  <2>2. IsNext(k, keys, p)
    BY <1>1, <1>3, <2>1 DEF IsNext
  <2>3. Get(p) = hashMap[k]
    BY <2>1, <2>2, GetIs
  <2> QED
    BY <1>3, <2>1, <2>3
<1> QED
  BY <1>4, <1>5

\* A node that goes gives its keys and nobody else's.
LEMMA RemoveGives ==
  ASSUME TableInv, TableInv', NEW w \in Nodes, Remove(w), NEW p \in Points, Get(p) # Get(p)'
  PROVE  Get(p) = w
<1>1. /\ hashMap' = [q \in {r \in keys : hashMap[r] # w} |-> hashMap[q]]
      /\ keys' = {r \in keys : hashMap[r] # w}
  BY DEF Remove, TableInv, RingInv
<1>2. CASE keys = {}
  BY <1>1, <1>2 DEF Get
<1>3. CASE keys # {}
  <2>1. PICK k \in keys : IsNext(k, keys, p) /\ Get(p) = hashMap[k]
    BY <1>3, GetFinds
  <2> SUFFICES ASSUME hashMap[k] # w PROVE FALSE
    BY <2>1
  <2>2. k \in keys' /\ hashMap'[k] = hashMap[k]
    BY <1>1
  <2>3. IsNext(k, keys', p)
    BY <1>1, <2>1, <2>2 DEF IsNext
  <2>4. PICK j \in keys' : IsNext(j, keys', p) /\ Get(p)' = hashMap'[j]
    BY <2>2, GetIsAfter
  <2>5. keys' \in SUBSET Nat /\ p \in Nat
    BY DEF TableInv, TypeOK
  <2>6. j = k
    BY <2>3, <2>4, <2>5, NextIsUnique
  <2> QED
    BY <2>1, <2>2, <2>4, <2>6
<1> QED
  BY <1>2, <1>3

MovesOnly ==
  OrchRestart \/ \A p \in Moved :
    /\ Unlocked /\ ~Unlocked'
    /\ holder'[1] = IF holder'[2] > 0 THEN Get(p)' ELSE Get(p)

LEMMA MovesStep ==
  ASSUME TableInv, TableInv', [Next]_vars
  PROVE  MovesOnly
<1> USE DEF MovesOnly
<1>1. ASSUME UNCHANGED <<keys, hashMap>> PROVE MovesOnly
  BY <1>1 DEF Moved, Get
<1>2. ASSUME NEW w \in Nodes, UnregisterNode(w) PROVE MovesOnly
  <2>1. Unlocked /\ holder' = <<w, 0>> /\ w # NoNode
    BY <1>2, NodeAssumption DEF UnregisterNode
  <2>2. ~Unlocked' /\ ~(holder'[2] > 0) /\ holder'[1] = w
    BY <2>1 DEF Unlocked, NoCall
  <2>3. \A p \in Moved : Get(p) = w
    BY <1>2, RemoveGives DEF UnregisterNode, Moved
  <2> QED
    BY <2>1, <2>2, <2>3
<1>3. ASSUME NEW w \in Nodes, NEW n \in 1 .. MaxAttempts, RegisterNode(w, n) PROVE MovesOnly
  <2>1. Unlocked /\ holder' = <<w, n>> /\ w # NoNode
    BY <1>3, NodeAssumption DEF RegisterNode
  <2>2. ~Unlocked' /\ holder'[2] > 0 /\ holder'[1] = w
    BY <2>1 DEF Unlocked, NoCall
  <2>3. \A p \in Moved : Get(p)' = w
    BY <1>3, AddTakes DEF RegisterNode, Moved
  <2> QED
    BY <2>1, <2>2, <2>3
<1>4. CASE PutSucceeds \/ PutFails \/ DeleteAnswered \/ UNCHANGED vars
  <2>1. UNCHANGED <<keys, hashMap>>
    BY <1>4 DEF PutSucceeds, PutFails, DeleteAnswered, tableVars, vars
  <2> QED
    BY <1>1, <2>1
<1>5. ASSUME NEW w \in Nodes, NEW active \in BOOLEAN, UpdateStatus(w, active) PROVE MovesOnly
  BY <1>1, <1>5 DEF UpdateStatus
<1>6. ASSUME NEW w \in Nodes, WorkerStep(w) PROVE MovesOnly
  BY <1>1, <1>6, WorkersStandBack DEF TableInv
<1> QED
  BY <1>2, <1>3, <1>4, <1>5, <1>6, StepKinds

\* Registering a node moves keys to that node only, unregistering one only keys
\* that were its own, also when the two share points with others.
THEOREM OnlyOwnKeysMove == Spec => MovesOnlyItsOwn
<1>1. TableInv /\ TableInv' /\ [Next]_vars => [MovesOnly]_vars
  BY MovesStep
<1>2. [][MovesOnly]_vars => MovesOnlyItsOwn
  BY PTL DEF MovesOnly, MovesOnlyItsOwn
<1> QED
  BY <1>1, <1>2, TableInvariant, PTL DEF Spec
=============================================================================
