---------------------------- MODULE AllocationProofs ----------------------------
(***************************************************************************)
(* Proofs about the allocation of virtual users: no rounding loses or      *)
(* invents one, for every fleet, every width of an integer, every order    *)
(* the nodes are listed in and every way a product is truncated.           *)
(***************************************************************************)
EXTENDS Allocation, Sums

Count == Cardinality(Nodes)
Parts == [left : Int, to : [Nodes -> Int]]

LEMMA OrderFacts ==
  ASSUME NEW order \in Orders
  PROVE  /\ Count \in Nat /\ order \in [1 .. Count -> Nodes] /\ DOMAIN order = 1 .. Count
         /\ \A i, j \in 1 .. Count : i # j => order[i] # order[j]
         /\ \A n \in Nodes : \E i \in 1 .. Count : order[i] = n
<1>1. Count \in Nat
  BY NodesAreFinite, FS_CardinalityType DEF Count
<1>2. /\ order \in [1 .. Count -> Nodes] /\ DOMAIN order = 1 .. Count
      /\ \A i, j \in 1 .. Count : i # j => order[i] # order[j]
  BY DEF Orders, SetToSeqs, Count
<1>3. order \in Injection(1 .. Count, Nodes)
  BY <1>2 DEF Injection, IsInjective
<1>4. Cardinality(1 .. Count) = Count
  BY <1>1, FS_Interval
<1>5. order \in Surjection(1 .. Count, Nodes)
  BY <1>3, <1>4, NodesAreFinite, FS_Injection DEF Count
<1> QED
  BY <1>1, <1>2, <1>5 DEF Surjection

LEMMA GiveFacts ==
  ASSUME NEW part \in Parts, NEW n \in Nodes, NEW vus \in Int
  PROVE  /\ Give(part, n, vus) \in Parts
         /\ part.left \in Int /\ part.to \in [Nodes -> Int]
         /\ part.left <= 0 \/ vus <= 0 => Give(part, n, vus) = part
         /\ ~(part.left <= 0 \/ vus <= 0) =>
              /\ Give(part, n, vus).left = part.left - vus
              /\ Give(part, n, vus).to[n] = part.to[n] + vus
              /\ \A m \in Nodes \ {n} : Give(part, n, vus).to[m] = part.to[m]
<1>1. part.left \in Int /\ part.to \in [Nodes -> Int]
  BY DEF Parts
<1>2. CASE part.left <= 0 \/ vus <= 0
  BY <1>1, <1>2 DEF Give
<1>3. CASE ~(part.left <= 0 \/ vus <= 0)
  <2>1. Give(part, n, vus)
          = [left |-> part.left - vus, to |-> [part.to EXCEPT ![n] = part.to[n] + vus]]
    BY <1>3 DEF Give
  <2>2. [part.to EXCEPT ![n] = part.to[n] + vus] \in [Nodes -> Int] /\ part.left - vus \in Int
    BY <1>1
  <2>3. Give(part, n, vus) \in Parts
    BY <2>1, <2>2 DEF Parts
  <2> QED
    BY <1>1, <1>3, <2>1, <2>3
<1> QED
  BY <1>2, <1>3

-----------------------------------------------------------------------------
(***************************************************************************)
(* A round of turns, in each of which a worker is given at most what is    *)
(* left.                                                                   *)
(***************************************************************************)
Given(p, want, k) == IF p[k - 1].left <= 0 \/ want[k] <= 0 THEN 0 ELSE want[k]

Round(p, order, want) ==
  /\ p \in [0 .. Count -> Parts] /\ want \in [1 .. Count -> Int]
  /\ \A k \in 1 .. Count :
       /\ p[k] = Give(p[k - 1], order[k], want[k])
       /\ p[k - 1].left > 0 => want[k] <= p[k - 1].left

\* After k turns: nothing is lost, and the first k have been given their part.
After(p, order, want, k) ==
  /\ SumFunction(p[k].to) + p[k].left = SumFunction(p[0].to) + p[0].left
  /\ p[0].left >= 0 => p[k].left >= 0
  /\ \A j \in 0 .. k : p[k].left <= p[j].left
  /\ \A j \in 1 .. Count :
       p[k].to[order[j]] = p[0].to[order[j]] + (IF j <= k THEN Given(p, want, j) ELSE 0)

LEMMA RoundIsFair ==
  ASSUME NEW order \in Orders, NEW p, NEW want, Round(p, order, want)
  PROVE  \A k \in 0 .. Count : After(p, order, want, k)
<1>0. /\ Count \in Nat /\ order \in [1 .. Count -> Nodes]
      /\ \A i, j \in 1 .. Count : i # j => order[i] # order[j]
  BY OrderFacts
<1>1. ASSUME NEW k \in 0 .. Count
      PROVE  p[k] \in Parts /\ p[k].left \in Int /\ p[k].to \in [Nodes -> Int]
             /\ SumFunction(p[k].to) \in Int /\ \A j \in 1 .. Count : p[k].to[order[j]] \in Int
  <2>1. p[k] \in Parts
    BY DEF Round
  <2>2. p[k].left \in Int /\ p[k].to \in [Nodes -> Int]
    BY <2>1 DEF Parts
  <2>3. SumFunction(p[k].to) \in Int
    BY <2>2, NodesAreFinite, SumOfAll
  <2> QED
    BY <1>0, <2>1, <2>2, <2>3
<1>2. 0 \in 0 .. Count
  BY <1>0
<1>3. After(p, order, want, 0)
  BY <1>0, <1>1, <1>2 DEF After
<1>4. ASSUME NEW k \in 1 .. Count, After(p, order, want, k - 1) PROVE After(p, order, want, k)
  <2>1. k - 1 \in 0 .. Count /\ k \in 0 .. Count /\ k \in Nat
    BY <1>0
  <2>2. PICK a, b, n, x : a = p[k - 1] /\ b = p[k] /\ n = order[k] /\ x = want[k]
    OBVIOUS
  <2>3. /\ a \in Parts /\ a.left \in Int /\ a.to \in [Nodes -> Int] /\ SumFunction(a.to) \in Int
        /\ b \in Parts /\ b.left \in Int /\ b.to \in [Nodes -> Int] /\ SumFunction(b.to) \in Int
    BY <1>1, <2>1, <2>2
  <2>4. n \in Nodes /\ x \in Int /\ b = Give(a, n, x) /\ (a.left > 0 => x <= a.left)
    <3>1. order[k] \in Nodes /\ want[k] \in Int
      BY <1>0 DEF Round
    <3>2. p[k] = Give(p[k - 1], order[k], want[k]) /\ (p[k - 1].left > 0 => want[k] <= p[k - 1].left)
      BY Zenon DEF Round
    <3> QED
      BY <2>2, <3>1, <3>2, Zenon
  <2>5. PICK y : y = Given(p, want, k)
    OBVIOUS
  <2>6. /\ y \in Int /\ y >= 0 /\ (a.left >= 0 => y <= a.left) /\ b.left = a.left - y
        /\ b.to[n] = a.to[n] + y /\ \A m \in Nodes \ {n} : b.to[m] = a.to[m]
    <3>1. y = IF a.left <= 0 \/ x <= 0 THEN 0 ELSE x
      BY <2>2, <2>5 DEF Given
    <3>2. CASE a.left <= 0 \/ x <= 0
      <4>1. b = a
        BY <2>3, <2>4, <3>2, GiveFacts
      <4>2. a.to[n] \in Int
        BY <2>3, <2>4
      <4> QED
        BY <2>3, <3>1, <3>2, <4>1, <4>2
    <3>3. CASE ~(a.left <= 0 \/ x <= 0)
      <4>1. /\ b.left = a.left - x /\ b.to[n] = a.to[n] + x
            /\ \A m \in Nodes \ {n} : b.to[m] = a.to[m]
        <5>1. a \in Parts /\ n \in Nodes /\ x \in Int
          BY <2>3, <2>4
        <5>2. /\ Give(a, n, x).left = a.left - x /\ Give(a, n, x).to[n] = a.to[n] + x
              /\ \A m \in Nodes \ {n} : Give(a, n, x).to[m] = a.to[m]
          BY <3>3, <5>1, GiveFacts, Zenon
        <5> QED
          BY <2>4, <5>2, Zenon
      <4>2. y = x /\ x >= 0 /\ x <= a.left
        BY <2>3, <2>4, <3>1, <3>3
      <4> QED
        BY <2>4, <4>1, <4>2
    <3> QED
      BY <3>2, <3>3
  <2>7. SumFunction(b.to) + b.left = SumFunction(a.to) + a.left
    <3>1. PICK f, g : f = a.to /\ g = b.to
      OBVIOUS
    <3>2. SumFunction(g) = SumFunction(f) + (g[n] - f[n])
      BY <2>3, <2>4, <2>6, <3>1, NodesAreFinite, SumChanged
    <3>3. a.to[n] \in Int
      BY <2>3, <2>4
    <3> QED
      BY <2>3, <2>6, <3>1, <3>2, <3>3
  <2>8. p[0].left >= 0 => b.left >= 0
    BY <1>4, <2>2, <2>3, <2>6 DEF After
  <2>9. ASSUME NEW j \in 0 .. k PROVE b.left <= p[j].left
    <3>1. CASE j = k
      BY <2>2, <2>3, <3>1
    <3>2. CASE j # k
      <4>1. j \in 0 .. k - 1 /\ j \in 0 .. Count
        BY <1>0, <2>1, <3>2
      <4>2. a.left <= p[j].left /\ p[j].left \in Int
        BY <1>1, <1>4, <2>2, <4>1 DEF After
      <4> QED
        BY <2>3, <2>6, <4>2
    <3> QED
      BY <3>1, <3>2
  <2>10. ASSUME NEW j \in 1 .. Count
         PROVE  b.to[order[j]] = p[0].to[order[j]] + (IF j <= k THEN Given(p, want, j) ELSE 0)
    <3>1. a.to[order[j]] = p[0].to[order[j]] + (IF j <= k - 1 THEN Given(p, want, j) ELSE 0)
      BY <1>4, <2>2 DEF After
    <3>2. p[0].to[order[j]] \in Int
      BY <1>1, <1>2
    <3>3. CASE j = k
      BY <2>1, <2>2, <2>5, <2>6, <3>1, <3>2, <3>3
    <3>4. CASE j # k
      <4>1. b.to[order[j]] = a.to[order[j]]
        BY <1>0, <2>2, <2>6, <3>4
      <4>2. j <= k <=> j <= k - 1
        BY <1>0, <2>1, <3>4
      <4> QED
        BY <3>1, <4>1, <4>2
    <3> QED
      BY <3>3, <3>4
  <2>11. SumFunction(a.to) + a.left = SumFunction(p[0].to) + p[0].left
    BY <1>4, <2>2 DEF After
  <2> QED
    BY <2>2, <2>7, <2>8, <2>9, <2>10, <2>11 DEF After
<1> DEFINE A == {k \in Nat : k <= Count => After(p, order, want, k)}
<1>5. A = Nat
  <2>1. 0 \in A
    BY <1>3
  <2>2. ASSUME NEW k \in A PROVE k + 1 \in A
    <3> SUFFICES ASSUME k + 1 <= Count PROVE After(p, order, want, k + 1)
      OBVIOUS
    <3>1. k + 1 \in 1 .. Count /\ (k + 1) - 1 = k /\ After(p, order, want, k)
      BY <1>0
    <3>2. PICK i : i = k + 1
      OBVIOUS
    <3>3. i \in 1 .. Count /\ After(p, order, want, i - 1)
      BY <3>1, <3>2
    <3>4. After(p, order, want, i)
      BY <1>4, <3>3
    <3> QED
      BY <3>2, <3>4
  <2>3. A \in SUBSET Nat
    OBVIOUS
  <2> HIDE DEF A
  <2> QED
    BY <2>1, <2>2, <2>3, CountingInduction
<1> QED
  BY <1>0, <1>5

-----------------------------------------------------------------------------
(***************************************************************************)
(* The three loops are rounds.  amount[n][v] is what worker n is to get    *)
(* when its turn comes at v.                                               *)
(***************************************************************************)
\* it is the function by which the loop over order is defined.
Loop(it, part, order, amount) ==
  it = [s \in SUBSET (1 .. Count) |->
          IF s = {} THEN part
          ELSE Give(it[s \ {Max(s)}], order[Max(s)],
                    amount[order[Max(s)]][it[s \ {Max(s)}]])]

\* The same, wherever it stays in Parts.
LoopIn(it, part, order, amount) ==
  /\ it[{}] = part
  /\ \A s \in SUBSET (1 .. Count) :
       s # {} /\ it[s \ {Max(s)}] \in Parts =>
         it[s] = Give(it[s \ {Max(s)}], order[Max(s)], amount[order[Max(s)]][it[s \ {Max(s)}]])

RunsTo(p, want, order, part, amount, result) ==
  /\ Round(p, order, want) /\ p[0] = part /\ p[Count] = result
  /\ \A k \in 1 .. Count : want[k] = amount[order[k]][p[k - 1]]

LEMMA TurnsExist ==
  ASSUME NEW order \in Orders, NEW part \in Parts, NEW amount \in [Nodes -> [Parts -> Int]]
  PROVE  \E h \in [SUBSET (1 .. Count) -> Parts] : Loop(h, part, order, amount)
<1>0. Count \in Nat /\ order \in [1 .. Count -> Nodes]
  BY OrderFacts
<1>1. PICK g : g = [k \in 1 .. Count |-> [v \in Parts |-> Give(v, order[k], amount[order[k]][v])]]
  OBVIOUS
<1>2. ASSUME NEW k \in 1 .. Count, NEW v \in Parts
      PROVE  Give(v, order[k], amount[order[k]][v]) \in Parts
  <2>1. order[k] \in Nodes /\ amount[order[k]][v] \in Int
    BY <1>0
  <2> QED
    BY <2>1, GiveFacts
<1>3. g \in [1 .. Count -> [Parts -> Parts]]
  BY <1>1, <1>2
<1>4. PICK h \in [SUBSET (1 .. Count) -> Parts] : Folding(h, Count, part, g)
  BY <1>0, <1>3, LoopExists
<1>5. ASSUME NEW s \in SUBSET (1 .. Count), s # {}
      PROVE  g[Max(s)][h[s \ {Max(s)}]] =
               Give(h[s \ {Max(s)}], order[Max(s)], amount[order[Max(s)]][h[s \ {Max(s)}]])
  <2>1. Max(s) \in 1 .. Count
    BY <1>0, <1>5, MaxIsChosen
  <2>2. h[s \ {Max(s)}] \in Parts
    BY <1>4
  <2> QED
    BY <1>1, <2>1, <2>2
<1>6. Loop(h, part, order, amount)
  BY <1>4, <1>5 DEF Loop, Folding
<1> QED
  BY <1>6

LEMMA TurnsRun ==
  ASSUME NEW order \in Orders, NEW part \in Parts, NEW amount \in [Nodes -> [Parts -> Int]],
         NEW h, LoopIn(h, part, order, amount),
         \A n \in Nodes, v \in Parts : v.left > 0 => amount[n][v] <= v.left
  PROVE  \E p, want : RunsTo(p, want, order, part, amount, h[1 .. Count])
<1>0. Count \in Nat /\ order \in [1 .. Count -> Nodes]
  BY OrderFacts
<1>1. PICK g : g = [k \in 1 .. Count |-> [v \in Parts |-> Give(v, order[k], amount[order[k]][v])]]
  OBVIOUS
<1>2. ASSUME NEW k \in 1 .. Count, NEW v \in Parts
      PROVE  Give(v, order[k], amount[order[k]][v]) \in Parts
  <2>1. order[k] \in Nodes /\ amount[order[k]][v] \in Int
    BY <1>0
  <2> QED
    BY <2>1, GiveFacts
<1>3. g \in [1 .. Count -> [Parts -> Parts]]
  BY <1>1, <1>2
<1>4. h[{}] = part
  BY DEF LoopIn
<1>5. ASSUME NEW s \in SUBSET (1 .. Count), s # {}, h[s \ {Max(s)}] \in Parts
      PROVE  h[s] = g[Max(s)][h[s \ {Max(s)}]]
  <2>1. Max(s) \in 1 .. Count
    BY <1>0, <1>5, MaxIsChosen
  <2>2. h[s] = Give(h[s \ {Max(s)}], order[Max(s)], amount[order[Max(s)]][h[s \ {Max(s)}]])
    BY <1>5 DEF LoopIn
  <2> QED
    BY <1>1, <1>5, <2>1, <2>2
<1>6. PICK p \in [0 .. Count -> Parts] : Turns(p, Count, part, g) /\ p[Count] = h[1 .. Count]
  <2>1. FoldingIn(h, Count, Parts, part, g)
    BY <1>4, <1>5 DEF FoldingIn
  <2> QED
    BY <1>0, <1>3, <2>1, LoopRuns
<1>7. PICK want : want = [k \in 1 .. Count |-> amount[order[k]][p[k - 1]]]
  OBVIOUS
<1>8. ASSUME NEW k \in 1 .. Count
      PROVE  /\ want[k] = amount[order[k]][p[k - 1]] /\ want[k] \in Int
             /\ p[k] = Give(p[k - 1], order[k], want[k])
             /\ p[k - 1].left > 0 => want[k] <= p[k - 1].left
  <2>1. k - 1 \in 0 .. Count /\ order[k] \in Nodes
    BY <1>0
  <2>2. PICK v : v = p[k - 1]
    OBVIOUS
  <2>3. v \in Parts /\ want[k] = amount[order[k]][v] /\ p[k] = g[k][v]
    BY <1>6, <1>7, <2>1, <2>2 DEF Turns
  <2>4. want[k] \in Int /\ (v.left > 0 => want[k] <= v.left)
    BY <2>1, <2>3
  <2>5. p[k] = Give(v, order[k], want[k])
    BY <1>1, <2>3
  <2> QED
    BY <2>2, <2>3, <2>4, <2>5
<1>9. Round(p, order, want)
  BY <1>6, <1>7, <1>8 DEF Round, Turns
<1> QED
  <2>1. p[0] = part /\ p[Count] = h[1 .. Count]
    BY <1>6 DEF Turns
  <2>2. \A k \in 1 .. Count : want[k] = amount[order[k]][p[k - 1]]
    BY <1>8
  <2> QED
    BY <1>9, <2>1, <2>2, Zenon DEF RunsTo

\* FillUp gives each worker what it still has room for.
LEMMA FillUpRuns ==
  ASSUME maxVUs \in [Nodes -> Int], NEW order \in Orders, NEW part \in Parts
  PROVE  \E p, want :
           /\ Round(p, order, want) /\ p[0] = part /\ p[Count] = FillUp(part, order)
           /\ \A k \in 1 .. Count : want[k] = Smaller(p[k - 1].left, maxVUs[order[k]] - p[k - 1].to[order[k]])
<1> DEFINE W(v, n) == Smaller(v.left, maxVUs[n] - v.to[n])
           amount == [n \in Nodes |-> [v \in Parts |-> W(v, n)]]
           Iter(it) == it = [s \in SUBSET (1 .. Count) |->
                              IF s = {} THEN part
                              ELSE Give(it[s \ {Max(s)}], order[Max(s)],
                                        W(it[s \ {Max(s)}], order[Max(s)]))]
<1>0. Count \in Nat /\ order \in [1 .. Count -> Nodes] /\ DOMAIN order = 1 .. Count
  BY OrderFacts
<1>1. FillUp(part, order) = (CHOOSE it : Iter(it))[1 .. Count]
  <2>1. FillUp(part, order) =
          (CHOOSE it : it = [s \in SUBSET (DOMAIN order) |->
                              IF s = {} THEN part
                              ELSE Give(it[s \ {Max(s)}], order[Max(s)],
                                        W(it[s \ {Max(s)}], order[Max(s)]))])[DOMAIN order]
    BY Zenon DEF FillUp, FoldLeft, MapThenFoldSet
  <2> QED
    BY <1>0, <2>1, Zenon
<1>2. ASSUME NEW n \in Nodes, NEW v \in Parts
      PROVE  W(v, n) \in Int /\ (v.left > 0 => W(v, n) <= v.left)
  <2>1. v.left \in Int /\ v.to \in [Nodes -> Int]
    BY DEF Parts
  <2>2. v.to[n] \in Int /\ maxVUs[n] \in Int
    BY <2>1
  <2> QED
    BY <2>1, <2>2 DEF Smaller
<1> HIDE DEF W
<1>3. /\ amount \in [Nodes -> [Parts -> Int]]
      /\ \A n \in Nodes, v \in Parts : amount[n][v] = W(v, n) /\ (v.left > 0 => amount[n][v] <= v.left)
  BY <1>2
<1> HIDE DEF amount
<1>4. ASSUME NEW s \in SUBSET (1 .. Count), s # {} PROVE order[Max(s)] \in Nodes
  BY <1>0, <1>4, MaxIsChosen
<1>5. \E h : Iter(h)
  <2>1. PICK h \in [SUBSET (1 .. Count) -> Parts] : Loop(h, part, order, amount)
    BY <1>3, TurnsExist
  <2>2. ASSUME NEW s \in SUBSET (1 .. Count), s # {}
        PROVE  amount[order[Max(s)]][h[s \ {Max(s)}]] = W(h[s \ {Max(s)}], order[Max(s)])
    <3>1. h[s \ {Max(s)}] \in Parts
      BY <2>1
    <3> QED
      BY <1>3, <1>4, <2>2, <3>1, Zenon
  <2>3. Iter(h)
    BY <2>1, <2>2 DEF Loop
  <2> QED
    BY <2>3
<1>6. PICK h : h = CHOOSE it : Iter(it)
  OBVIOUS
<1> HIDE DEF Iter
<1>7. Iter(h)
  BY <1>5, <1>6, Zenon
<1>8. LoopIn(h, part, order, amount)
  <2>1. ASSUME NEW s \in SUBSET (1 .. Count), s # {}, h[s \ {Max(s)}] \in Parts
        PROVE  h[s] = Give(h[s \ {Max(s)}], order[Max(s)], amount[order[Max(s)]][h[s \ {Max(s)}]])
    <3>1. h[s] = Give(h[s \ {Max(s)}], order[Max(s)], W(h[s \ {Max(s)}], order[Max(s)]))
      BY <1>7, <2>1 DEF Iter
    <3>2. amount[order[Max(s)]][h[s \ {Max(s)}]] = W(h[s \ {Max(s)}], order[Max(s)])
      BY <1>3, <1>4, <2>1, Zenon
    <3> QED
      BY <3>1, <3>2
  <2>2. h[{}] = part
    BY <1>7 DEF Iter
  <2> QED
    BY <2>1, <2>2 DEF LoopIn
<1>9. PICK p, want : RunsTo(p, want, order, part, amount, h[1 .. Count])
  <2>1. \A n \in Nodes, v \in Parts : v.left > 0 => amount[n][v] <= v.left
    BY <1>3, Zenon
  <2> QED
    BY <1>3, <1>8, <2>1, TurnsRun
<1>10. ASSUME NEW k \in 1 .. Count PROVE want[k] = Smaller(p[k - 1].left, maxVUs[order[k]] - p[k - 1].to[order[k]])
  <2>1. p[k - 1] \in Parts /\ order[k] \in Nodes
    BY <1>0, <1>9 DEF Round, RunsTo
  <2>2. want[k] = W(p[k - 1], order[k])
    BY <1>3, <1>9, <2>1, Zenon DEF RunsTo
  <2> QED
    BY <2>2 DEF W
<1>11. Round(p, order, want) /\ p[0] = part /\ p[Count] = FillUp(part, order)
  BY <1>1, <1>6, <1>9 DEF RunsTo
<1>12. \A k \in 1 .. Count : want[k] = Smaller(p[k - 1].left, maxVUs[order[k]] - p[k - 1].to[order[k]])
  BY <1>10
<1> QED
  BY <1>11, <1>12, Zenon

\* HandOut gives one to each worker that may run another.
LEMMA HandOutRuns ==
  ASSUME shares \in [Nodes -> Int], NEW order \in Orders, NEW part \in Parts
  PROVE  \E p, want :
           /\ Round(p, order, want) /\ p[0] = part /\ p[Count] = HandOut(part, order)
           /\ \A k \in 1 .. Count : want[k] = IF p[k - 1].to[order[k]] < shares[order[k]] THEN 1 ELSE 0
<1> DEFINE W(v, n) == IF v.to[n] < shares[n] THEN 1 ELSE 0
           amount == [n \in Nodes |-> [v \in Parts |-> W(v, n)]]
           Iter(it) == it = [s \in SUBSET (1 .. Count) |->
                              IF s = {} THEN part
                              ELSE Give(it[s \ {Max(s)}], order[Max(s)],
                                        W(it[s \ {Max(s)}], order[Max(s)]))]
<1>0. Count \in Nat /\ order \in [1 .. Count -> Nodes] /\ DOMAIN order = 1 .. Count
  BY OrderFacts
<1>1. HandOut(part, order) = (CHOOSE it : Iter(it))[1 .. Count]
  <2>1. HandOut(part, order) =
          (CHOOSE it : it = [s \in SUBSET (DOMAIN order) |->
                              IF s = {} THEN part
                              ELSE Give(it[s \ {Max(s)}], order[Max(s)],
                                        W(it[s \ {Max(s)}], order[Max(s)]))])[DOMAIN order]
    BY Zenon DEF HandOut, FoldLeft, MapThenFoldSet
  <2> QED
    BY <1>0, <2>1, Zenon
<1>2. ASSUME NEW n \in Nodes, NEW v \in Parts
      PROVE  W(v, n) \in Int /\ (v.left > 0 => W(v, n) <= v.left)
  <2>1. v.left \in Int
    BY DEF Parts
  <2> QED
    BY <2>1
<1> HIDE DEF W
<1>3. /\ amount \in [Nodes -> [Parts -> Int]]
      /\ \A n \in Nodes, v \in Parts : amount[n][v] = W(v, n) /\ (v.left > 0 => amount[n][v] <= v.left)
  BY <1>2
<1> HIDE DEF amount
<1>4. ASSUME NEW s \in SUBSET (1 .. Count), s # {} PROVE order[Max(s)] \in Nodes
  BY <1>0, <1>4, MaxIsChosen
<1>5. \E h : Iter(h)
  <2>1. PICK h \in [SUBSET (1 .. Count) -> Parts] : Loop(h, part, order, amount)
    BY <1>3, TurnsExist
  <2>2. ASSUME NEW s \in SUBSET (1 .. Count), s # {}
        PROVE  amount[order[Max(s)]][h[s \ {Max(s)}]] = W(h[s \ {Max(s)}], order[Max(s)])
    <3>1. h[s \ {Max(s)}] \in Parts
      BY <2>1
    <3> QED
      BY <1>3, <1>4, <2>2, <3>1, Zenon
  <2>3. Iter(h)
    BY <2>1, <2>2 DEF Loop
  <2> QED
    BY <2>3
<1>6. PICK h : h = CHOOSE it : Iter(it)
  OBVIOUS
<1> HIDE DEF Iter
<1>7. Iter(h)
  BY <1>5, <1>6, Zenon
<1>8. LoopIn(h, part, order, amount)
  <2>1. ASSUME NEW s \in SUBSET (1 .. Count), s # {}, h[s \ {Max(s)}] \in Parts
        PROVE  h[s] = Give(h[s \ {Max(s)}], order[Max(s)], amount[order[Max(s)]][h[s \ {Max(s)}]])
    <3>1. h[s] = Give(h[s \ {Max(s)}], order[Max(s)], W(h[s \ {Max(s)}], order[Max(s)]))
      BY <1>7, <2>1 DEF Iter
    <3>2. amount[order[Max(s)]][h[s \ {Max(s)}]] = W(h[s \ {Max(s)}], order[Max(s)])
      BY <1>3, <1>4, <2>1, Zenon
    <3> QED
      BY <3>1, <3>2
  <2>2. h[{}] = part
    BY <1>7 DEF Iter
  <2> QED
    BY <2>1, <2>2 DEF LoopIn
<1>9. PICK p, want : RunsTo(p, want, order, part, amount, h[1 .. Count])
  <2>1. \A n \in Nodes, v \in Parts : v.left > 0 => amount[n][v] <= v.left
    BY <1>3, Zenon
  <2> QED
    BY <1>3, <1>8, <2>1, TurnsRun
<1>10. ASSUME NEW k \in 1 .. Count PROVE want[k] = IF p[k - 1].to[order[k]] < shares[order[k]] THEN 1 ELSE 0
  <2>1. p[k - 1] \in Parts /\ order[k] \in Nodes
    BY <1>0, <1>9 DEF Round, RunsTo
  <2>2. want[k] = W(p[k - 1], order[k])
    BY <1>3, <1>9, <2>1, Zenon DEF RunsTo
  <2> QED
    BY <2>2 DEF W
<1>11. Round(p, order, want) /\ p[0] = part /\ p[Count] = HandOut(part, order)
  BY <1>1, <1>6, <1>9 DEF RunsTo
<1>12. \A k \in 1 .. Count : want[k] = IF p[k - 1].to[order[k]] < shares[order[k]] THEN 1 ELSE 0
  BY <1>10
<1> QED
  BY <1>11, <1>12, Zenon

LEMMA ShareType ==
  ASSUME NEW x \in Int, NEW y \in Int, y > 0, NEW z \in Int, NEW low
  PROVE  Share(x, y, z, low) \in Int
<1>1. PICK u : u = x * z
  OBVIOUS
<1>2. u \in Int
  BY <1>1
<1>3. u \div y \in Int
  BY <1>2
<1>4. PICK whole : whole = u \div y
  OBVIOUS
<1>5. IntMax \in Int /\ whole \in Int
  BY <1>3, <1>4, BoundsAssumption
<1> QED
  BY <1>1, <1>4, <1>5 DEF Share

\* What DistributePlan works out for the k-th worker.
InProportion(p, order, k, total, vus, low) ==
  Smaller(Smaller(Share(maxVUs[order[k]], total, vus, order[k] \in low), maxVUs[order[k]]),
          p[k - 1].left)

\* Proportional gives each worker a part in proportion, unless that is more than
\* its capacity or than is left.
LEMMA ProportionalRuns ==
  ASSUME maxVUs \in [Nodes -> Int],
         NEW total \in Int, total > 0, NEW vus \in Int, NEW low,
         NEW order \in Orders, NEW part \in Parts
  PROVE  \E p, want :
           /\ Round(p, order, want) /\ p[0] = part /\ p[Count] = Proportional(part, order, total, vus, low)
           /\ \A k \in 1 .. Count : want[k] = InProportion(p, order, k, total, vus, low)
<1> DEFINE W(v, n) == Smaller(Smaller(Share(maxVUs[n], total, vus, n \in low), maxVUs[n]), v.left)
           amount == [n \in Nodes |-> [v \in Parts |-> W(v, n)]]
           Iter(it) == it = [s \in SUBSET (1 .. Count) |->
                              IF s = {} THEN part
                              ELSE Give(it[s \ {Max(s)}], order[Max(s)],
                                        W(it[s \ {Max(s)}], order[Max(s)]))]
<1>0. Count \in Nat /\ order \in [1 .. Count -> Nodes] /\ DOMAIN order = 1 .. Count
  BY OrderFacts
<1>1. Proportional(part, order, total, vus, low) = (CHOOSE it : Iter(it))[1 .. Count]
  <2>1. Proportional(part, order, total, vus, low) =
          (CHOOSE it : it = [s \in SUBSET (DOMAIN order) |->
                              IF s = {} THEN part
                              ELSE Give(it[s \ {Max(s)}], order[Max(s)],
                                        W(it[s \ {Max(s)}], order[Max(s)]))])[DOMAIN order]
    BY Zenon DEF Proportional, FoldLeft, MapThenFoldSet
  <2> QED
    BY <1>0, <2>1, Zenon
<1>2. ASSUME NEW n \in Nodes, NEW v \in Parts
      PROVE  W(v, n) \in Int /\ (v.left > 0 => W(v, n) <= v.left)
  <2>1. v.left \in Int /\ maxVUs[n] \in Int
    BY DEF Parts
  <2>2. Share(maxVUs[n], total, vus, n \in low) \in Int
    BY <2>1, ShareType
  <2> QED
    BY <2>1, <2>2 DEF Smaller
<1> HIDE DEF W
<1>3. /\ amount \in [Nodes -> [Parts -> Int]]
      /\ \A n \in Nodes, v \in Parts : amount[n][v] = W(v, n) /\ (v.left > 0 => amount[n][v] <= v.left)
  BY <1>2
<1> HIDE DEF amount
<1>4. ASSUME NEW s \in SUBSET (1 .. Count), s # {} PROVE order[Max(s)] \in Nodes
  BY <1>0, <1>4, MaxIsChosen
<1>5. \E h : Iter(h)
  <2>1. PICK h \in [SUBSET (1 .. Count) -> Parts] : Loop(h, part, order, amount)
    BY <1>3, TurnsExist
  <2>2. ASSUME NEW s \in SUBSET (1 .. Count), s # {}
        PROVE  amount[order[Max(s)]][h[s \ {Max(s)}]] = W(h[s \ {Max(s)}], order[Max(s)])
    <3>1. h[s \ {Max(s)}] \in Parts
      BY <2>1
    <3> QED
      BY <1>3, <1>4, <2>2, <3>1, Zenon
  <2>3. Iter(h)
    BY <2>1, <2>2 DEF Loop
  <2> QED
    BY <2>3
<1>6. PICK h : h = CHOOSE it : Iter(it)
  OBVIOUS
<1> HIDE DEF Iter
<1>7. Iter(h)
  BY <1>5, <1>6, Zenon
<1>8. LoopIn(h, part, order, amount)
  <2>1. ASSUME NEW s \in SUBSET (1 .. Count), s # {}, h[s \ {Max(s)}] \in Parts
        PROVE  h[s] = Give(h[s \ {Max(s)}], order[Max(s)], amount[order[Max(s)]][h[s \ {Max(s)}]])
    <3>1. h[s] = Give(h[s \ {Max(s)}], order[Max(s)], W(h[s \ {Max(s)}], order[Max(s)]))
      BY <1>7, <2>1 DEF Iter
    <3>2. amount[order[Max(s)]][h[s \ {Max(s)}]] = W(h[s \ {Max(s)}], order[Max(s)])
      BY <1>3, <1>4, <2>1, Zenon
    <3> QED
      BY <3>1, <3>2
  <2>2. h[{}] = part
    BY <1>7 DEF Iter
  <2> QED
    BY <2>1, <2>2 DEF LoopIn
<1>9. PICK p, want : RunsTo(p, want, order, part, amount, h[1 .. Count])
  <2>1. \A n \in Nodes, v \in Parts : v.left > 0 => amount[n][v] <= v.left
    BY <1>3, Zenon
  <2> QED
    BY <1>3, <1>8, <2>1, TurnsRun
<1>10. ASSUME NEW k \in 1 .. Count PROVE want[k] = InProportion(p, order, k, total, vus, low)
  <2>1. p[k - 1] \in Parts /\ order[k] \in Nodes
    BY <1>0, <1>9 DEF Round, RunsTo
  <2>2. want[k] = W(p[k - 1], order[k])
    BY <1>3, <1>9, <2>1, Zenon DEF RunsTo
  <2> QED
    BY <2>2 DEF W, InProportion
<1>11. Round(p, order, want) /\ p[0] = part /\ p[Count] = Proportional(part, order, total, vus, low)
  BY <1>1, <1>6, <1>9 DEF RunsTo
<1>12. \A k \in 1 .. Count : want[k] = InProportion(p, order, k, total, vus, low)
  BY <1>10
<1> QED
  BY <1>11, <1>12, Zenon

-----------------------------------------------------------------------------
(***************************************************************************)
(* What the rounds come to.                                                *)
(***************************************************************************)
LEMMA RoundEnds ==
  ASSUME NEW order \in Orders, NEW p, NEW want, Round(p, order, want), p[0].left >= 0
  PROVE  /\ p[0] \in Parts /\ p[Count] \in Parts
         /\ p[Count].left \in Int /\ p[Count].left >= 0
         /\ SumFunction(p[Count].to) + p[Count].left = SumFunction(p[0].to) + p[0].left
         /\ \A k \in 1 .. Count :
              /\ p[k - 1] \in Parts /\ p[k - 1].left \in Int /\ p[k - 1].to \in [Nodes -> Int]
              /\ p[Count].left <= p[k - 1].left
              /\ p[Count].to[order[k]] = p[0].to[order[k]] + Given(p, want, k)
              /\ p[k - 1].to[order[k]] = p[0].to[order[k]]
              /\ p[0].to[order[k]] \in Int
<1>0. Count \in Nat /\ order \in [1 .. Count -> Nodes]
  BY OrderFacts
<1>1. ASSUME NEW k \in 0 .. Count
      PROVE  /\ p[k] \in Parts /\ p[k].left \in Int /\ p[k].to \in [Nodes -> Int]
             /\ After(p, order, want, k)
  BY RoundIsFair DEF Round, Parts
<1>2. 0 \in 0 .. Count /\ Count \in 0 .. Count
  BY <1>0
<1>3. ASSUME NEW k \in 1 .. Count
      PROVE  /\ p[k - 1] \in Parts /\ p[k - 1].left \in Int /\ p[k - 1].to \in [Nodes -> Int]
             /\ p[Count].left <= p[k - 1].left
             /\ p[Count].to[order[k]] = p[0].to[order[k]] + Given(p, want, k)
             /\ p[k - 1].to[order[k]] = p[0].to[order[k]]
             /\ p[0].to[order[k]] \in Int
  <2>1. k - 1 \in 0 .. Count /\ k <= Count /\ ~(k <= k - 1) /\ order[k] \in Nodes
    BY <1>0
  <2>2. p[Count].left <= p[k - 1].left
    BY <1>1, <1>2, <2>1 DEF After
  <2>3. p[Count].to[order[k]] = p[0].to[order[k]] + Given(p, want, k)
    BY <1>1, <1>2, <2>1 DEF After
  <2>4. p[0].to[order[k]] \in Int
    BY <1>1, <1>2, <2>1
  <2>5. p[k - 1].to[order[k]] = p[0].to[order[k]] + 0
    BY <1>1, <2>1 DEF After
  <2> QED
    BY <1>1, <2>1, <2>2, <2>3, <2>4, <2>5
<1>4. p[Count].left >= 0 /\ SumFunction(p[Count].to) + p[Count].left = SumFunction(p[0].to) + p[0].left
  BY <1>1, <1>2 DEF After
<1> QED
  BY <1>1, <1>2, <1>3, <1>4

LEMMA ProportionalResult ==
  ASSUME maxVUs \in [Nodes -> Nat], NEW total \in Int, total > 0, NEW vus \in Nat, NEW low,
         NEW order \in Orders, NEW r,
         r = Proportional([left |-> vus, to |-> Nothing], order, total, vus, low)
  PROVE  /\ r \in Parts /\ r.left \in Int /\ r.left >= 0 /\ SumFunction(r.to) + r.left = vus
         /\ \A n \in Nodes : r.to[n] \in Int /\ 0 <= r.to[n] /\ r.to[n] <= maxVUs[n]
<1>0. /\ Count \in Nat /\ order \in [1 .. Count -> Nodes]
      /\ \A n \in Nodes : \E i \in 1 .. Count : order[i] = n
  BY OrderFacts
<1>1. PICK part : part = [left |-> vus, to |-> Nothing]
  OBVIOUS
<1>2. part \in Parts /\ part.left = vus /\ part.to = Nothing /\ Nothing \in [Nodes -> Int]
  BY <1>1 DEF Parts, Nothing
<1>3. maxVUs \in [Nodes -> Int] /\ vus \in Int
  OBVIOUS
<1>4. PICK p, want :
        /\ Round(p, order, want) /\ p[0] = part /\ p[Count] = r
        /\ \A k \in 1 .. Count : want[k] = InProportion(p, order, k, total, vus, low)
  <2>1. part \in Parts
    BY <1>2
  <2>2. \E p, want :
          /\ Round(p, order, want) /\ p[0] = part
          /\ p[Count] = Proportional(part, order, total, vus, low)
          /\ \A k \in 1 .. Count : want[k] = InProportion(p, order, k, total, vus, low)
    BY <1>3, <2>1, ProportionalRuns
  <2>3. r = Proportional(part, order, total, vus, low)
    BY <1>1
  <2> QED
    BY <2>2, <2>3
<1>5. /\ p[Count] \in Parts /\ p[Count].left \in Int /\ p[Count].left >= 0
      /\ SumFunction(p[Count].to) + p[Count].left = SumFunction(p[0].to) + p[0].left
  BY <1>2, <1>4, RoundEnds
<1>6. SumFunction(Nothing) = 0
  BY <1>2, NodesAreFinite, SumOfNothing DEF Nothing
<1>7. SumFunction(r.to) + r.left = vus
  BY <1>2, <1>4, <1>5, <1>6
<1>8. ASSUME NEW n \in Nodes PROVE r.to[n] \in Int /\ 0 <= r.to[n] /\ r.to[n] <= maxVUs[n]
  <2>1. PICK k \in 1 .. Count : order[k] = n
    BY <1>0
  <2>2. r.to[n] = part.to[n] + Given(p, want, k) /\ p[k - 1].left \in Int
    BY <1>2, <1>4, <2>1, RoundEnds
  <2>3. part.to[n] = 0
    BY <1>2 DEF Nothing
  <2>4. PICK share, left : share = Share(maxVUs[n], total, vus, n \in low) /\ left = p[k - 1].left
    OBVIOUS
  <2>5. share \in Int /\ left \in Int /\ maxVUs[n] \in Nat
    BY <1>3, <2>2, <2>4, ShareType
  <2>6. want[k] = Smaller(Smaller(share, maxVUs[n]), left)
    BY <1>4, <2>1, <2>4 DEF InProportion
  <2>7. want[k] \in Int /\ want[k] <= maxVUs[n]
    BY <2>5, <2>6 DEF Smaller
  <2>8. Given(p, want, k) \in Int /\ Given(p, want, k) >= 0 /\ Given(p, want, k) <= maxVUs[n]
    BY <2>5, <2>7 DEF Given
  <2> QED
    BY <2>2, <2>3, <2>5, <2>8
<1> QED
  BY <1>4, <1>5, <1>7, <1>8

LEMMA FillUpResult ==
  ASSUME maxVUs \in [Nodes -> Nat], NEW part \in Parts, part.left >= 0,
         \A n \in Nodes : 0 <= part.to[n] /\ part.to[n] <= maxVUs[n],
         NEW order \in Orders, NEW r, r = FillUp(part, order)
  PROVE  /\ r \in Parts /\ r.left \in Int /\ r.left >= 0
         /\ SumFunction(r.to) + r.left = SumFunction(part.to) + part.left
         /\ \A n \in Nodes : r.to[n] \in Int /\ 0 <= r.to[n] /\ r.to[n] <= maxVUs[n]
         /\ r.left > 0 => \A n \in Nodes : r.to[n] = maxVUs[n]
<1>0. /\ Count \in Nat /\ order \in [1 .. Count -> Nodes]
      /\ \A n \in Nodes : \E i \in 1 .. Count : order[i] = n
  BY OrderFacts
<1>1. maxVUs \in [Nodes -> Int]
  OBVIOUS
<1>2. PICK p, want :
        /\ Round(p, order, want) /\ p[0] = part /\ p[Count] = r
        /\ \A k \in 1 .. Count :
             want[k] = Smaller(p[k - 1].left, maxVUs[order[k]] - p[k - 1].to[order[k]])
  BY <1>1, FillUpRuns
<1>3. /\ p[Count] \in Parts /\ p[Count].left \in Int /\ p[Count].left >= 0
      /\ SumFunction(p[Count].to) + p[Count].left = SumFunction(p[0].to) + p[0].left
  BY <1>2, RoundEnds
<1>4. ASSUME NEW n \in Nodes
      PROVE  /\ r.to[n] \in Int /\ 0 <= r.to[n] /\ r.to[n] <= maxVUs[n]
             /\ r.left > 0 => r.to[n] = maxVUs[n]
  <2>1. PICK k \in 1 .. Count : order[k] = n
    BY <1>0
  <2>2. PICK left, had : left = p[k - 1].left /\ had = part.to[n]
    OBVIOUS
  <2>3. /\ r.to[n] = had + Given(p, want, k) /\ p[k - 1].to[n] = had
        /\ left \in Int /\ r.left <= left /\ r.left \in Int /\ had \in Int
    BY <1>2, <2>1, <2>2, RoundEnds
  <2>4. want[k] = Smaller(left, maxVUs[n] - had)
    BY <1>2, <2>1, <2>2, <2>3
  <2>5. 0 <= had /\ had <= maxVUs[n] /\ maxVUs[n] \in Nat
    BY <2>2
  <2>6. Given(p, want, k) = IF left <= 0 THEN 0 ELSE Smaller(left, maxVUs[n] - had)
    BY <2>2, <2>3, <2>4, <2>5 DEF Given, Smaller
  <2>7. r.left > 0 => ~(left < maxVUs[n] - had)
    <3>1. ASSUME r.left > 0, left < maxVUs[n] - had PROVE FALSE
      <4>1. k \in 0 .. Count /\ Count \in 0 .. Count
        BY <1>0
      <4>2. p[k] = Give(p[k - 1], n, left) /\ left > 0
        BY <1>2, <2>1, <2>3, <2>4, <3>1 DEF Round, Smaller
      <4>3. p[k - 1] \in Parts
        BY <1>2, RoundEnds
      <4>4. p[k].left = left - left
        BY <2>2, <2>3, <4>2, <4>3, GiveFacts
      <4>5. After(p, order, want, Count)
        BY <1>2, <4>1, RoundIsFair
      <4>6. r.left <= p[k].left
        BY <1>2, <4>1, <4>5 DEF After
      <4> QED
        BY <2>3, <3>1, <4>4, <4>6
    <3> QED
      BY <3>1
  <2> QED
    BY <2>3, <2>5, <2>6, <2>7 DEF Smaller
<1> QED
  BY <1>2, <1>3, <1>4

\* All that is handed out of so many, where each had to[n].  Before its turn k nobody
\* from k on has been given any, and everybody before k has, who may run another,
\* if there are some left.
HandedOut(r, order, to, all) ==
  /\ r \in Parts /\ r.left \in Int /\ r.left >= 0
  /\ SumFunction(r.to) + r.left = all
  /\ \A n \in Nodes :
       /\ r.to[n] = to[n] \/ (r.to[n] = to[n] + 1 /\ to[n] < shares[n])
       /\ r.left > 0 /\ to[n] < shares[n] => r.to[n] = to[n] + 1
  /\ \A k \in 1 .. Count : r.to[order[k]] = to[order[k]] + 1 =>
       \E m \in [Nodes -> Int] :
         /\ SumFunction(m) < all
         /\ \A j \in 1 .. Count :
              /\ m[order[j]] \in {to[order[j]], to[order[j]] + 1}
              /\ j < k /\ to[order[j]] < shares[order[j]] => m[order[j]] = to[order[j]] + 1

LEMMA HandOutResult ==
  ASSUME shares \in [Nodes -> Nat], NEW part \in Parts, part.left >= 0,
         \A n \in Nodes : 0 <= part.to[n] /\ part.to[n] <= shares[n],
         NEW order \in Orders, NEW r, r = HandOut(part, order)
  PROVE  HandedOut(r, order, part.to, SumFunction(part.to) + part.left)
<1>0. /\ Count \in Nat /\ order \in [1 .. Count -> Nodes]
      /\ \A n \in Nodes : \E i \in 1 .. Count : order[i] = n
  BY OrderFacts
<1>1. shares \in [Nodes -> Int]
  OBVIOUS
<1>2. PICK p, want :
        /\ Round(p, order, want) /\ p[0] = part /\ p[Count] = r
        /\ \A k \in 1 .. Count :
             want[k] = IF p[k - 1].to[order[k]] < shares[order[k]] THEN 1 ELSE 0
  BY <1>1, HandOutRuns
<1>3. /\ p[Count] \in Parts /\ p[Count].left \in Int /\ p[Count].left >= 0
      /\ SumFunction(p[Count].to) + p[Count].left = SumFunction(p[0].to) + p[0].left
  BY <1>2, RoundEnds
<1>4. ASSUME NEW k \in 1 .. Count
      PROVE  /\ r.to[order[k]] = part.to[order[k]] + Given(p, want, k)
             /\ part.to[order[k]] \in Int
             /\ p[k - 1].left \in Int /\ r.left <= p[k - 1].left
             /\ Given(p, want, k) = IF p[k - 1].left > 0 /\ part.to[order[k]] < shares[order[k]]
                                      THEN 1 ELSE 0
  <2>1. PICK left, had : left = p[k - 1].left /\ had = part.to[order[k]]
    OBVIOUS
  <2>2. /\ r.to[order[k]] = had + Given(p, want, k) /\ p[k - 1].to[order[k]] = had
        /\ left \in Int /\ r.left <= left /\ had \in Int
    BY <1>2, <2>1, RoundEnds
  <2>3. want[k] = IF had < shares[order[k]] THEN 1 ELSE 0
    BY <1>2, <2>2
  <2>4. Given(p, want, k) = IF left > 0 /\ had < shares[order[k]] THEN 1 ELSE 0
    BY <2>1, <2>2, <2>3 DEF Given
  <2> QED
    BY <2>1, <2>2, <2>4
<1>5. ASSUME NEW n \in Nodes
      PROVE  /\ r.to[n] = part.to[n] \/ (r.to[n] = part.to[n] + 1 /\ part.to[n] < shares[n])
             /\ r.left > 0 /\ part.to[n] < shares[n] => r.to[n] = part.to[n] + 1
  <2>1. PICK k \in 1 .. Count : order[k] = n
    BY <1>0
  <2>2. /\ r.to[n] = part.to[n] + Given(p, want, k) /\ part.to[n] \in Int
        /\ p[k - 1].left \in Int /\ r.left <= p[k - 1].left /\ r.left \in Int
        /\ Given(p, want, k) = IF p[k - 1].left > 0 /\ part.to[n] < shares[n] THEN 1 ELSE 0
    BY <1>2, <1>3, <1>4, <2>1
  <2> QED
    BY <2>2
<1>6. ASSUME NEW k \in 1 .. Count, r.to[order[k]] = part.to[order[k]] + 1
      PROVE  \E m \in [Nodes -> Int] :
               /\ SumFunction(m) < SumFunction(part.to) + part.left
               /\ \A j \in 1 .. Count :
                    /\ m[order[j]] \in {part.to[order[j]], part.to[order[j]] + 1}
                    /\ j < k /\ part.to[order[j]] < shares[order[j]]
                         => m[order[j]] = part.to[order[j]] + 1
  <2>1. PICK m, left : m = p[k - 1].to /\ left = p[k - 1].left
    OBVIOUS
  <2>2. k - 1 \in 0 .. Count
    BY <1>0
  <2>3. m \in [Nodes -> Int] /\ left \in Int
    BY <1>2, <2>1, RoundEnds
  <2>4. left > 0
    BY <1>4, <1>6, <2>1
  <2>5. /\ SumFunction(m) + left = SumFunction(part.to) + part.left
        /\ \A j \in 0 .. k - 1 : left <= p[j].left
        /\ \A j \in 1 .. Count : m[order[j]] =
             part.to[order[j]] + (IF j <= k - 1 THEN Given(p, want, j) ELSE 0)
    BY <1>2, <2>1, <2>2, RoundIsFair DEF After
  <2>6. SumFunction(m) < SumFunction(part.to) + part.left
    <3>1. SumFunction(m) \in Int
      BY <2>3, NodesAreFinite, SumOfAll
    <3> QED
      BY <2>3, <2>4, <2>5, <3>1
  <2>7. ASSUME NEW j \in 1 .. Count
        PROVE  /\ m[order[j]] \in {part.to[order[j]], part.to[order[j]] + 1}
               /\ j < k /\ part.to[order[j]] < shares[order[j]]
                    => m[order[j]] = part.to[order[j]] + 1
    <3>1. /\ part.to[order[j]] \in Int /\ p[j - 1].left \in Int
          /\ Given(p, want, j) = IF p[j - 1].left > 0 /\ part.to[order[j]] < shares[order[j]]
                                   THEN 1 ELSE 0
      BY <1>4
    <3>2. m[order[j]] = part.to[order[j]] + (IF j <= k - 1 THEN Given(p, want, j) ELSE 0)
      BY <2>5
    <3>3. j < k => p[j - 1].left > 0 /\ j <= k - 1
      <4>1. j < k => j - 1 \in 0 .. k - 1 /\ j <= k - 1
        BY <1>0
      <4> QED
        BY <2>3, <2>4, <2>5, <3>1, <4>1
    <3> QED
      BY <3>1, <3>2, <3>3
  <2> QED
    BY <2>3, <2>6, <2>7
<1> QED
  BY <1>2, <1>3, <1>5, <1>6, Zenon DEF HandedOut

-----------------------------------------------------------------------------
(***************************************************************************)
(* The plan.                                                               *)
(***************************************************************************)
LEMMA DivisionFacts ==
  ASSUME NEW x \in Nat, NEW y \in Nat, y > 0
  PROVE  /\ x \div y \in Nat /\ x % y \in Nat /\ x % y < y
         /\ x = y * (x \div y) + (x % y) /\ x % y <= x
<1>1. x \div y \in Int /\ x % y \in 0 .. y - 1 /\ x = y * (x \div y) + (x % y)
  <2>1. x \div y \in Int
    OBVIOUS
  <2>2. x % y \in 0 .. y - 1
    OBVIOUS
  <2>3. x = y * (x \div y) + (x % y)
    OBVIOUS
  <2> QED
    BY <2>1, <2>2, <2>3
<1>2. PICK q, r : q = x \div y /\ r = x % y
  OBVIOUS
<1>3. q >= 0
  <2>1. CASE q < 0
    <3>1. y * q <= y * (0 - 1)
      BY <1>1, <1>2, <2>1
    <3> QED
      BY <1>1, <1>2, <3>1
  <2> QED
    BY <1>1, <1>2, <2>1
<1>4. y * q >= 0
  BY <1>1, <1>2, <1>3
<1> QED
  BY <1>1, <1>2, <1>3, <1>4

\* A sum that does not fit an int32 comes out smaller than it is.
LEMMA WrapIsBelow ==
  ASSUME NEW x \in Nat
  PROVE  Wrap(x) \in Int /\ Wrap(x) <= x
<1>1. PICK y, m : y = x + IntMax + 1 /\ m = 2 * (IntMax + 1)
  OBVIOUS
<1>2. y \in Nat /\ m \in Nat /\ m > 0 /\ IntMax \in Nat
  BY <1>1, BoundsAssumption
<1>3. y % m \in Nat /\ y % m <= y
  BY <1>2, DivisionFacts
<1>4. Wrap(x) = (y % m) - (IntMax + 1)
  BY <1>1 DEF Wrap
<1> QED
  BY <1>1, <1>2, <1>3, <1>4

LEMMA PlanIsShared ==
  ASSUME maxVUs \in [Nodes -> Nat], NEW vus \in 1 .. MaxTarget, NEW order \in Orders, NEW low,
         DistributePlan(vus, order, low)
  PROVE  /\ shares' \in [Nodes -> 0 .. MaxTarget]
         /\ SumFunction(shares') = vus
         /\ \A n \in Nodes : shares'[n] <= maxVUs[n]
<1>0. vus \in Nat /\ MaxTarget \in Nat /\ vus <= MaxTarget /\ vus > 0
  BY BoundsAssumption
<1>1. PICK all, total : all = SumFunction(maxVUs) /\ total = Wrap(all)
  OBVIOUS
<1>2. maxVUs \in [Nodes -> Int] /\ \A n \in Nodes : maxVUs[n] >= 0
  OBVIOUS
<1>3. all \in Int /\ all >= 0
  BY <1>1, <1>2, NodesAreFinite, SumOfAll
<1>4. total \in Int /\ total <= all
  BY <1>1, <1>3, WrapIsBelow
<1>5. PICK q, r : /\ q = Proportional([left |-> vus, to |-> Nothing], order, total, vus, low)
                  /\ r = FillUp(q, order)
  OBVIOUS
<1>6. total >= vus /\ shares' = r.to
  BY <1>1, <1>5 DEF DistributePlan
<1>7. /\ q \in Parts /\ q.left \in Int /\ q.left >= 0 /\ SumFunction(q.to) + q.left = vus
      /\ \A n \in Nodes : q.to[n] \in Int /\ 0 <= q.to[n] /\ q.to[n] <= maxVUs[n]
  <2>1. total > 0
    BY <1>0, <1>4, <1>6
  <2> QED
    BY <1>0, <1>4, <1>5, <2>1, ProportionalResult
<1>8. /\ r \in Parts /\ r.left \in Int /\ r.left >= 0
      /\ SumFunction(r.to) + r.left = SumFunction(q.to) + q.left
      /\ \A n \in Nodes : r.to[n] \in Int /\ 0 <= r.to[n] /\ r.to[n] <= maxVUs[n]
      /\ r.left > 0 => \A n \in Nodes : r.to[n] = maxVUs[n]
  BY <1>5, <1>7, FillUpResult
<1>9. r.to \in [Nodes -> Int] /\ SumFunction(r.to) \in Int
  <2>1. r.to \in [Nodes -> Int]
    BY <1>8 DEF Parts
  <2> QED
    BY <2>1, NodesAreFinite, SumOfAll
<1>10. r.left = 0
  <2>1. CASE r.left > 0
    <3>1. r.to = maxVUs
      BY <1>8, <1>9, <2>1
    <3> QED
      BY <1>0, <1>1, <1>3, <1>4, <1>6, <1>7, <1>8, <2>1, <3>1
  <2> QED
    BY <1>8, <2>1
<1>11. SumFunction(r.to) = vus
  BY <1>7, <1>8, <1>9, <1>10
<1>12. ASSUME NEW n \in Nodes PROVE r.to[n] \in 0 .. MaxTarget
  <2>1. r.to[n] <= SumFunction(r.to)
    BY <1>8, <1>9, NodesAreFinite, ElementIsPart
  <2> QED
    BY <1>0, <1>8, <1>11, <2>1
<1> QED
  BY <1>6, <1>8, <1>9, <1>11, <1>12

-----------------------------------------------------------------------------
(***************************************************************************)
(* A stage.                                                                *)
(***************************************************************************)
\* The exact part of a worker lies between whole and whole + 1, and a worker whose
\* part is whole already need not get another.
Splits(vus, share, sum, whole, rem) ==
  whole = (vus * share) \div sum /\ rem = (vus * share) % sum

LEMMA WholeFacts ==
  ASSUME NEW vus \in Nat, NEW share \in Nat, NEW sum \in Nat, 0 < vus, vus <= sum,
         NEW whole, NEW rem, Splits(vus, share, sum, whole, rem)
  PROVE  /\ whole \in Nat /\ whole <= share /\ rem \in Nat /\ rem < sum
         /\ vus * share = sum * whole + rem
         /\ whole >= share => rem = 0
<1>1. PICK x : x = vus * share
  OBVIOUS
<1>2. x \in Nat /\ x <= sum * share
  BY <1>1
<1>3. whole \in Nat /\ rem \in Nat /\ rem < sum /\ x = sum * whole + rem
  BY <1>1, <1>2, DivisionFacts DEF Splits
<1>4. whole <= share
  <2>1. CASE whole >= share + 1
    <3>1. sum * whole >= sum * (share + 1) /\ sum * (share + 1) = sum * share + sum
      BY <1>3, <2>1
    <3>2. sum * whole \in Int /\ sum * share \in Int
      BY <1>3
    <3> QED
      BY <1>2, <1>3, <3>1, <3>2
  <2> QED
    BY <1>3, <2>1
<1>5. whole >= share => rem = 0
  <2>1. whole >= share => whole = share
    BY <1>3, <1>4
  <2>2. sum * share \in Int
    OBVIOUS
  <2> QED
    BY <1>2, <1>3, <2>1, <2>2
<1> QED
  BY <1>1, <1>3, <1>4, <1>5

\* Who gives everybody their exact part, or more, gives away all.
LEMMA AllIsGiven ==
  ASSUME shares \in [Nodes -> Nat], NEW vus \in Nat, 0 < SumFunction(shares),
         NEW to \in [Nodes -> Int],
         \A n \in Nodes : vus * shares[n] <= SumFunction(shares) * to[n]
  PROVE  vus <= SumFunction(to)
<1>1. PICK sum, f : sum = SumFunction(shares) /\ f = shares
  OBVIOUS
<1>2. f \in [Nodes -> Int] /\ sum \in Int /\ SumFunction(to) \in Int
  BY <1>1, NodesAreFinite, SumOfAll
<1>3. vus * sum <= sum * SumFunction(to)
  <2>1. \A n \in Nodes : vus * f[n] <= sum * to[n]
    BY <1>1
  <2>2. vus \in Int
    OBVIOUS
  <2>3. vus * SumFunction(f) <= sum * SumFunction(to)
    BY <1>2, <2>1, <2>2, NodesAreFinite, SumCompared
  <2> QED
    BY <1>1, <2>3
<1>4. PICK given : given = SumFunction(to)
  OBVIOUS
<1>5. ASSUME given + 1 <= vus PROVE FALSE
  <2>1. sum * (given + 1) <= sum * vus
    BY <1>1, <1>2, <1>4, <1>5
  <2>2. sum * (given + 1) = sum * given + sum /\ sum * vus = vus * sum
        /\ sum * given \in Int /\ sum * vus \in Int
    BY <1>2, <1>4
  <2> QED
    BY <1>1, <1>2, <1>3, <1>4, <2>1, <2>2
<1> QED
  BY <1>2, <1>4, <1>5

\* Before her turn, who is given one for no remainder finds everybody at their exact
\* part or above it.
LEMMA StageIsGiven ==
  ASSUME shares \in [Nodes -> Nat], NEW vus \in Nat, 0 < vus, vus <= SumFunction(shares),
         NEW order \in Orders, LargestFirst(vus, order), NEW whole, NEW r,
         whole = [n \in Nodes |-> (vus * shares[n]) \div SumFunction(shares)],
         r = HandOut([left |-> vus - SumFunction(whole), to |-> whole], order)
  PROVE  /\ r.to \in [Nodes -> Int] /\ SumFunction(r.to) = vus
         /\ \A n \in Nodes :
              /\ 0 <= r.to[n] /\ r.to[n] <= shares[n]
              /\ -SumFunction(shares) < r.to[n] * SumFunction(shares) - vus * shares[n]
              /\ r.to[n] * SumFunction(shares) - vus * shares[n] < SumFunction(shares)
<1>0. /\ Count \in Nat /\ order \in [1 .. Count -> Nodes] /\ DOMAIN order = 1 .. Count
      /\ \A n \in Nodes : \E i \in 1 .. Count : order[i] = n
  BY OrderFacts
<1>1. PICK sum : sum = SumFunction(shares)
  OBVIOUS
<1>2. sum \in Nat /\ sum > 0 /\ vus <= sum
  <2>1. shares \in [Nodes -> Int] /\ \A n \in Nodes : shares[n] >= 0
    OBVIOUS
  <2>2. SumFunction(shares) \in Int
    BY <2>1, NodesAreFinite, SumOfAll
  <2> QED
    BY <1>1, <2>2
<1>3. PICK rem : rem = [n \in Nodes |-> (vus * shares[n]) % sum]
  OBVIOUS
<1>4. ASSUME NEW n \in Nodes
      PROVE  /\ whole[n] \in Nat /\ whole[n] <= shares[n] /\ rem[n] \in Nat /\ rem[n] < sum
             /\ vus * shares[n] = sum * whole[n] + rem[n]
             /\ whole[n] >= shares[n] => rem[n] = 0
             /\ rem[n] = Remainder(vus, n) /\ shares[n] \in Nat
             /\ sum * whole[n] \in Int
  <2>1. PICK share, w, x : share = shares[n] /\ w = whole[n] /\ x = rem[n]
    OBVIOUS
  <2>2. share \in Nat /\ w = (vus * share) \div sum /\ x = (vus * share) % sum
    BY <1>1, <1>3, <2>1
  <2>3. /\ w \in Nat /\ w <= share /\ x \in Nat /\ x < sum
        /\ vus * share = sum * w + x /\ (w >= share => x = 0)
    <3>1. Splits(vus, share, sum, w, x)
      BY <2>2 DEF Splits
    <3>2. share \in Nat /\ sum \in Nat /\ vus \in Nat /\ 0 < vus /\ vus <= sum
      BY <1>2, <2>2
    <3> QED
      BY <3>1, <3>2, WholeFacts
  <2>4. x = Remainder(vus, n)
    BY <1>1, <2>1, <2>2 DEF Remainder
  <2>5. sum * w \in Int
    BY <1>2, <2>3
  <2> QED
    BY <2>1, <2>2, <2>3, <2>4, <2>5
<1>5. whole \in [Nodes -> Int] /\ SumFunction(whole) \in Int
  <2>1. whole \in [Nodes -> Int]
    BY <1>4
  <2> QED
    BY <2>1, NodesAreFinite, SumOfAll
<1>6. SumFunction(whole) <= vus
  <2>1. PICK all : all = SumFunction(whole)
    OBVIOUS
  <2>2. sum * all <= vus * sum
    <3>1. \A n \in Nodes : sum * whole[n] <= vus * shares[n]
      <4>1. ASSUME NEW n \in Nodes PROVE sum * whole[n] <= vus * shares[n]
        BY <1>4
      <4> QED
        BY <4>1
    <3>2. shares \in [Nodes -> Int] /\ sum \in Int /\ vus \in Int
      BY <1>2
    <3>3. sum * SumFunction(whole) <= vus * SumFunction(shares)
      BY <1>5, <3>1, <3>2, NodesAreFinite, SumCompared
    <3> QED
      BY <1>1, <2>1, <3>3
  <2>3. ASSUME vus + 1 <= all PROVE FALSE
    <3>1. sum * (vus + 1) <= sum * all
      BY <1>2, <1>5, <2>1, <2>3
    <3>2. sum * (vus + 1) = vus * sum + sum /\ vus * sum \in Int /\ sum * all \in Int
      BY <1>2, <1>5, <2>1
    <3> QED
      BY <1>2, <2>2, <3>1, <3>2
  <2> QED
    BY <1>5, <2>1, <2>3
<1>7. PICK part : part = [left |-> vus - SumFunction(whole), to |-> whole]
  OBVIOUS
<1>8. /\ part \in Parts /\ part.to = whole /\ part.left \in Int /\ part.left >= 0
      /\ SumFunction(part.to) + part.left = vus
  BY <1>5, <1>6, <1>7 DEF Parts
<1>9. HandedOut(r, order, whole, vus)
  <2>1. \A n \in Nodes : 0 <= part.to[n] /\ part.to[n] <= shares[n]
    BY <1>4, <1>8
  <2>2. r = HandOut(part, order)
    BY <1>7
  <2>3. HandedOut(r, order, part.to, SumFunction(part.to) + part.left)
    BY <1>8, <2>1, <2>2, HandOutResult
  <2> QED
    BY <1>8, <2>3
<1>10. r.to \in [Nodes -> Int] /\ SumFunction(r.to) \in Int
  <2>1. r.to \in [Nodes -> Int]
    BY <1>9 DEF HandedOut, Parts
  <2> QED
    BY <2>1, NodesAreFinite, SumOfAll
\* Whoever has one more than the whole, or no remainder, has the exact part at least.
<1>11. ASSUME NEW n \in Nodes, NEW x \in Int, x = whole[n] + 1 \/ (x = whole[n] /\ rem[n] = 0)
       PROVE  vus * shares[n] <= sum * x
  <2>1. CASE x = whole[n] + 1
    <3>1. sum * x = sum * whole[n] + sum
      BY <1>2, <1>4, <2>1
    <3> QED
      BY <1>2, <1>4, <3>1
  <2>2. CASE x = whole[n] /\ rem[n] = 0
    BY <1>2, <1>4, <2>2
  <2> QED
    BY <1>11, <2>1, <2>2
<1>12. ASSUME NEW to \in [Nodes -> Int],
              \A n \in Nodes : to[n] = whole[n] + 1 \/ (to[n] = whole[n] /\ rem[n] = 0)
       PROVE  vus <= SumFunction(to)
  <2>1. ASSUME NEW n \in Nodes PROVE vus * shares[n] <= SumFunction(shares) * to[n]
    <3>1. PICK x : x = to[n]
      OBVIOUS
    <3>2. x \in Int /\ (x = whole[n] + 1 \/ (x = whole[n] /\ rem[n] = 0))
      BY <1>12, <3>1
    <3>3. vus * shares[n] <= sum * x
      BY <1>11, <3>2
    <3> QED
      BY <1>1, <3>1, <3>3
  <2>2. 0 < SumFunction(shares)
    BY <1>1, <1>2
  <2> QED
    BY <2>1, <2>2, AllIsGiven
<1>13. SumFunction(r.to) = vus
  <2>1. ASSUME r.left > 0 PROVE FALSE
    <3>1. \A n \in Nodes : r.to[n] = whole[n] + 1 \/ (r.to[n] = whole[n] /\ rem[n] = 0)
      <4>1. ASSUME NEW n \in Nodes
            PROVE  r.to[n] = whole[n] + 1 \/ (r.to[n] = whole[n] /\ rem[n] = 0)
        <5>1. whole[n] < shares[n] \/ rem[n] = 0
          BY <1>4
        <5> QED
          BY <1>9, <2>1, <5>1 DEF HandedOut
      <4> QED
        BY <4>1
    <3>2. vus <= SumFunction(r.to)
      BY <1>10, <1>12, <3>1
    <3> QED
      BY <1>9, <1>10, <2>1, <3>2 DEF HandedOut
  <2> QED
    BY <1>9, <1>10, <2>1 DEF HandedOut
<1>14. ASSUME NEW k \in 1 .. Count, r.to[order[k]] = whole[order[k]] + 1 PROVE rem[order[k]] > 0
  <2>1. SUFFICES ASSUME rem[order[k]] = 0 PROVE FALSE
    <3>1. rem[order[k]] \in Nat
      BY <1>0, <1>4
    <3> QED
      BY <3>1
  <2>2. PICK m \in [Nodes -> Int] :
          /\ SumFunction(m) < vus
          /\ \A j \in 1 .. Count :
               /\ m[order[j]] \in {whole[order[j]], whole[order[j]] + 1}
               /\ j < k /\ whole[order[j]] < shares[order[j]]
                    => m[order[j]] = whole[order[j]] + 1
    BY <1>9, <1>14 DEF HandedOut
  <2>3. ASSUME NEW n \in Nodes PROVE m[n] = whole[n] + 1 \/ (m[n] = whole[n] /\ rem[n] = 0)
    <3>1. PICK j \in 1 .. Count : order[j] = n
      BY <1>0
    <3>2. m[n] = whole[n] \/ m[n] = whole[n] + 1
      BY <2>2, <3>1
    <3>3. CASE j < k
      <4>1. whole[n] < shares[n] \/ rem[n] = 0
        BY <1>4
      <4> QED
        BY <2>2, <3>1, <3>2, <3>3, <4>1
    <3>4. CASE j = k
      BY <2>1, <3>1, <3>2, <3>4
    <3>5. CASE k < j
      <4>1. Remainder(vus, order[k]) >= Remainder(vus, order[j])
        BY <1>0, <3>5 DEF LargestFirst
      <4>2. rem[order[k]] = Remainder(vus, order[k]) /\ rem[n] = Remainder(vus, order[j])
        BY <1>0, <1>4, <3>1
      <4>3. rem[n] = 0
        BY <1>4, <2>1, <4>1, <4>2
      <4> QED
        BY <3>2, <4>3
    <3> QED
      BY <1>0, <3>3, <3>4, <3>5
  <2>4. vus <= SumFunction(m)
    BY <1>12, <2>3
  <2>5. SumFunction(m) \in Int
    BY <2>2, NodesAreFinite, SumOfAll
  <2> QED
    BY <2>2, <2>4, <2>5
<1>15. ASSUME NEW n \in Nodes
       PROVE  /\ 0 <= r.to[n] /\ r.to[n] <= shares[n]
              /\ -sum < r.to[n] * sum - vus * shares[n]
              /\ r.to[n] * sum - vus * shares[n] < sum
  <2>1. PICK k \in 1 .. Count : order[k] = n
    BY <1>0
  <2>2. PICK x : x = r.to[n]
    OBVIOUS
  <2>3. CASE x = whole[n]
    <3>1. x * sum = sum * whole[n]
      BY <1>2, <1>4, <2>3
    <3> QED
      BY <1>2, <1>4, <2>2, <2>3, <3>1
  <2>4. CASE x = whole[n] + 1 /\ whole[n] < shares[n]
    <3>1. x * sum = sum * whole[n] + sum
      BY <1>2, <1>4, <2>4
    <3>2. rem[n] > 0
      BY <1>14, <2>1, <2>2, <2>4
    <3> QED
      BY <1>2, <1>4, <2>2, <2>4, <3>1, <3>2
  <2> QED
    BY <1>9, <2>2, <2>3, <2>4 DEF HandedOut
<1> QED
  BY <1>1, <1>10, <1>13, <1>15

-----------------------------------------------------------------------------
(***************************************************************************)
(* The invariant.                                                          *)
(***************************************************************************)
\* Nobody is told to run more of a stage than its part of the plan, so the cap
\* of the engine cuts nothing off, and what the workers are told is the target.
AllocationInv ==
  /\ TypeOK
  /\ PeakIsShared
  /\ \A n \in Nodes : allocation[n] <= shares[n]
  /\ SumFunction(allocation) = target
  /\ StageIsProportional

LEMMA NothingFacts ==
  /\ Nothing \in [Nodes -> 0 .. MaxTarget] /\ Nothing \in [Nodes -> 0 .. MaxCapacity]
  /\ SumFunction(Nothing) = 0 /\ 0 \in 0 .. MaxTarget
  /\ \A n \in Nodes : Nothing[n] = 0
<1>1. \A n \in Nodes : Nothing[n] = 0
  BY DEF Nothing
<1>2. 0 \in 0 .. MaxTarget /\ 0 \in 0 .. MaxCapacity
  BY BoundsAssumption
<1>3. /\ Nothing \in [Nodes -> 0 .. MaxTarget] /\ Nothing \in [Nodes -> 0 .. MaxCapacity]
      /\ Nothing \in [Nodes -> Int]
  BY <1>2 DEF Nothing
<1> QED
  BY <1>1, <1>2, <1>3, NodesAreFinite, SumOfNothing

LEMMA InitAllocation ==
  Init => AllocationInv
<1> SUFFICES ASSUME Init PROVE AllocationInv
  OBVIOUS
<1>1. /\ maxVUs = Nothing /\ shares = Nothing /\ allocation = Nothing
      /\ peak = 0 /\ target = 0
  BY DEF Init
<1>2. TypeOK
  BY <1>1, NothingFacts DEF TypeOK
<1>3. PeakIsShared /\ SumFunction(allocation) = target
  BY <1>1, NothingFacts DEF PeakIsShared
<1>4. \A n \in Nodes : allocation[n] <= shares[n]
  BY <1>1, NothingFacts
<1>5. StageIsProportional
  BY <1>1 DEF StageIsProportional
<1> QED
  BY <1>2, <1>3, <1>4, <1>5 DEF AllocationInv

LEMMA RegisterAllocation ==
  ASSUME AllocationInv, NEW n \in Nodes, NEW vus \in 0 .. MaxCapacity, Register(n, vus)
  PROVE  AllocationInv'
<1>1. /\ shares' = shares /\ allocation' = allocation /\ peak' = peak /\ target' = target
  BY DEF Register
<1>2. maxVUs' \in [Nodes -> 0 .. MaxCapacity]
  BY DEF Register, AllocationInv, TypeOK
<1>3. TypeOK'
  BY <1>1, <1>2 DEF AllocationInv, TypeOK
<1> QED
  BY <1>1, <1>3 DEF AllocationInv, PeakIsShared, StageIsProportional

\* A new plan: its peak is shared out, and no stage of it is allocated yet.
LEMMA DistributeAllocation ==
  ASSUME AllocationInv, NEW vus \in 1 .. MaxTarget, NEW order \in Orders, NEW low,
         DistributePlan(vus, order, low)
  PROVE  AllocationInv'
<1>1. /\ peak' = vus /\ target' = 0 /\ allocation' = Nothing /\ maxVUs' = maxVUs
  BY DEF DistributePlan
<1>2. maxVUs \in [Nodes -> Nat]
  BY BoundsAssumption DEF AllocationInv, TypeOK
<1>3. shares' \in [Nodes -> 0 .. MaxTarget] /\ SumFunction(shares') = vus
  BY <1>2, PlanIsShared
<1>4. TypeOK'
  <2>1. vus \in 0 .. MaxTarget /\ maxVUs \in [Nodes -> 0 .. MaxCapacity]
    BY BoundsAssumption DEF AllocationInv, TypeOK
  <2> QED
    BY <1>1, <1>3, <2>1, NothingFacts DEF TypeOK
<1>5. \A n \in Nodes : allocation'[n] <= shares'[n]
  <2>1. ASSUME NEW n \in Nodes PROVE Nothing[n] <= shares'[n]
    BY <1>3, NothingFacts, BoundsAssumption
  <2> QED
    BY <1>1, <2>1
<1>6. PeakIsShared' /\ SumFunction(allocation') = target'
  BY <1>1, <1>3, NothingFacts DEF PeakIsShared
<1>7. StageIsProportional'
  BY <1>1 DEF StageIsProportional
<1> QED
  BY <1>4, <1>5, <1>6, <1>7 DEF AllocationInv

LEMMA StageAllocation ==
  ASSUME AllocationInv, NEW vus \in 1 .. MaxTarget, NEW order \in Orders, AllocateStage(vus, order)
  PROVE  AllocationInv'
<1>1. /\ target' = vus /\ maxVUs' = maxVUs /\ peak' = peak /\ shares' = shares
      /\ 0 < vus /\ vus <= peak /\ LargestFirst(vus, order)
  BY DEF AllocateStage
<1>2. /\ shares \in [Nodes -> 0 .. MaxTarget] /\ peak \in 0 .. MaxTarget
      /\ SumFunction(shares) = peak /\ MaxTarget \in Nat /\ vus \in Nat
  BY BoundsAssumption DEF AllocationInv, TypeOK, PeakIsShared
<1>3. shares \in [Nodes -> Nat]
  BY <1>2
<1>4. PICK whole, r :
        /\ whole = [n \in Nodes |-> (vus * shares[n]) \div SumFunction(shares)]
        /\ r = HandOut([left |-> vus - SumFunction(whole), to |-> whole], order)
  OBVIOUS
<1>5. allocation' = r.to
  BY <1>4 DEF AllocateStage
<1>6. /\ r.to \in [Nodes -> Int] /\ SumFunction(r.to) = vus
      /\ \A n \in Nodes :
           /\ 0 <= r.to[n] /\ r.to[n] <= shares[n]
           /\ -SumFunction(shares) < r.to[n] * SumFunction(shares) - vus * shares[n]
           /\ r.to[n] * SumFunction(shares) - vus * shares[n] < SumFunction(shares)
  <2>1. 0 < vus /\ vus <= SumFunction(shares) /\ vus \in Nat
    BY <1>1, <1>2
  <2> QED
    BY <1>1, <1>3, <1>4, <2>1, StageIsGiven
<1>7. TypeOK'
  <2>1. ASSUME NEW n \in Nodes PROVE r.to[n] \in 0 .. MaxTarget
    BY <1>2, <1>6
  <2>2. r.to \in [Nodes -> 0 .. MaxTarget]
    BY <1>6, <2>1
  <2>3. maxVUs \in [Nodes -> 0 .. MaxCapacity] /\ vus \in 0 .. MaxTarget
    BY <1>2 DEF AllocationInv, TypeOK
  <2> QED
    BY <1>1, <1>2, <1>5, <2>2, <2>3 DEF TypeOK
<1>8. PeakIsShared'
  BY <1>1, <1>2 DEF PeakIsShared
<1>9. (\A n \in Nodes : allocation[n] <= shares[n])' /\ (SumFunction(allocation) = target)'
  BY <1>1, <1>5, <1>6
<1>10. StageIsProportional'
  <2>1. \A n \in Nodes : /\ -peak < r.to[n] * peak - vus * shares[n]
                         /\ r.to[n] * peak - vus * shares[n] < peak
    BY <1>2, <1>6
  <2> QED
    BY <1>1, <1>5, <2>1 DEF StageIsProportional
<1> QED
  BY <1>7, <1>8, <1>9, <1>10 DEF AllocationInv

LEMMA IdleAllocation ==
  ASSUME AllocationInv, UNCHANGED vars
  PROVE  AllocationInv'
BY DEF AllocationInv, TypeOK, PeakIsShared, StageIsProportional, vars

-----------------------------------------------------------------------------
\* The invariant on which the others rest, for every number of workers, capacities
\* and targets, and however the integers of DistributePlan overflow.
THEOREM AllocationInvariant == Spec => []AllocationInv
<1>1. Init => AllocationInv
  BY InitAllocation
<1>2. AllocationInv /\ [Next]_vars => AllocationInv'
  <2> SUFFICES ASSUME AllocationInv, [Next]_vars PROVE AllocationInv'
    OBVIOUS
  <2>1. CASE \E n \in Nodes, vus \in 0 .. MaxCapacity : Register(n, vus)
    BY <2>1, RegisterAllocation
  <2>2. CASE \E vus \in 1 .. MaxTarget, order \in Orders, low \in SUBSET Nodes :
               DistributePlan(vus, order, low)
    BY <2>2, DistributeAllocation
  <2>3. CASE \E vus \in 1 .. MaxTarget, order \in Orders : AllocateStage(vus, order)
    BY <2>3, StageAllocation
  <2>4. CASE UNCHANGED vars
    BY <2>4, IdleAllocation
  <2> QED
    BY <2>1, <2>2, <2>3, <2>4 DEF Next
<1> QED
  BY <1>1, <1>2, PTL DEF Spec

\* The orchestrator's numbers stay those of an int32 map: nobody is given a negative
\* share or allocation, and none above the stage's target.
THEOREM TypeCorrect == Spec => []TypeOK
<1>1. AllocationInv => TypeOK
  BY DEF AllocationInv
<1> QED
  BY <1>1, AllocationInvariant, PTL

\* DistributePlan shares the whole peak out, whatever capacities add up to, whatever
\* order the nodes come in and wherever a float64 product fell short.
THEOREM PeakShared == Spec => []PeakIsShared
<1>1. AllocationInv => PeakIsShared
  BY DEF AllocationInv
<1> QED
  BY <1>1, AllocationInvariant, PTL

\* allocateStageVUs and the cap of the engine's runStage together run exactly the
\* target of the stage, on every fleet and in every order of equal remainders.
THEOREM StageExact == Spec => []StageIsExact
<1>1. AllocationInv => StageIsExact
  <2> SUFFICES ASSUME AllocationInv PROVE StageIsExact
    OBVIOUS
  <2>1. allocation \in [Nodes -> Int] /\ shares \in [Nodes -> Int]
    BY BoundsAssumption DEF AllocationInv, TypeOK
  <2>2. ASSUME NEW n \in Nodes PROVE Active(n) = allocation[n]
    BY <2>1 DEF AllocationInv, Active, Smaller
  <2>3. [n \in Nodes |-> Active(n)] = allocation
    BY <2>1, <2>2
  <2> QED
    BY <2>3 DEF AllocationInv, StageIsExact
<1> QED
  BY <1>1, AllocationInvariant, PTL

\* Largest remainders first, no worker's part of a stage is a whole virtual user off
\* its exact proportion.
THEOREM StageProportional == Spec => []StageIsProportional
<1>1. AllocationInv => StageIsProportional
  BY DEF AllocationInv
<1> QED
  BY <1>1, AllocationInvariant, PTL

\* DistributePlan never gives a worker more than the max_vus it had registered for.
THEOREM CapacityKept == Spec => WithinCapacity
<1>1. AllocationInv /\ [Next]_vars =>
        [shares' # shares => \A n \in Nodes : shares'[n] <= maxVUs[n]]_vars
  <2> SUFFICES ASSUME AllocationInv, Next, shares' # shares
               PROVE  \A n \in Nodes : shares'[n] <= maxVUs[n]
    BY DEF vars
  <2>1. PICK vus \in 1 .. MaxTarget, order \in Orders, low \in SUBSET Nodes :
          DistributePlan(vus, order, low)
    BY DEF Next, Register, AllocateStage
  <2>2. maxVUs \in [Nodes -> Nat]
    BY BoundsAssumption DEF AllocationInv, TypeOK
  <2> QED
    BY <2>1, <2>2, PlanIsShared
<1> QED
  BY <1>1, AllocationInvariant, PTL DEF Spec, WithinCapacity
=================================================================================
