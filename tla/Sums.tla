---------------------------------- MODULE Sums ----------------------------------
(***************************************************************************)
(* Facts about the folds the models are built from, the sum of a function  *)
(* over a finite set and the fold of a sequence from the left, for the     *)
(* proofs of the modules that use them.  Inductions are about sets (of     *)
(* sets, of numbers) that are closed under a step.                         *)
(***************************************************************************)
EXTENDS Integers, FiniteSets, Functions, SequencesExt, FiniteSetTheorems, TLAPS

(***************************************************************************)
(* Induction.                                                              *)
(***************************************************************************)
LEMMA SubsetInduction ==
  ASSUME NEW S, IsFiniteSet(S), NEW A \in SUBSET (SUBSET S),
         \A T \in SUBSET S : (\A U \in SUBSET T : U # T => U \in A) => T \in A
  PROVE  A = SUBSET S
<1> SUFFICES ASSUME (SUBSET S) \ A # {} PROVE FALSE
  OBVIOUS
<1>1. IsWellFoundedOn(StrictSubsetOrdering(S), SUBSET S)
  <2>1. FiniteSubsetsOf(S) = SUBSET S
    BY FS_FiniteSubsetsOfFinite
  <2>2. IsWellFoundedOn(StrictSubsetOrdering(S), FiniteSubsetsOf(S))
    BY FS_StrictSubsetOrderingWellFounded
  <2> QED
    BY <2>1, <2>2
<1> DEFINE D == (SUBSET S) \ A
<1>2. PICK T \in D : \A U \in D : ~ (<<U, T>> \in StrictSubsetOrdering(S))
  <2>1. D \subseteq SUBSET S /\ D # {}
    OBVIOUS
  <2> HIDE DEF D
  <2> QED
    BY <1>1, <2>1, WFMin
<1>3. ASSUME NEW U \in SUBSET T, U # T PROVE U \in A
  <2>1. <<U, T>> \in {ss \in (SUBSET S) \X (SUBSET S) : ss[1] \subseteq ss[2] /\ ss[1] # ss[2]}
    BY <1>3
  <2> QED
    BY <1>2, <1>3, <2>1 DEF StrictSubsetOrdering
<1> QED
  BY <1>2, <1>3

LEMMA InsertInduction ==
  ASSUME NEW S, IsFiniteSet(S), NEW A \in SUBSET (SUBSET S), {} \in A,
         \A T \in A, x \in S : x \notin T => T \cup {x} \in A
  PROVE  A = SUBSET S
<1>1. ASSUME NEW T \in SUBSET S, \A U \in SUBSET T : U # T => U \in A PROVE T \in A
  <2>1. CASE T = {}
    BY <2>1
  <2>2. CASE T # {}
    <3>1. PICK x \in T : TRUE
      BY <2>2
    <3>2. T \ {x} \in A /\ x \notin T \ {x} /\ T = (T \ {x}) \cup {x}
      BY <1>1
    <3> QED
      BY <3>1, <3>2
  <2> QED
    BY <2>1, <2>2
<1> QED
  BY <1>1, SubsetInduction

LEMMA CountingInduction ==
  ASSUME NEW A \in SUBSET Nat, 0 \in A, \A n \in A : n + 1 \in A
  PROVE  A = Nat
<1> SUFFICES ASSUME Nat \ A # {} PROVE FALSE
  OBVIOUS
<1>0. IsWellFoundedOn(OpToRel(<, Nat), Nat)
  BY NatLessThanWellFounded
<1>1. PICK m \in Nat \ A : \A n \in Nat \ A : ~ (<<n, m>> \in OpToRel(<, Nat))
  BY <1>0, WFMin
<1>2. m # 0 /\ m - 1 \in Nat
  OBVIOUS
<1>3. <<m - 1, m>> \in {ss \in Nat \X Nat : ss[1] < ss[2]}
  BY <1>2
<1>4. m - 1 \in A
  BY <1>1, <1>2, <1>3, Zenon DEF OpToRel
<1>5. (m - 1) + 1 = m
  BY <1>2
<1> QED
  BY <1>1, <1>4, <1>5

-----------------------------------------------------------------------------
(***************************************************************************)
(* Folding over the subsets of a finite set, where pick says which element *)
(* comes last: the function a fold is defined by exists, and is unique.    *)
(***************************************************************************)
Folds(f, S, V, b, g, pick) ==
  f \in [SUBSET S -> V] /\ \A s \in SUBSET S :
    f[s] = IF s = {} THEN b ELSE g[pick[s]][f[s \ {pick[s]}]]

Picks(S) == {pick \in [(SUBSET S) \ {{}} -> S] : \A s \in (SUBSET S) \ {{}} : pick[s] \in s}

LEMMA FoldUnique ==
  ASSUME NEW S, IsFiniteSet(S), NEW V, NEW b, NEW g, NEW pick \in Picks(S),
         NEW T \in SUBSET S, NEW U \in SUBSET T, NEW f, NEW h,
         Folds(f, T, V, b, g, pick), Folds(h, U, V, b, g, pick)
  PROVE  \A s \in SUBSET U : f[s] = h[s]
<1> DEFINE A == {s \in SUBSET U : f[s] = h[s]}
<1>1. ASSUME NEW s \in SUBSET U, \A r \in SUBSET s : r # s => r \in A PROVE s \in A
  <2>1. CASE s = {}
    BY <2>1 DEF Folds
  <2>2. CASE s # {}
    <3>1. pick[s] \in s
      BY <2>2 DEF Picks
    <3>2. s \ {pick[s]} \in A
      BY <1>1, <3>1
    <3> QED
      BY <2>2, <3>1, <3>2 DEF Folds
  <2> QED
    BY <2>1, <2>2
<1>2. IsFiniteSet(U)
  BY FS_Subset
<1>3. A \in SUBSET (SUBSET U)
  OBVIOUS
<1> HIDE DEF A
<1>4. A = SUBSET U
  BY <1>1, <1>2, <1>3, SubsetInduction
<1> QED
  BY <1>4 DEF A

LEMMA FoldExists ==
  ASSUME NEW S, IsFiniteSet(S), NEW V, NEW b \in V, NEW g \in [S -> [V -> V]], NEW pick \in Picks(S)
  PROVE  \A T \in SUBSET S : \E f : Folds(f, T, V, b, g, pick)
<1> DEFINE A == {T \in SUBSET S : \E f : Folds(f, T, V, b, g, pick)}
           fold(T) == CHOOSE f : Folds(f, T, V, b, g, pick)
           at(T) == fold(T)[T]
<1>1. ASSUME NEW T \in SUBSET S, \A U \in SUBSET T : U # T => U \in A PROVE T \in A
  <2> DEFINE last == IF T = {} THEN b ELSE g[pick[T]][at(T \ {pick[T]})]
             f == [s \in SUBSET T |-> IF s = T THEN last ELSE at(s)]
  <2>1. ASSUME NEW s \in SUBSET T, s # T PROVE Folds(fold(s), s, V, b, g, pick)
    BY <1>1, <2>1
  <2> HIDE DEF fold, A
  <2>2. ASSUME NEW s \in SUBSET T, s # T PROVE at(s) \in V
    BY <2>1, <2>2 DEF Folds
  <2>3. T # {} => pick[T] \in T
    BY DEF Picks
  <2>4. last \in V
    <3>1. CASE T = {}
      BY <3>1
    <3>2. CASE T # {}
      <4>1. T \ {pick[T]} \in SUBSET T /\ T \ {pick[T]} # T /\ pick[T] \in S
        BY <2>3, <3>2
      <4>2. at(T \ {pick[T]}) \in V
        BY <2>2, <4>1
      <4> HIDE DEF at
      <4> QED
        BY <3>2, <4>1, <4>2
    <3> QED
      BY <3>1, <3>2
  <2> HIDE DEF at, last
  <2>5. f \in [SUBSET T -> V]
    BY <2>2, <2>4
  <2>6. ASSUME NEW s \in SUBSET T
        PROVE  f[s] = IF s = {} THEN b ELSE g[pick[s]][f[s \ {pick[s]}]]
    <3>1. CASE s = T /\ T = {}
      BY <3>1 DEF last
    <3>2. CASE s = T /\ T # {}
      <4>1. T \ {pick[T]} \in SUBSET T /\ T \ {pick[T]} # T
        BY <2>3, <3>2
      <4>2. f[T \ {pick[T]}] = at(T \ {pick[T]})
        BY <4>1
      <4> QED
        BY <3>2, <4>2 DEF last
    <3>3. CASE s # T /\ s = {}
      BY <2>1, <3>3 DEF at, Folds
    <3>4. CASE s # T /\ s # {}
      <4>1. pick[s] \in s
        BY <3>4 DEF Picks
      <4>2. s \ {pick[s]} \in SUBSET s /\ s \ {pick[s]} \in SUBSET T /\ s \ {pick[s]} # T
        BY <3>4, <4>1
      <4>3. Folds(fold(s), s, V, b, g, pick)
            /\ Folds(fold(s \ {pick[s]}), s \ {pick[s]}, V, b, g, pick)
        BY <2>1, <3>4, <4>2
      <4>4. fold(s)[s \ {pick[s]}] = fold(s \ {pick[s]})[s \ {pick[s]}]
        <5>1. PICK r, h, k : r = s \ {pick[s]} /\ h = fold(s) /\ k = fold(r)
          OBVIOUS
        <5>2. s \in SUBSET S /\ r \in SUBSET s
          BY <5>1
        <5>3. Folds(h, s, V, b, g, pick) /\ Folds(k, r, V, b, g, pick)
          BY <4>3, <5>1
        <5>4. \A q \in SUBSET r : h[q] = k[q]
          BY <5>2, <5>3, FoldUnique
        <5> QED
          BY <5>1, <5>4
      <4>5. fold(s)[s] = g[pick[s]][fold(s)[s \ {pick[s]}]]
        BY <3>4, <4>3 DEF Folds
      <4>6. f[s] = at(s) /\ f[s \ {pick[s]}] = at(s \ {pick[s]})
        BY <3>4, <4>2
      <4> QED
        BY <3>4, <4>4, <4>5, <4>6 DEF at
    <3> QED
      BY <3>1, <3>2, <3>3, <3>4
  <2> HIDE DEF f
  <2>7. Folds(f, T, V, b, g, pick)
    BY <2>5, <2>6 DEF Folds
  <2> QED
    BY <2>7 DEF A
<1>2. A \in SUBSET (SUBSET S)
  OBVIOUS
<1> HIDE DEF A
<1>3. A = SUBSET S
  BY <1>1, <1>2, SubsetInduction
<1> QED
  BY <1>3 DEF A

-----------------------------------------------------------------------------
(***************************************************************************)
(* The sum of a function over a finite set.                                *)
(***************************************************************************)
Chosen(S) == [s \in (SUBSET S) \ {{}} |-> CHOOSE x \in s : TRUE]
Adds(f, S) == [x \in S |-> [v \in Int |-> f[x] + v]]

LEMMA SumIsFold ==
  ASSUME NEW S, IsFiniteSet(S), NEW f \in [S -> Int], NEW T \in SUBSET S
  PROVE  \E it : Folds(it, T, Int, 0, Adds(f, S), Chosen(S)) /\ SumFunctionOnSet(f, T) = it[T]
<1> DEFINE Sum(it) == it = [s \in SUBSET T |->
                             IF s = {} THEN 0
                             ELSE f[CHOOSE x \in s : TRUE] + it[s \ {CHOOSE x \in s : TRUE}]]
<1>1. SumFunctionOnSet(f, T) = (CHOOSE it : Sum(it))[T]
  BY Zenon DEF SumFunctionOnSet, FoldFunctionOnSet, MapThenFoldSet
<1>2. Chosen(S) \in Picks(S) /\ Adds(f, S) \in [S -> [Int -> Int]]
  BY DEF Chosen, Picks, Adds
<1>3. \E h : Folds(h, T, Int, 0, Adds(f, S), Chosen(S))
  <2>1. PICK g, c : g = Adds(f, S) /\ c = Chosen(S)
    OBVIOUS
  <2>2. g \in [S -> [Int -> Int]] /\ c \in Picks(S) /\ 0 \in Int
    BY <1>2, <2>1
  <2>3. \A U \in SUBSET S : \E h : Folds(h, U, Int, 0, g, c)
    BY <2>2, FoldExists
  <2> QED
    BY <2>1, <2>3
<1>4. ASSUME NEW s \in SUBSET T, s # {}
      PROVE  /\ Chosen(S)[s] = (CHOOSE x \in s : TRUE) /\ Chosen(S)[s] \in s
             /\ \A v \in Int : Adds(f, S)[Chosen(S)[s]][v] = f[Chosen(S)[s]] + v
  <2>1. Chosen(S)[s] = (CHOOSE x \in s : TRUE) /\ Chosen(S)[s] \in s
    BY <1>4 DEF Chosen
  <2> QED
    BY <2>1 DEF Adds
<1>5. PICK h : Folds(h, T, Int, 0, Adds(f, S), Chosen(S))
  BY <1>3
<1>6. Sum(h)
  <2>1. h \in [SUBSET T -> Int]
    BY <1>5 DEF Folds
  <2>2. ASSUME NEW s \in SUBSET T
        PROVE  h[s] = IF s = {} THEN 0
                      ELSE f[CHOOSE x \in s : TRUE] + h[s \ {CHOOSE x \in s : TRUE}]
    <3>1. CASE s = {}
      BY <1>5, <3>1 DEF Folds
    <3>2. CASE s # {}
      <4>1. h[s] = Adds(f, S)[Chosen(S)[s]][h[s \ {Chosen(S)[s]}]]
        BY <1>5, <3>2 DEF Folds
      <4>2. h[s \ {Chosen(S)[s]}] \in Int
        BY <2>1
      <4> QED
        BY <1>4, <3>2, <4>1, <4>2
    <3> QED
      BY <3>1, <3>2
  <2> QED
    BY <2>1, <2>2
<1>7. ASSUME NEW it, Sum(it) PROVE Folds(it, T, Int, 0, Adds(f, S), Chosen(S))
  <2> DEFINE A == {s \in SUBSET T : it[s] \in Int}
  <2>1. ASSUME NEW s \in SUBSET T
        PROVE  /\ s = {} => it[s] = 0
               /\ s # {} => it[s] = f[Chosen(S)[s]] + it[s \ {Chosen(S)[s]}]
    <3>1. it[s] = IF s = {} THEN 0
                  ELSE f[CHOOSE x \in s : TRUE] + it[s \ {CHOOSE x \in s : TRUE}]
      BY <1>7
    <3>2. s = {} => it[s] = 0
      BY <3>1, Zenon
    <3>3. s # {} => it[s] = f[CHOOSE x \in s : TRUE] + it[s \ {CHOOSE x \in s : TRUE}]
      BY <3>1, Zenon
    <3>4. s # {} => Chosen(S)[s] = CHOOSE x \in s : TRUE
      BY <1>4
    <3> QED
      BY <3>2, <3>3, <3>4, Zenon
  <2>2. ASSUME NEW s \in SUBSET T, \A r \in SUBSET s : r # s => r \in A PROVE s \in A
    <3>1. CASE s = {}
      <4>1. it[s] = 0
        BY <2>1, <3>1, Zenon
      <4>2. 0 \in Int
        OBVIOUS
      <4> QED
        BY <4>1, <4>2, Zenon
    <3>2. CASE s # {}
      <4>1. Chosen(S)[s] \in s /\ s \ {Chosen(S)[s]} \in A
        BY <1>4, <2>2, <3>2
      <4>2. f[Chosen(S)[s]] \in Int
        BY <4>1
      <4>3. it[s \ {Chosen(S)[s]}] \in Int
        BY <4>1, Zenon
      <4>4. it[s] = f[Chosen(S)[s]] + it[s \ {Chosen(S)[s]}]
        BY <2>1, <3>2
      <4>5. it[s] \in Int
        BY <4>2, <4>3, <4>4
      <4> QED
        BY <4>5, Zenon
    <3> QED
      BY <3>1, <3>2
  <2>3. A = SUBSET T
    <3>1. IsFiniteSet(T) /\ A \in SUBSET (SUBSET T)
      BY FS_Subset
    <3> HIDE DEF A
    <3> QED
      BY <2>2, <3>1, SubsetInduction
  <2>4. it \in [SUBSET T -> Int]
    BY <1>7, <2>3
  <2>5. ASSUME NEW s \in SUBSET T
        PROVE  it[s] = IF s = {} THEN 0 ELSE Adds(f, S)[Chosen(S)[s]][it[s \ {Chosen(S)[s]}]]
    <3>1. s \ {Chosen(S)[s]} \in SUBSET T
      OBVIOUS
    <3> QED
      BY <1>4, <2>1, <2>4, <3>1
  <2> QED
    BY <2>4, <2>5 DEF Folds
<1> HIDE DEF Sum
<1>8. Sum(CHOOSE it : Sum(it))
  BY <1>6, Zenon
<1> QED
  BY <1>1, <1>7, <1>8

LEMMA SumType ==
  ASSUME NEW S, IsFiniteSet(S), NEW f \in [S -> Int], NEW T \in SUBSET S
  PROVE  SumFunctionOnSet(f, T) \in Int
<1>1. PICK it : /\ Folds(it, T, Int, 0, Adds(f, S), Chosen(S))
                /\ SumFunctionOnSet(f, T) = it[T]
  BY SumIsFold
<1>2. it \in [SUBSET T -> Int]
  BY <1>1 DEF Folds
<1> QED
  BY <1>1, <1>2

LEMMA SumEmpty ==
  ASSUME NEW S, IsFiniteSet(S), NEW f \in [S -> Int]
  PROVE  SumFunctionOnSet(f, {}) = 0
<1>1. PICK it : /\ Folds(it, {}, Int, 0, Adds(f, S), Chosen(S))
                /\ SumFunctionOnSet(f, {}) = it[{}]
  BY SumIsFold
<1> QED
  BY <1>1 DEF Folds

LEMMA SumChosen ==
  ASSUME NEW S, IsFiniteSet(S), NEW f \in [S -> Int], NEW T \in SUBSET S, T # {}
  PROVE  \E x \in T : SumFunctionOnSet(f, T) = f[x] + SumFunctionOnSet(f, T \ {x})
<1>1. PICK x, U : x = Chosen(S)[T] /\ U = T \ {x}
  OBVIOUS
<1>2. x \in T /\ Chosen(S) \in Picks(S)
  BY <1>1 DEF Chosen, Picks
<1>3. PICK it : /\ Folds(it, T, Int, 0, Adds(f, S), Chosen(S))
                /\ SumFunctionOnSet(f, T) = it[T]
  BY SumIsFold
<1>4. PICK iu : /\ Folds(iu, U, Int, 0, Adds(f, S), Chosen(S))
                /\ SumFunctionOnSet(f, U) = iu[U]
  BY <1>1, SumIsFold
<1>5. PICK g, c : g = Adds(f, S) /\ c = Chosen(S)
  OBVIOUS
<1>6. it[U] = iu[U]
  <2>1. /\ Folds(it, T, Int, 0, g, c) /\ Folds(iu, U, Int, 0, g, c)
        /\ c \in Picks(S) /\ U \in SUBSET T
    BY <1>1, <1>2, <1>3, <1>4, <1>5
  <2>2. \A s \in SUBSET U : it[s] = iu[s]
    BY <2>1, FoldUnique
  <2> QED
    BY <2>2
<1>7. it[U] \in Int
  BY <1>1, <1>3 DEF Folds
<1>8. it[T] = Adds(f, S)[x][it[U]]
  BY <1>1, <1>3 DEF Folds
<1>9. Adds(f, S)[x][it[U]] = f[x] + it[U]
  BY <1>2, <1>7 DEF Adds
<1> QED
  BY <1>1, <1>2, <1>3, <1>4, <1>6, <1>8, <1>9

\* The sum does not depend on the order the elements are taken in.
LEMMA SumRemove ==
  ASSUME NEW S, IsFiniteSet(S), NEW f \in [S -> Int]
  PROVE  \A T \in SUBSET S : \A x \in T :
           SumFunctionOnSet(f, T) = f[x] + SumFunctionOnSet(f, T \ {x})
<1> DEFINE A == {T \in SUBSET S : \A x \in T :
                   SumFunctionOnSet(f, T) = f[x] + SumFunctionOnSet(f, T \ {x})}
<1>1. ASSUME NEW T \in SUBSET S, \A U \in SUBSET T : U # T => U \in A PROVE T \in A
  <2> SUFFICES ASSUME NEW x \in T
               PROVE  SumFunctionOnSet(f, T) = f[x] + SumFunctionOnSet(f, T \ {x})
    OBVIOUS
  <2>1. PICK c \in T : SumFunctionOnSet(f, T) = f[c] + SumFunctionOnSet(f, T \ {c})
    BY SumChosen
  <2>2. CASE c = x
    BY <2>1, <2>2
  <2>3. CASE c # x
    <3>1. T \ {c} \in A /\ T \ {x} \in A /\ x \in T \ {c} /\ c \in T \ {x}
      BY <1>1, <2>3
    <3>2. SumFunctionOnSet(f, T \ {c}) = f[x] + SumFunctionOnSet(f, (T \ {c}) \ {x})
      BY <3>1
    <3>3. SumFunctionOnSet(f, T \ {x}) = f[c] + SumFunctionOnSet(f, (T \ {x}) \ {c})
      BY <3>1
    <3>4. (T \ {c}) \ {x} = (T \ {x}) \ {c}
      OBVIOUS
    <3>5. /\ f[x] \in Int /\ f[c] \in Int
          /\ SumFunctionOnSet(f, (T \ {x}) \ {c}) \in Int
      BY SumType
    <3>6. PICK a, b, r : a = f[x] /\ b = f[c] /\ r = SumFunctionOnSet(f, (T \ {x}) \ {c})
      OBVIOUS
    <3>7. a + (b + r) = b + (a + r)
      BY <3>5, <3>6
    <3> QED
      BY <2>1, <3>2, <3>3, <3>4, <3>6, <3>7
  <2> QED
    BY <2>2, <2>3
<1>2. A = SUBSET S
  <2>1. A \in SUBSET (SUBSET S)
    OBVIOUS
  <2> HIDE DEF A
  <2> QED
    BY <1>1, <2>1, SubsetInduction
<1> QED
  BY <1>2

LEMMA SumInsert ==
  ASSUME NEW S, IsFiniteSet(S), NEW f \in [S -> Int], NEW T \in SUBSET S, NEW x \in S, x \notin T
  PROVE  SumFunctionOnSet(f, T \cup {x}) = f[x] + SumFunctionOnSet(f, T)
<1>1. (T \cup {x}) \ {x} = T /\ T \cup {x} \in SUBSET S
  OBVIOUS
<1> QED
  BY <1>1, SumRemove

LEMMA SumMonotone ==
  ASSUME NEW S, IsFiniteSet(S), NEW f \in [S -> Int], NEW g \in [S -> Int],
         NEW R \in SUBSET S, \A x \in R : f[x] <= g[x]
  PROVE  SumFunctionOnSet(f, R) <= SumFunctionOnSet(g, R)
<1> DEFINE A == {T \in SUBSET R : SumFunctionOnSet(f, T) <= SumFunctionOnSet(g, T)}
<1>1. {} \in A
  BY SumEmpty
<1>2. ASSUME NEW T \in A, NEW x \in R, x \notin T PROVE T \cup {x} \in A
  <2>1. /\ SumFunctionOnSet(f, T \cup {x}) = f[x] + SumFunctionOnSet(f, T)
        /\ SumFunctionOnSet(g, T \cup {x}) = g[x] + SumFunctionOnSet(g, T)
    BY <1>2, SumInsert
  <2>2. SumFunctionOnSet(f, T) \in Int /\ SumFunctionOnSet(g, T) \in Int
    BY SumType
  <2>3. f[x] \in Int /\ g[x] \in Int /\ f[x] <= g[x]
    OBVIOUS
  <2> QED
    BY <2>1, <2>2, <2>3
<1>3. A = SUBSET R
  <2>1. A \in SUBSET (SUBSET R) /\ IsFiniteSet(R)
    BY FS_Subset
  <2> HIDE DEF A
  <2> QED
    BY <1>1, <1>2, <2>1, InsertInduction
<1> QED
  BY <1>3

LEMMA SumSame ==
  ASSUME NEW S, IsFiniteSet(S), NEW f \in [S -> Int], NEW g \in [S -> Int],
         NEW R \in SUBSET S, \A x \in R : f[x] = g[x]
  PROVE  SumFunctionOnSet(f, R) = SumFunctionOnSet(g, R)
<1>1. ASSUME NEW x \in R PROVE f[x] <= g[x] /\ g[x] <= f[x]
  <2>1. f[x] \in Int /\ f[x] = g[x]
    OBVIOUS
  <2> QED
    BY <2>1
<1>2. /\ SumFunctionOnSet(f, R) <= SumFunctionOnSet(g, R)
      /\ SumFunctionOnSet(g, R) <= SumFunctionOnSet(f, R)
  BY <1>1, SumMonotone
<1>3. SumFunctionOnSet(f, R) \in Int /\ SumFunctionOnSet(g, R) \in Int
  BY SumType
<1> QED
  BY <1>2, <1>3

LEMMA SumScaled ==
  ASSUME NEW S, IsFiniteSet(S), NEW f \in [S -> Int], NEW c \in Int, NEW g \in [S -> Int],
         \A x \in S : g[x] = c * f[x]
  PROVE  \A T \in SUBSET S : SumFunctionOnSet(g, T) = c * SumFunctionOnSet(f, T)
<1> DEFINE A == {T \in SUBSET S : SumFunctionOnSet(g, T) = c * SumFunctionOnSet(f, T)}
<1>1. {} \in A
  BY SumEmpty
<1>2. ASSUME NEW T \in A, NEW x \in S, x \notin T PROVE T \cup {x} \in A
  <2>1. /\ SumFunctionOnSet(f, T \cup {x}) = f[x] + SumFunctionOnSet(f, T)
        /\ SumFunctionOnSet(g, T \cup {x}) = g[x] + SumFunctionOnSet(g, T)
    BY <1>2, SumInsert
  <2>2. PICK a, b : a = f[x] /\ b = SumFunctionOnSet(f, T)
    OBVIOUS
  <2>3. a \in Int /\ b \in Int
    BY <2>2, SumType
  <2>4. c * (a + b) = c * a + c * b
    BY <2>3
  <2> QED
    BY <2>1, <2>2, <2>4
<1>3. A = SUBSET S
  <2>1. A \in SUBSET (SUBSET S)
    OBVIOUS
  <2> HIDE DEF A
  <2> QED
    BY <1>1, <1>2, <2>1, InsertInduction
<1> QED
  BY <1>3

-----------------------------------------------------------------------------
(***************************************************************************)
(* The sum of a whole function.                                            *)
(***************************************************************************)
LEMMA WholeSum ==
  ASSUME NEW S, NEW f \in [S -> Int]
  PROVE  SumFunction(f) = SumFunctionOnSet(f, S)
<1>1. DOMAIN f = S
  OBVIOUS
<1> QED
  BY <1>1 DEF SumFunction

LEMMA SumOfAll ==
  ASSUME NEW S, IsFiniteSet(S), NEW f \in [S -> Int]
  PROVE  /\ SumFunction(f) \in Int
         /\ (\A x \in S : f[x] >= 0) => SumFunction(f) >= 0
<1>1. SumFunction(f) \in Int
  BY WholeSum, SumType
<1>2. ASSUME \A x \in S : f[x] >= 0 PROVE SumFunction(f) >= 0
  <2>1. PICK z \in [S -> Int] : \A x \in S : z[x] = 0
    <3>1. [x \in S |-> 0] \in [S -> Int]
      OBVIOUS
    <3> QED
      BY <3>1
  <2>2. SumFunction(z) = 0 * SumFunction(z)
    BY <2>1, SumScaled, WholeSum
  <2>3. SumFunctionOnSet(z, S) <= SumFunctionOnSet(f, S)
    BY <1>2, <2>1, SumMonotone
  <2>4. SumFunction(z) \in Int
    BY WholeSum, SumType
  <2> QED
    BY <1>1, <2>2, <2>3, <2>4, WholeSum
<1> QED
  BY <1>1, <1>2

\* Changing one value changes the sum by as much.
LEMMA SumChanged ==
  ASSUME NEW S, IsFiniteSet(S), NEW f \in [S -> Int], NEW g \in [S -> Int], NEW x \in S,
         \A y \in S \ {x} : g[y] = f[y]
  PROVE  SumFunction(g) = SumFunction(f) + (g[x] - f[x])
<1>1. /\ SumFunctionOnSet(f, S) = f[x] + SumFunctionOnSet(f, S \ {x})
      /\ SumFunctionOnSet(g, S) = g[x] + SumFunctionOnSet(g, S \ {x})
  BY SumRemove
<1>2. SumFunctionOnSet(f, S \ {x}) = SumFunctionOnSet(g, S \ {x})
  BY SumSame
<1>3. /\ f[x] \in Int /\ g[x] \in Int
      /\ SumFunctionOnSet(f, S \ {x}) \in Int /\ SumFunctionOnSet(g, S \ {x}) \in Int
  BY SumType
<1> QED
  BY <1>1, <1>2, <1>3, WholeSum

LEMMA SumOfNothing ==
  ASSUME NEW S, IsFiniteSet(S), NEW f \in [S -> Int], \A x \in S : f[x] = 0
  PROVE  SumFunction(f) = 0
<1>1. SumFunctionOnSet(f, S) = 0 * SumFunctionOnSet(f, S)
  BY SumScaled
<1>2. SumFunctionOnSet(f, S) \in Int
  BY SumType
<1> QED
  BY <1>1, <1>2, WholeSum

LEMMA ElementIsPart ==
  ASSUME NEW S, IsFiniteSet(S), NEW f \in [S -> Int], \A x \in S : f[x] >= 0, NEW x \in S
  PROVE  f[x] <= SumFunction(f)
<1>1. PICK g : g = [f EXCEPT ![x] = 0]
  OBVIOUS
<1>2. g \in [S -> Int] /\ g[x] = 0 /\ (\A y \in S \ {x} : g[y] = f[y]) /\ (\A y \in S : g[y] >= 0)
  BY <1>1
<1>3. SumFunction(g) = SumFunction(f) + (g[x] - f[x])
  BY <1>2, SumChanged
<1>4. SumFunction(g) >= 0 /\ SumFunction(g) \in Int /\ SumFunction(f) \in Int
  BY <1>2, SumOfAll
<1>5. f[x] \in Int
  OBVIOUS
<1> QED
  BY <1>2, <1>3, <1>4, <1>5

\* What holds of all terms holds of the sums.
LEMMA SumCompared ==
  ASSUME NEW S, IsFiniteSet(S), NEW f \in [S -> Int], NEW g \in [S -> Int], NEW c \in Int, NEW d \in Int,
         \A x \in S : c * f[x] <= d * g[x]
  PROVE  c * SumFunction(f) <= d * SumFunction(g)
<1>1. PICK u, v : u = [x \in S |-> c * f[x]] /\ v = [x \in S |-> d * g[x]]
  OBVIOUS
<1>2. \A x \in S : f[x] \in Int /\ g[x] \in Int
  OBVIOUS
<1>3. ASSUME NEW x \in S PROVE c * f[x] \in Int /\ d * g[x] \in Int
  <2>1. PICK a, b : a = f[x] /\ b = g[x]
    OBVIOUS
  <2>2. a \in Int /\ b \in Int
    BY <1>2, <2>1
  <2>3. c * a \in Int /\ d * b \in Int
    BY <2>2
  <2> QED
    BY <2>1, <2>3
<1>4. /\ u \in [S -> Int] /\ v \in [S -> Int]
      /\ \A x \in S : u[x] = c * f[x] /\ v[x] = d * g[x] /\ u[x] <= v[x]
  <2>1. u \in [S -> Int]
    BY <1>1, <1>3
  <2>2. v \in [S -> Int]
    BY <1>1, <1>3
  <2>3. \A x \in S : u[x] = c * f[x] /\ v[x] = d * g[x]
    BY <1>1, Zenon
  <2>4. ASSUME NEW x \in S PROVE u[x] <= v[x]
    <3>1. c * f[x] <= d * g[x] /\ u[x] = c * f[x] /\ v[x] = d * g[x]
      BY <2>3, Zenon
    <3> QED
      BY <3>1, Zenon
  <2> QED
    BY <2>1, <2>2, <2>3, <2>4, Zenon
<1>5. SumFunctionOnSet(u, S) <= SumFunctionOnSet(v, S)
  <2>1. u \in [S -> Int] /\ v \in [S -> Int] /\ \A x \in S : u[x] <= v[x]
    BY <1>4, Zenon
  <2> QED
    BY <2>1, SumMonotone
<1>6. /\ SumFunctionOnSet(u, S) = c * SumFunctionOnSet(f, S)
      /\ SumFunctionOnSet(v, S) = d * SumFunctionOnSet(g, S)
  <2>1. u \in [S -> Int] /\ \A x \in S : u[x] = c * f[x]
    BY <1>4, Zenon
  <2>2. v \in [S -> Int] /\ \A x \in S : v[x] = d * g[x]
    BY <1>4, Zenon
  <2>3. S \in SUBSET S
    OBVIOUS
  <2> QED
    BY <2>1, <2>2, <2>3, SumScaled
<1> QED
  BY <1>5, <1>6, WholeSum

-----------------------------------------------------------------------------
(***************************************************************************)
(* A loop over 1 .. n, as a fold from the left: the value after each turn. *)
(***************************************************************************)
Folding(h, n, b, g) ==
  h = [s \in SUBSET (1 .. n) |-> IF s = {} THEN b ELSE g[Max(s)][h[s \ {Max(s)}]]]

\* The same, wherever it stays in V.
FoldingIn(h, n, V, b, g) ==
  /\ h[{}] = b
  /\ \A s \in SUBSET (1 .. n) :
       s # {} /\ h[s \ {Max(s)}] \in V => h[s] = g[Max(s)][h[s \ {Max(s)}]]

Turns(p, n, b, g) == p[0] = b /\ \A k \in 1 .. n : p[k] = g[k][p[k - 1]]

LEMMA MaxIsChosen ==
  ASSUME NEW n \in Nat
  PROVE  \A s \in SUBSET (1 .. n) : s # {} => Max(s) \in s /\ \A y \in s : y <= Max(s)
<1> DEFINE A == {k \in Nat : \A s \in SUBSET (1 .. k) : s # {} => \E x \in s : \A y \in s : x >= y}
<1>1. 0 \in A
  <2>1. 1 .. 0 = {}
    OBVIOUS
  <2> QED
    BY <2>1
<1>2. ASSUME NEW k \in A PROVE k + 1 \in A
  <2> SUFFICES ASSUME NEW s \in SUBSET (1 .. k + 1), s # {}
               PROVE  \E x \in s : \A y \in s : x >= y
    OBVIOUS
  <2>1. CASE k + 1 \in s
    BY <2>1
  <2>2. CASE k + 1 \notin s
    <3>1. s \in SUBSET (1 .. k)
      BY <2>2
    <3> QED
      BY <3>1
  <2> QED
    BY <2>1, <2>2
<1>3. A = Nat
  <2>1. A \in SUBSET Nat
    OBVIOUS
  <2> HIDE DEF A
  <2> QED
    BY <1>1, <1>2, <2>1, CountingInduction
<1>4. ASSUME NEW s \in SUBSET (1 .. n), s # {} PROVE Max(s) \in s /\ \A y \in s : y <= Max(s)
  <2>1. \E x \in s : \A y \in s : x >= y
    BY <1>3, <1>4
  <2>2. Max(s) \in s /\ \A y \in s : Max(s) >= y
    BY <2>1, Zenon DEF Max
  <2>3. \A y \in s : y \in Int
    OBVIOUS
  <2> QED
    BY <2>2, <2>3
<1> QED
  BY <1>4

LEMMA MaxOfPrefix ==
  ASSUME NEW n \in Nat, NEW k \in 1 .. n
  PROVE  Max(1 .. k) = k /\ (1 .. k) \ {k} = 1 .. k - 1
<1>1. 1 .. k \in SUBSET (1 .. n) /\ k \in 1 .. k
  OBVIOUS
<1>2. Max(1 .. k) \in 1 .. k /\ k <= Max(1 .. k)
  BY <1>1, MaxIsChosen
<1> QED
  BY <1>2

LEMMA LoopExists ==
  ASSUME NEW n \in Nat, NEW V, NEW b \in V, NEW g \in [1 .. n -> [V -> V]]
  PROVE  \E h \in [SUBSET (1 .. n) -> V] : Folding(h, n, b, g)
<1>1. PICK pick : pick = [s \in (SUBSET (1 .. n)) \ {{}} |-> Max(s)]
  OBVIOUS
<1>2. pick \in Picks(1 .. n)
  BY <1>1, MaxIsChosen DEF Picks
<1>3. IsFiniteSet(1 .. n)
  BY FS_Interval
<1>4. PICK h : Folds(h, 1 .. n, V, b, g, pick)
  <2>1. \A T \in SUBSET (1 .. n) : \E h : Folds(h, T, V, b, g, pick)
    <3>1. PICK S : S = 1 .. n
      OBVIOUS
    <3> QED
      BY <1>2, <1>3, <3>1, FoldExists
  <2> QED
    BY <2>1
<1>5. \A s \in SUBSET (1 .. n) : h[s] = IF s = {} THEN b ELSE g[Max(s)][h[s \ {Max(s)}]]
  BY <1>1, <1>4 DEF Folds
<1>6. h \in [SUBSET (1 .. n) -> V]
  BY <1>4 DEF Folds
<1> QED
  BY <1>5, <1>6 DEF Folding

LEMMA LoopRuns ==
  ASSUME NEW n \in Nat, NEW V, NEW b \in V, NEW g \in [1 .. n -> [V -> V]],
         NEW h, FoldingIn(h, n, V, b, g)
  PROVE  \E p \in [0 .. n -> V] : Turns(p, n, b, g) /\ p[n] = h[1 .. n]
<1> USE DEF FoldingIn
<1> DEFINE A == {k \in Nat : k <= n => h[1 .. k] \in V}
<1>0. 1 .. 0 = {}
  OBVIOUS
<1>1. ASSUME NEW k \in 1 .. n, h[1 .. k - 1] \in V PROVE h[1 .. k] = g[k][h[1 .. k - 1]]
  <2>1. 1 .. k \in SUBSET (1 .. n) /\ 1 .. k # {} /\ Max(1 .. k) = k /\ (1 .. k) \ {k} = 1 .. k - 1
    BY MaxOfPrefix
  <2> QED
    BY <1>1, <2>1
<1>2. A = Nat
  <2>1. 0 \in A
    BY <1>0
  <2>2. ASSUME NEW k \in A PROVE k + 1 \in A
    <3> SUFFICES ASSUME k + 1 <= n PROVE h[1 .. k + 1] \in V
      OBVIOUS
    <3>1. k + 1 \in 1 .. n /\ (k + 1) - 1 = k /\ h[1 .. k] \in V
      OBVIOUS
    <3>2. h[1 .. k + 1] = g[k + 1][h[1 .. k]]
      BY <1>1, <3>1
    <3> QED
      BY <3>1, <3>2
  <2>3. A \in SUBSET Nat
    OBVIOUS
  <2> HIDE DEF A
  <2> QED
    BY <2>1, <2>2, <2>3, CountingInduction
<1> DEFINE p == [k \in 0 .. n |-> h[1 .. k]]
<1>3. \A k \in 0 .. n : h[1 .. k] \in V
  BY <1>2
<1>4. ASSUME NEW k \in 1 .. n PROVE p[k] = g[k][p[k - 1]]
  <2>1. k \in 0 .. n /\ k - 1 \in 0 .. n
    OBVIOUS
  <2> QED
    BY <1>1, <1>3, <2>1
<1>5. p \in [0 .. n -> V] /\ p[0] = b /\ p[n] = h[1 .. n]
  BY <1>0, <1>3
<1> HIDE DEF p
<1> QED
  BY <1>4, <1>5 DEF Turns
=============================================================================
