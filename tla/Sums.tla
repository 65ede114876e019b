-------------------------------- MODULE Sums ----------------------------------
(***************************************************************************)
(* Numbers, loops and sums over finite sets, for the proofs: least and     *)
(* greatest numbers, that a recursive function over 0..n exists, what      *)
(* SumFunction of the community modules gives, and the totals of a         *)
(* function over the subsets of a finite set.  SumFunction is a fold over  *)
(* a recursive function that is chosen, so the first lemmas about it show  *)
(* that one exists and that the order of the elements is no matter.        *)
(***************************************************************************)
EXTENDS Integers, Functions, FiniteSetTheorems, WellFoundedInduction, TLAPS

-----------------------------------------------------------------------------
(* Least and greatest.                                                     *)

\* A set of numbers has a least one.
LEMMA LeastExists ==
  ASSUME NEW T, T \subseteq Nat, T # {}
  PROVE  \E m \in T : \A k \in T : m <= k
<1> DEFINE R == StrictSubsetOrdering(Nat)
           Initial == {0..t : t \in T}
<1>1. IsWellFoundedOn(R, FiniteSubsetsOf(Nat))
  BY FS_StrictSubsetOrderingWellFounded
<1>2. Initial \subseteq FiniteSubsetsOf(Nat) /\ Initial # {}
  <2>1. ASSUME NEW t \in T PROVE 0..t \in SUBSET Nat /\ IsFiniteSet(0..t)
    BY FS_Interval
  <2> QED
    BY <2>1 DEF FiniteSubsetsOf
<1>3. PICK I \in Initial : \A J \in Initial : <<J, I>> \notin R
  <2> HIDE DEF R, Initial
  <2> QED
    BY <1>1, <1>2, WFMin
<1>4. PICK m \in T : I = 0..m
  BY <1>3
<1>5. ASSUME NEW k \in T, k < m PROVE FALSE
  <2>1. 0..k \subseteq 0..m /\ m \notin 0..k /\ m \in 0..m
    BY <1>5
  <2>2. <<0..k, 0..m>> \in R
    BY <2>1 DEF StrictSubsetOrdering
  <2> QED
    BY <1>3, <1>4, <2>2
<1>6. \A k \in T : m <= k
  BY <1>5
<1> QED
  BY <1>6

\* ... and if it is bounded a greatest one.
LEMMA GreatestExists ==
  ASSUME NEW n \in Nat, NEW T, T \subseteq 0..n, T # {}
  PROVE  \E m \in T : \A k \in T : k <= m
<1> DEFINE U == {n - k : k \in T}
<1>1. U \subseteq Nat /\ U # {}
  OBVIOUS
<1>2. PICK u \in U : \A k \in U : u <= k
  <2> HIDE DEF U
  <2> QED
    BY <1>1, LeastExists
<1>3. PICK m \in T : u = n - m
  OBVIOUS
<1>4. ASSUME NEW k \in T PROVE k <= m
  <2>1. u <= n - k
    BY <1>2
  <2> QED
    BY <1>3, <2>1
<1> QED
  BY <1>4

-----------------------------------------------------------------------------
(* Loops, as recursive functions over 0..n.                                *)

\* f starts with a, and step leads from each of its values to the next.
Loop(f, T, a, step, n) ==
  f \in [0..n -> T] /\ f[0] = a /\ \A k \in 1..n : f[k] = step[k][f[k - 1]]

LEMMA LoopGoesOn ==
  ASSUME NEW T, NEW a \in T, NEW n \in Nat, NEW step \in [1..n + 1 -> [T -> T]],
         NEW g, Loop(g, T, a, step, n)
  PROVE  \E f : Loop(f, T, a, step, n + 1)
<1>1. /\ n + 1 \in 1..n + 1 /\ n \in 0..n /\ (n + 1) - 1 = n /\ n + 1 # n /\ n # n + 1
      /\ 0 \in 0..n /\ 0 # n + 1
  OBVIOUS
<1>2. g \in [0..n -> T] /\ g[0] = a /\ \A k \in 1..n : g[k] = step[k][g[k - 1]]
  BY DEF Loop
<1>3. PICK next : next = step[n + 1][g[n]] /\ next \in T
  BY <1>1, <1>2
<1>4. PICK f : f = [k \in 0..n + 1 |-> IF k = n + 1 THEN next ELSE g[k]]
  OBVIOUS
<1>5. f \in [0..n + 1 -> T] /\ f[0] = a
  <2>1. \A k \in 0..n + 1 : k # n + 1 => k \in 0..n
    OBVIOUS
  <2>2. 0 \in 0..n + 1
    OBVIOUS
  <2> QED
    BY <1>1, <1>2, <1>3, <1>4, <2>1, <2>2
<1>6. ASSUME NEW k \in 1..n + 1 PROVE f[k] = step[k][f[k - 1]]
  <2>1. CASE k = n + 1
    <3>1. n \in 0..n + 1 /\ k \in 0..n + 1
      BY <2>1
    <3>2. f[k] = next /\ f[n] = g[n]
      BY <1>1, <1>4, <2>1, <3>1
    <3> QED
      BY <1>1, <1>3, <2>1, <3>2
  <2>2. CASE k # n + 1
    <3>1. /\ k \in 1..n /\ k \in 0..n + 1 /\ k - 1 \in 0..n + 1 /\ k - 1 # n + 1
      BY <2>2
    <3>2. f[k] = g[k] /\ f[k - 1] = g[k - 1]
      BY <1>4, <2>2, <3>1
    <3> QED
      BY <1>2, <3>1, <3>2
  <2> QED
    BY <2>1, <2>2
<1> QED
  BY <1>5, <1>6 DEF Loop

LEMMA LoopExists ==
  ASSUME NEW T, NEW a \in T, NEW n \in Nat, NEW step \in [1..n -> [T -> T]]
  PROVE  \E f : Loop(f, T, a, step, n)
<1> DEFINE Fails == {m \in 0..n : ~\E f : Loop(f, T, a, step, m)}
<1>1. Fails = {}
  <2> SUFFICES ASSUME Fails # {} PROVE FALSE
    OBVIOUS
  <2>1. PICK m \in Fails : \A j \in Fails : m <= j
    <3> Fails \subseteq Nat
      OBVIOUS
    <3> HIDE DEF Fails
    <3> QED
      BY LeastExists
  <2>2. m # 0
    <3>1. PICK f : f = [k \in 0..0 |-> a]
      OBVIOUS
    <3>2. Loop(f, T, a, step, 0)
      BY <3>1 DEF Loop
    <3> QED
      BY <2>1, <3>2
  <2>3. PICK l : l = m - 1
    OBVIOUS
  <2>4. l \in Nat /\ l \in 0..n /\ l + 1 = m /\ l < m /\ l + 1 <= n
    BY <2>1, <2>2, <2>3
  <2>5. PICK g : Loop(g, T, a, step, l)
    BY <2>1, <2>4
  <2>6. PICK part : part = [k \in 1..l + 1 |-> step[k]]
    OBVIOUS
  <2>7. part \in [1..l + 1 -> [T -> T]] /\ \A k \in 1..l + 1 : part[k] = step[k]
    BY <2>4, <2>6
  <2>8. Loop(g, T, a, part, l)
    <3>1. \A k \in 1..l : k \in 1..l + 1
      BY <2>4
    <3> QED
      BY <2>5, <2>7, <3>1 DEF Loop
  <2>9. PICK f : Loop(f, T, a, part, l + 1)
    BY <2>4, <2>7, <2>8, LoopGoesOn
  <2>10. Loop(f, T, a, step, m)
    BY <2>4, <2>7, <2>9 DEF Loop
  <2> QED
    BY <2>1, <2>10
<1>2. n \in 0..n
  OBVIOUS
<1> QED
  BY <1>1, <1>2

\* What holds of the first value and is kept by every step holds of all.
LEMMA LoopInvariant ==
  ASSUME NEW T, NEW n \in Nat, NEW f, f = [k \in 0..n |-> f[k]], f[0] \in T,
         \A k \in 1..n : f[k - 1] \in T => f[k] \in T
  PROVE  f \in [0..n -> T]
<1> DEFINE Fails == {k \in 0..n : f[k] \notin T}
<1>1. Fails = {}
  <2> SUFFICES ASSUME Fails # {} PROVE FALSE
    OBVIOUS
  <2>1. PICK k \in Fails : \A l \in Fails : k <= l
    <3> Fails \subseteq Nat
      OBVIOUS
    <3> HIDE DEF Fails
    <3> QED
      BY LeastExists
  <2>2. k # 0
    BY <2>1
  <2>3. k \in 1..n /\ k - 1 \in 0..n /\ k - 1 < k
    BY <2>1, <2>2
  <2>4. k - 1 \notin Fails
    BY <2>1, <2>3
  <2> QED
    BY <2>1, <2>3, <2>4
<1>2. \A k \in 0..n : f[k] \in T
  BY <1>1
<1> QED
  BY <1>2

\* Numbers that do not go down from each place to the next do not go down from each
\* place to any later one.
LEMMA StepsUp ==
  ASSUME NEW lo \in Nat, NEW hi \in Nat, NEW f,
         \A k \in lo..hi : f[k] \in Nat,
         \A k \in lo + 1..hi : f[k - 1] <= f[k],
         NEW i \in lo..hi, NEW j \in i..hi
  PROVE  f[i] <= f[j]
<1> DEFINE Fails == {k \in i..hi : ~(f[i] <= f[k])}
<1> SUFFICES ASSUME Fails # {} PROVE FALSE
  OBVIOUS
<1>1. PICK k \in Fails : \A l \in Fails : k <= l
  <2> Fails \subseteq Nat
    OBVIOUS
  <2> HIDE DEF Fails
  <2> QED
    BY LeastExists
<1>2. f[i] \in Nat /\ f[i] <= f[i]
  <2>1. f[i] \in Nat
    OBVIOUS
  <2> QED
    BY <2>1
<1>3. k # i
  BY <1>1, <1>2
<1>4. k \in lo + 1..hi /\ k \in lo..hi /\ k - 1 \in lo..hi /\ k - 1 \in i..hi /\ k - 1 < k
  BY <1>1, <1>3
<1>5. k - 1 \notin Fails
  BY <1>1, <1>4
<1>6. PICK x, y, z : x = f[i] /\ y = f[k - 1] /\ z = f[k]
  OBVIOUS
<1>7. x \in Nat /\ y \in Nat /\ z \in Nat /\ x <= y /\ y <= z
  BY <1>2, <1>4, <1>5, <1>6
<1>8. x <= z
  BY <1>7
<1> QED
  BY <1>1, <1>6, <1>8

-----------------------------------------------------------------------------
(* Sums over finite sets.                                                  *)

\* g adds up f over the subsets of S, one element after the other.
AddsUp(g, f, S) ==
  g = [s \in S |-> IF s = {} THEN 0
                   ELSE f[CHOOSE x \in s : TRUE] + g[s \ {CHOOSE x \in s : TRUE}]]

SmallSubsets(S, n) == {s \in SUBSET S : Cardinality(s) <= n}

LEMMA SumOfMore ==
  ASSUME NEW S, IsFiniteSet(S), NEW f \in [S -> Int], NEW n \in Nat,
         NEW g \in [SmallSubsets(S, n) -> Int], AddsUp(g, f, SmallSubsets(S, n))
  PROVE  \E h \in [SmallSubsets(S, n + 1) -> Int] : AddsUp(h, f, SmallSubsets(S, n + 1))
<1> DEFINE first(s) == CHOOSE x \in s : TRUE
           h == [s \in SmallSubsets(S, n + 1) |->
                   IF s \in SmallSubsets(S, n) THEN g[s] ELSE f[first(s)] + g[s \ {first(s)}]]
<1>1. ASSUME NEW s \in SmallSubsets(S, n + 1), s # {}
      PROVE  /\ first(s) \in S
             /\ s \ {first(s)} \in SmallSubsets(S, n)
             /\ s \notin SmallSubsets(S, n) \/ s \ {first(s)} \in SmallSubsets(S, n)
  <2>1. first(s) \in s /\ s \subseteq S /\ IsFiniteSet(s) /\ Cardinality(s) <= n + 1
    BY <1>1, FS_Subset DEF SmallSubsets
  <2>2. Cardinality(s \ {first(s)}) = Cardinality(s) - 1 /\ Cardinality(s) \in Nat
    BY <2>1, FS_RemoveElement, FS_CardinalityType
  <2> QED
    BY <2>1, <2>2 DEF SmallSubsets
<1>2. {} \in SmallSubsets(S, n) /\ SmallSubsets(S, n) \subseteq SmallSubsets(S, n + 1)
  <2>1. \A s \in SUBSET S : Cardinality(s) \in Nat
    BY FS_Subset, FS_CardinalityType
  <2> QED
    BY <2>1, FS_EmptySet DEF SmallSubsets
<1>3. h \in [SmallSubsets(S, n + 1) -> Int]
  <2>1. ASSUME NEW s \in SmallSubsets(S, n + 1) PROVE h[s] \in Int
    <3>1. CASE s \in SmallSubsets(S, n)
      BY <3>1
    <3>2. CASE s \notin SmallSubsets(S, n)
      <4>1. s # {}
        BY <1>2, <3>2
      <4>2. f[first(s)] \in Int /\ g[s \ {first(s)}] \in Int
        BY <1>1, <4>1
      <4> QED
        BY <3>2, <4>2
    <3> QED
      BY <3>1, <3>2
  <2> QED
    BY <2>1
<1>4. ASSUME NEW s \in SmallSubsets(S, n + 1)
      PROVE  h[s] = IF s = {} THEN 0 ELSE f[first(s)] + h[s \ {first(s)}]
  <2>1. CASE s = {}
    BY <1>2, <2>1 DEF AddsUp
  <2>2. CASE s # {}
    <3>1. h[s \ {first(s)}] = g[s \ {first(s)}]
      BY <1>1, <1>2, <2>2
    <3>2. h[s] = f[first(s)] + g[s \ {first(s)}]
      BY <2>2 DEF AddsUp
    <3> QED
      BY <2>2, <3>1, <3>2
  <2> QED
    BY <2>1, <2>2
<1>5. AddsUp(h, f, SmallSubsets(S, n + 1))
  <2>1. h = [s \in SmallSubsets(S, n + 1) |-> h[s]]
    OBVIOUS
  <2> HIDE DEF h
  <2> QED
    BY <1>4, <2>1, Zenon DEF AddsUp
<1> QED
  BY <1>3, <1>5

LEMMA SumExists ==
  ASSUME NEW S, IsFiniteSet(S), NEW f \in [S -> Int]
  PROVE  \E g \in [SUBSET S -> Int] : AddsUp(g, f, SUBSET S)
<1> DEFINE P(n) == \E g \in [SmallSubsets(S, n) -> Int] : AddsUp(g, f, SmallSubsets(S, n))
           Fails == {n \in Nat : ~P(n)}
<1>1. P(0)
  <2> DEFINE g == [s \in {{}} |-> 0]
  <2>1. SmallSubsets(S, 0) = {{}}
    <3>1. ASSUME NEW s \in SUBSET S
          PROVE  Cardinality(s) \in Nat /\ (Cardinality(s) = 0 <=> s = {})
      BY FS_Subset, FS_CardinalityType, FS_EmptySet
    <3> QED
      BY <3>1 DEF SmallSubsets
  <2>2. g \in [SmallSubsets(S, 0) -> Int] /\ AddsUp(g, f, SmallSubsets(S, 0))
    BY <2>1 DEF AddsUp
  <2> QED
    BY <2>2
<1>2. ASSUME NEW n \in Nat, P(n) PROVE P(n + 1)
  BY <1>2, SumOfMore
<1>3. Fails = {}
  <2> SUFFICES ASSUME Fails # {} PROVE FALSE
    OBVIOUS
  <2>1. PICK m \in Fails : \A k \in Fails : m <= k
    <3>1. Fails \subseteq Nat
      OBVIOUS
    <3> HIDE DEF Fails
    <3> QED
      BY <3>1, LeastExists
  <2> HIDE DEF P
  <2>2. m # 0
    BY <1>1, <2>1
  <2>3. m - 1 \in Nat /\ (m - 1) + 1 = m /\ ~(m <= m - 1)
    BY <2>2
  <2>4. P(m - 1)
    BY <2>1, <2>3
  <2> QED
    BY <1>2, <2>1, <2>3, <2>4
<1>4. SmallSubsets(S, Cardinality(S)) = SUBSET S /\ Cardinality(S) \in Nat
  <2>1. Cardinality(S) \in Nat /\ \A s \in SUBSET S : Cardinality(s) <= Cardinality(S)
    BY FS_Subset, FS_CardinalityType
  <2> QED
    BY <2>1 DEF SmallSubsets
<1>5. P(Cardinality(S))
  <2> HIDE DEF P
  <2> QED
    BY <1>3, <1>4
<1> QED
  BY <1>4, <1>5

LEMMA SumIsIter ==
  ASSUME NEW f
  PROVE  SumFunction(f) = (CHOOSE g : AddsUp(g, f, SUBSET (DOMAIN f)))[DOMAIN f]
  BY DEF SumFunction, SumFunctionOnSet, FoldFunctionOnSet, MapThenFoldSet, AddsUp

\* Of the finite sets with a property one is smallest.
LEMMA SmallestSet ==
  ASSUME NEW S, IsFiniteSet(S), NEW F, F \subseteq SUBSET S, F # {}
  PROVE  \E T \in F : /\ IsFiniteSet(T)
                      /\ \A U \in F : U \subseteq T => U = T
<1>1. F \subseteq FiniteSubsetsOf(S)
  BY FS_FiniteSubsetsOfFinite
<1>2. PICK T \in F : \A U \in F : <<U, T>> \notin StrictSubsetOrdering(S)
  BY <1>1, FS_StrictSubsetOrderingWellFounded, WFMin
<1> QED
  BY <1>2, FS_Subset DEF StrictSubsetOrdering

\* What adds up a function over all subsets of its domain gives their sums.
LEMMA SumGiven ==
  ASSUME NEW S, IsFiniteSet(S), NEW f \in [S -> Int],
         NEW g \in [SUBSET S -> Int], AddsUp(g, f, SUBSET S), NEW T \in SUBSET S
  PROVE  g[T] = SumFunction([x \in T |-> f[x]])
<1> DEFINE e == [x \in T |-> f[x]]
           h == CHOOSE k : AddsUp(k, e, SUBSET T)
           Differ == {U \in SUBSET T : h[U] # g[U]}
<1>1. IsFiniteSet(T) /\ e \in [T -> Int] /\ DOMAIN e = T
  BY FS_Subset
<1>2. AddsUp(h, e, SUBSET T)
  BY <1>1, SumExists
<1>3. \A U \in SUBSET T :
        /\ h[U] = IF U = {} THEN 0 ELSE e[CHOOSE x \in U : TRUE] + h[U \ {CHOOSE x \in U : TRUE}]
        /\ g[U] = IF U = {} THEN 0 ELSE f[CHOOSE x \in U : TRUE] + g[U \ {CHOOSE x \in U : TRUE}]
  <2> HIDE DEF h, e
  <2> QED
    BY <1>2 DEF AddsUp
<1>4. SumFunction(e) = h[T]
  BY <1>1, SumIsIter
<1> HIDE DEF h
<1>5. Differ = {}
  <2> SUFFICES ASSUME Differ # {} PROVE FALSE
    OBVIOUS
  <2>1. PICK U \in Differ : \A V \in Differ : V \subseteq U => V = U
    <3>1. Differ \subseteq SUBSET T
      OBVIOUS
    <3> HIDE DEF Differ
    <3> QED
      BY <1>1, <3>1, SmallestSet
  <2>2. U # {}
    BY <1>3
  <2>3. PICK x : x = CHOOSE y \in U : TRUE
    OBVIOUS
  <2>4. x \in U /\ x \in T /\ U \ {x} \in SUBSET T
    BY <2>2, <2>3
  <2>5. h[U \ {x}] = g[U \ {x}]
    BY <2>1, <2>4
  <2>6. h[U] = e[x] + h[U \ {x}] /\ g[U] = f[x] + g[U \ {x}] /\ e[x] = f[x]
    BY <1>3, <2>2, <2>3, <2>4
  <2> QED
    BY <2>5, <2>6
<1> QED
  BY <1>4, <1>5

\* The order in which a sum is built up does not matter.
LEMMA AnyOrder ==
  ASSUME NEW S, IsFiniteSet(S), NEW f \in [S -> Int],
         NEW g \in [SUBSET S -> Int], AddsUp(g, f, SUBSET S),
         NEW U \in SUBSET S, NEW z \in U
  PROVE  g[U] = f[z] + g[U \ {z}]
<1> DEFINE Fails == {T \in SUBSET S : \E x \in T : g[T] # f[x] + g[T \ {x}]}
<1> SUFFICES ASSUME Fails # {} PROVE FALSE
  OBVIOUS
<1>1. PICK T \in Fails : \A V \in Fails : V \subseteq T => V = T
  <2>1. Fails \subseteq SUBSET S
    OBVIOUS
  <2> HIDE DEF Fails
  <2> QED
    BY <2>1, SmallestSet
<1>2. PICK x \in T : g[T] # f[x] + g[T \ {x}]
  BY <1>1
<1>3. PICK y : y = CHOOSE v \in T : TRUE
  OBVIOUS
<1>4. y \in T /\ g[T] = f[y] + g[T \ {y}]
  BY <1>2, <1>3 DEF AddsUp
<1>5. x # y
  BY <1>2, <1>4
<1>6. g[T \ {y}] = f[x] + g[(T \ {y}) \ {x}]
  <2>1. T \ {y} \in SUBSET S /\ T \ {y} # T /\ T \ {y} \subseteq T /\ x \in T \ {y}
    BY <1>4, <1>5
  <2> QED
    BY <1>1, <2>1
<1>7. g[T \ {x}] = f[y] + g[(T \ {x}) \ {y}]
  <2>1. T \ {x} \in SUBSET S /\ T \ {x} # T /\ T \ {x} \subseteq T /\ y \in T \ {x}
    BY <1>4, <1>5
  <2> QED
    BY <1>1, <2>1
<1>8. PICK r : r = g[(T \ {y}) \ {x}] /\ r \in Int
  OBVIOUS
<1>9. (T \ {y}) \ {x} = (T \ {x}) \ {y}
  OBVIOUS
<1>10. f[x] \in Int /\ f[y] \in Int
  BY <1>4
<1>11. g[T \ {x}] = f[y] + r
  BY <1>7, <1>8, <1>9
<1>12. g[T] = f[y] + (f[x] + r)
  BY <1>4, <1>6, <1>8
<1>13. f[y] + (f[x] + r) = f[x] + (f[y] + r)
  BY <1>8, <1>10
<1> QED
  BY <1>2, <1>11, <1>12, <1>13

-----------------------------------------------------------------------------
(* The laws of sums that the proofs use.                                   *)

LEMMA SumIsInt ==
  ASSUME NEW S, IsFiniteSet(S), NEW f \in [S -> Int]
  PROVE  SumFunction(f) \in Int
<1>1. PICK g \in [SUBSET S -> Int] : AddsUp(g, f, SUBSET S)
  BY SumExists
<1>2. f = [x \in S |-> f[x]] /\ S \in SUBSET S
  OBVIOUS
<1>3. g[S] = SumFunction([x \in S |-> f[x]])
  BY <1>1, <1>2, SumGiven
<1> QED
  BY <1>1, <1>2, <1>3

LEMMA SumOfNone ==
  ASSUME NEW f, DOMAIN f = {}
  PROVE  SumFunction(f) = 0
<1> DEFINE h == CHOOSE k : AddsUp(k, f, SUBSET {})
<1>1. IsFiniteSet({}) 
  BY FS_EmptySet
<1>2. \E k : AddsUp(k, f, SUBSET {})
  <2>1. AddsUp([s \in SUBSET {} |-> 0], f, SUBSET {})
    BY DEF AddsUp
  <2> QED
    BY <2>1
<1>3. AddsUp(h, f, SUBSET {})
  BY <1>2
<1> HIDE DEF h
<1>4. h[{}] = 0
  BY <1>3 DEF AddsUp
<1> QED
  BY <1>4, SumIsIter DEF h

LEMMA SumWithout ==
  ASSUME NEW S, IsFiniteSet(S), NEW f \in [S -> Int], NEW x \in S
  PROVE  /\ SumFunction(f) = f[x] + SumFunction([y \in S \ {x} |-> f[y]])
         /\ SumFunction([y \in S \ {x} |-> f[y]]) \in Int
<1>1. PICK g \in [SUBSET S -> Int] : AddsUp(g, f, SUBSET S)
  BY SumExists
<1>2. f = [y \in S |-> f[y]]
  OBVIOUS
<1>3. g[S] = SumFunction(f)
  BY <1>1, <1>2, SumGiven
<1>4. g[S \ {x}] = SumFunction([y \in S \ {x} |-> f[y]])
  BY <1>1, SumGiven
<1>5. g[S] = f[x] + g[S \ {x}]
  <2>1. PICK U : U = S
    OBVIOUS
  <2>2. U \in SUBSET S /\ x \in U
    BY <2>1
  <2>3. g[U] = f[x] + g[U \ {x}]
    BY <1>1, <2>2, AnyOrder
  <2> QED
    BY <2>1, <2>3
<1> QED
  BY <1>1, <1>3, <1>4, <1>5

-----------------------------------------------------------------------------
(* The totals of one function over several sets.                           *)

\* The sum of f over the elements of A.
Total(f, A) == SumFunction([x \in A |-> f[x]])

LEMMA FiniteImage ==
  ASSUME NEW S, IsFiniteSet(S), NEW f
  PROVE  IsFiniteSet({f[x] : x \in S})
<1>1. PICK T, g : T = {f[x] : x \in S} /\ g = [x \in S |-> f[x]]
  OBVIOUS
<1>2. g \in Surjection(S, T)
  BY <1>1 DEF Surjection
<1>3. IsFiniteSet(T)
  BY <1>2, FS_Surjection
<1> QED
  BY <1>1, <1>3

\* g knows the total of each subset of S, and how one element changes it.
Totals(g, f, S) ==
  /\ \A A \in SUBSET S : g[A] = Total(f, A)
  /\ \A A \in SUBSET S : \A x \in A : g[A] = f[x] + g[A \ {x}]
  /\ g[{}] = 0

LEMMA TotalsExist ==
  ASSUME NEW S, IsFiniteSet(S), NEW f \in [S -> Int]
  PROVE  \E g \in [SUBSET S -> Int] : Totals(g, f, S)
<1>1. PICK g \in [SUBSET S -> Int] : AddsUp(g, f, SUBSET S)
  BY SumExists
<1>2. \A A \in SUBSET S : g[A] = Total(f, A)
  BY <1>1, SumGiven DEF Total
<1>3. ASSUME NEW x \in S, NEW A, A \in SUBSET S /\ x \in A
      PROVE  g[A] = f[x] + g[A \ {x}]
  BY <1>1, <1>3, AnyOrder
<1>4. g[{}] = 0
  BY <1>1 DEF AddsUp
<1> QED
  BY <1>1, <1>2, <1>3, <1>4 DEF Totals

LEMMA TotalIsInt ==
  ASSUME NEW S, IsFiniteSet(S), NEW f \in [S -> Int], NEW A \in SUBSET S
  PROVE  Total(f, A) \in Int
<1>0. PICK g \in [SUBSET S -> Int] : Totals(g, f, S)
  BY TotalsExist
<1>1. \A B \in SUBSET S : g[B] = Total(f, B)
  BY <1>0 DEF Totals
<1>2. g[A] \in Int
  BY <1>1
<1> QED
  BY <1>1, <1>2

\* The total of two sets without a common element.
LEMMA TotalOfUnion ==
  ASSUME NEW S, IsFiniteSet(S), NEW f \in [S -> Int],
         NEW A \in SUBSET S, NEW B \in SUBSET S, A \cap B = {}
  PROVE  Total(f, A \cup B) = Total(f, A) + Total(f, B)
<1>0. PICK g \in [SUBSET S -> Int] : Totals(g, f, S)
  BY TotalsExist
<1>1. /\ \A U \in SUBSET S : g[U] = Total(f, U)
      /\ \A U \in SUBSET S : \A x \in U : g[U] = f[x] + g[U \ {x}]
      /\ g[{}] = 0
  BY <1>0 DEF Totals
<1> DEFINE Fails == {U \in SUBSET A : g[U \cup B] # g[U] + g[B]}
<1>2. Fails = {}
  <2>1. SUFFICES ASSUME Fails # {} PROVE FALSE
    OBVIOUS
  <2>2. PICK U \in Fails : \A V \in Fails : V \subseteq U => V = U
    <3>1. Fails \subseteq SUBSET A /\ IsFiniteSet(A)
      BY FS_Subset
    <3> HIDE DEF Fails
    <3> QED
      BY <2>1, <3>1, SmallestSet
  <2>3. U \in SUBSET A /\ g[U \cup B] # g[U] + g[B]
    BY <2>2
  <2>4. U # {}
    <3>1. {} \cup B = B /\ g[B] \in Int
      OBVIOUS
    <3>2. g[{} \cup B] = g[{}] + g[B]
      BY <1>1, <3>1
    <3> QED
      BY <2>3, <3>2
  <2>5. PICK x : x \in U
    BY <2>4
  <2>6. PICK V : V = U \ {x}
    OBVIOUS
  <2>7. V \in SUBSET A /\ V \notin Fails
    BY <2>2, <2>3, <2>5, <2>6
  <2>8. g[V \cup B] = g[V] + g[B]
    BY <2>7
  <2>9. (U \cup B) \ {x} = V \cup B /\ U \cup B \in SUBSET S /\ x \in U \cup B
    BY <2>3, <2>5, <2>6
  <2>10. g[U \cup B] = f[x] + g[V \cup B]
    BY <1>1, <2>9, ZenonT(60)
  <2>11. g[U] = f[x] + g[V]
    BY <1>1, <2>3, <2>5, <2>6
  <2>12. f[x] \in Int /\ g[V] \in Int /\ g[B] \in Int
    BY <2>3, <2>5, <2>7
  <2> QED
    BY <2>3, <2>8, <2>10, <2>11, <2>12
<1>3. g[A \cup B] = g[A] + g[B]
  BY <1>2
<1> QED
  BY <1>1, <1>3

\* The totals of the parts of a set add up to its total.
LEMMA TotalOfParts ==
  ASSUME NEW S, IsFiniteSet(S), NEW f \in [S -> Int],
         NEW T, IsFiniteSet(T), NEW part \in [T -> SUBSET S],
         \A t, u \in T : t # u => part[t] \cap part[u] = {}
  PROVE  SumFunction([t \in T |-> Total(f, part[t])])
           = Total(f, UNION {part[t] : t \in T})
<1>0. PICK h : h = [t \in T |-> Total(f, part[t])]
  OBVIOUS
<1>1. h = [t \in T |-> Total(f, part[t])] /\ h \in [T -> Int]
  <2>1. ASSUME NEW t \in T PROVE Total(f, part[t]) \in Int
    BY TotalIsInt
  <2> QED
    BY <1>0, <2>1
<1>g. PICK g \in [SUBSET T -> Int] : Totals(g, h, T)
  BY <1>1, TotalsExist
<1>2. /\ \A U \in SUBSET T : g[U] = Total(h, U)
      /\ \A U \in SUBSET T : \A x \in U : g[U] = h[x] + g[U \ {x}]
      /\ g[{}] = 0
  BY <1>g DEF Totals
<1> DEFINE Cover(U) == UNION {part[t] : t \in U}
           Fails == {U \in SUBSET T : g[U] # Total(f, Cover(U))}
<1>3. Fails = {}
  <2>1. SUFFICES ASSUME Fails # {} PROVE FALSE
    OBVIOUS
  <2>2. PICK U \in Fails : \A V \in Fails : V \subseteq U => V = U
    <3>1. Fails \subseteq SUBSET T
      OBVIOUS
    <3> HIDE DEF Fails
    <3> QED
      BY <2>1, <3>1, SmallestSet
  <2>3. U \in SUBSET T /\ g[U] # Total(f, Cover(U))
    BY <2>2
  <2>4. U # {}
    <3>1. Cover({}) = {}
      OBVIOUS
    <3>2. Total(f, {}) = 0
      <4>1. PICK e : e = [x \in {} |-> f[x]]
        OBVIOUS
      <4>2. DOMAIN e = {}
        BY <4>1
      <4> QED
        BY <4>1, <4>2, SumOfNone DEF Total
    <3> HIDE DEF Cover
    <3> QED
      BY <1>2, <2>3, <3>1, <3>2
  <2>5. PICK x : x \in U
    BY <2>4
  <2>6. PICK V : V = U \ {x} /\ V \in SUBSET T
    BY <2>3
  <2>7. V \notin Fails
    BY <2>2, <2>5, <2>6
  <2>8. g[V] = Total(f, Cover(V))
    BY <2>6, <2>7
  <2>9. PICK A, B : A = part[x] /\ B = Cover(V)
    OBVIOUS
  <2>10. A \cup B = Cover(U)
    BY <2>5, <2>6, <2>9
  <2>11. A \in SUBSET S /\ B \in SUBSET S /\ A \cap B = {}
    BY <2>3, <2>5, <2>6, <2>9
  <2>12. Total(f, A \cup B) = Total(f, A) + Total(f, B)
    BY <2>11, TotalOfUnion
  <2>13. g[U] = h[x] + g[V] /\ h[x] = Total(f, A)
    BY <1>1, <1>2, <2>3, <2>5, <2>6, <2>9
  <2> HIDE DEF Cover
  <2> QED
    BY <2>3, <2>8, <2>9, <2>10, <2>12, <2>13
<1>4. g[T] = Total(f, Cover(T))
  BY <1>3
<1>5. Total(h, T) = SumFunction(h)
  <2>1. h = [t \in T |-> h[t]]
    BY <1>1
  <2> QED
    BY <2>1 DEF Total
<1> QED
  BY <1>1, <1>2, <1>4, <1>5

\* The elements of a set named one by one.
LEMMA TotalOfImage ==
  ASSUME NEW S, IsFiniteSet(S), NEW f \in [S -> Int],
         NEW T, IsFiniteSet(T), NEW h \in [T -> S],
         \A t, u \in T : h[t] = h[u] => t = u
  PROVE  SumFunction([t \in T |-> f[h[t]]]) = Total(f, {h[t] : t \in T})
<1>1. PICK part : part = [t \in T |-> {h[t]}]
  OBVIOUS
<1>2. part \in [T -> SUBSET S] /\ \A t, u \in T : t # u => part[t] \cap part[u] = {}
  BY <1>1
<1>3. SumFunction([t \in T |-> Total(f, part[t])]) = Total(f, UNION {part[t] : t \in T})
  BY <1>2, TotalOfParts
<1>4. UNION {part[t] : t \in T} = {h[t] : t \in T}
  BY <1>1
<1>5. ASSUME NEW t \in T PROVE Total(f, part[t]) = f[h[t]]
  <2>1. PICK x : x = h[t] /\ x \in S /\ part[t] = {x}
    BY <1>1
  <2>0. PICK g \in [SUBSET S -> Int] : Totals(g, f, S)
    BY TotalsExist
  <2>2. /\ \A A \in SUBSET S : g[A] = Total(f, A)
        /\ \A A \in SUBSET S : \A y \in A : g[A] = f[y] + g[A \ {y}]
        /\ g[{}] = 0
    BY <2>0 DEF Totals
  <2>3. PICK A : A = {x} /\ A \in SUBSET S /\ A \ {x} = {} /\ x \in A
    BY <2>1
  <2>4. g[A] = f[x] + g[A \ {x}]
    BY <2>2, <2>3
  <2>5. f[x] \in Int
    BY <2>1
  <2>6. g[A] = f[x]
    BY <2>2, <2>3, <2>4, <2>5
  <2> QED
    BY <2>1, <2>2, <2>3, <2>6
<1>6. [t \in T |-> Total(f, part[t])] = [t \in T |-> f[h[t]]]
  BY <1>5
<1> QED
  BY <1>3, <1>4, <1>6

=============================================================================
