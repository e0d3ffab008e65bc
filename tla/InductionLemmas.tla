--------------------------- MODULE InductionLemmas ---------------------------
(***************************************************************************)
(* Induction, as far as the proofs about the components need it: the least *)
(* element of a set of naturals, functions defined by recursion on the     *)
(* naturals, and sums over finite sets.  An induction is an argument about *)
(* the least element of the set of counterexamples.                        *)
(***************************************************************************)
EXTENDS Integers, FiniteSets, Functions, FiniteSetTheorems, WellFoundedInduction, TLAPS

\* Every set of naturals that is not empty has a least element.
LEMMA LeastElement ==
  ASSUME NEW T \in SUBSET Nat, T # {}
  PROVE  \E m \in T : \A n \in T : m <= n
<1>1. PICK m \in T : \A n \in T : <<n, m>> \notin OpToRel(<, Nat)
  BY WFMin, NatLessThanWellFounded, Zenon
<1>2. \A n \in T : ~(n < m)
  BY <1>1, Zenon DEF OpToRel
<1> QED
  BY <1>2

\* What holds of 0 and goes from n to n + 1 holds of all naturals.
LEMMA AllNaturals ==
  ASSUME NEW T \in SUBSET Nat, 0 \in T, \A n \in T : n + 1 \in T
  PROVE  T = Nat
<1> SUFFICES ASSUME Nat \ T # {} PROVE FALSE
  OBVIOUS
<1>1. PICK m \in Nat \ T : \A n \in Nat \ T : m <= n
  BY LeastElement
<1>2. m # 0 /\ m - 1 \in Nat
  BY <1>1
<1>3. m - 1 \in T
  BY <1>1, <1>2
<1> QED
  BY <1>1, <1>2, <1>3
-----------------------------------------------------------------------------
(***************************************************************************)
(* The sum of a function over a finite set, as FoldFunction computes it.   *)
(***************************************************************************)
SumOf(f) == FoldFunction(+, 0, f)

Pick(s) == CHOOSE x \in s : TRUE

\* One level of the recursion: the sums over all subsets of D from those over smaller ones.
SumStep(D, f, g) ==
  [s \in SUBSET D |-> IF s = {} THEN 0 ELSE f[Pick(s)] + g[s \ {Pick(s)}]]

SumTable(D, f) == CHOOSE g : g = SumStep(D, f, g)

LEMMA SumIsInTable ==
  ASSUME NEW f
  PROVE  SumOf(f) = SumTable(DOMAIN f, f)[DOMAIN f]
BY Zenon DEF SumOf, FoldFunction, FoldFunctionOnSet, MapThenFoldSet, SumTable, SumStep, Pick

\* A subset without its Pick has one element less.
LEMMA PickSmaller ==
  ASSUME NEW D, IsFiniteSet(D), NEW s \in SUBSET D, s # {}
  PROVE  /\ Pick(s) \in s /\ s \ {Pick(s)} \in SUBSET D
         /\ Cardinality(s) \in Nat /\ Cardinality(s \ {Pick(s)}) = Cardinality(s) - 1
<1>1. Pick(s) \in s
  BY DEF Pick
<1>2. IsFiniteSet(s)
  BY FS_Subset
<1> QED
  BY <1>1, <1>2, FS_RemoveElement, FS_CardinalityType

\* The recursion has a solution.
LEMMA SumTableExists ==
  ASSUME NEW D, IsFiniteSet(D), NEW f
  PROVE  SumTable(D, f) = SumStep(D, f, SumTable(D, f))
<1> DEFINE Upto(n) == {s \in SUBSET D : Cardinality(s) <= n}
           T == {n \in Nat : \E g : \A s \in Upto(n) : g[s] = SumStep(D, f, g)[s]}
<1>1. 0 \in T
  <2> DEFINE g == [s \in SUBSET D |-> 0]
  <2>1. ASSUME NEW s \in Upto(0) PROVE g[s] = SumStep(D, f, g)[s]
    <3>1. s = {}
      <4>1. IsFiniteSet(s)
        BY FS_Subset
      <4>2. Cardinality(s) = 0
        BY <4>1, FS_CardinalityType
      <4> QED
        BY <4>1, <4>2, FS_EmptySet
    <3> QED
      BY <3>1 DEF SumStep
  <2> QED
    BY <2>1
<1>2. ASSUME NEW n \in T PROVE n + 1 \in T
  <2>1. PICK g : \A s \in Upto(n) : g[s] = SumStep(D, f, g)[s]
    OBVIOUS
  <2> DEFINE h == SumStep(D, f, g)
  <2>2. ASSUME NEW s \in Upto(n + 1) PROVE h[s] = SumStep(D, f, h)[s]
    <3>1. CASE s = {}
      BY <3>1 DEF SumStep
    <3>2. CASE s # {}
      <4> DEFINE r == s \ {Pick(s)}
      <4>1. r \in Upto(n)
        BY <3>2, PickSmaller
      <4>2. h[r] = g[r]
        BY <2>1, <4>1
      <4> QED
        BY <3>2, <4>2 DEF SumStep
    <3> QED
      BY <3>1, <3>2
  <2> QED
    BY <2>2
<1>3. T = Nat
  BY <1>1, <1>2, AllNaturals
<1>4. Cardinality(D) \in T
  BY <1>3, FS_CardinalityType
<1>5. PICK g : \A s \in Upto(Cardinality(D)) : g[s] = SumStep(D, f, g)[s]
  BY <1>4
<1>6. \A s \in SUBSET D : s \in Upto(Cardinality(D))
  BY FS_Subset
<1> DEFINE h == SumStep(D, f, g)
<1>7. h = SumStep(D, f, h)
  <2>1. \A s \in SUBSET D : h[s] = g[s]
    BY <1>5, <1>6
  <2>2. ASSUME NEW s \in SUBSET D PROVE h[s] = SumStep(D, f, h)[s]
    <3>1. CASE s = {}
      BY <3>1 DEF SumStep
    <3>2. CASE s # {}
      <4>1. h[s \ {Pick(s)}] = g[s \ {Pick(s)}]
        BY <2>1, <3>2, PickSmaller
      <4> QED
        BY <3>2, <4>1 DEF SumStep
    <3> QED
      BY <3>1, <3>2
  <2> QED
    BY <2>2 DEF SumStep
<1> QED
  BY <1>7 DEF SumTable

\* What holds of the empty set, and of a set if it holds of it without its Pick, holds of
\* every subset.
LEMMA AllSubsets ==
  ASSUME NEW D, IsFiniteSet(D), NEW Q \in SUBSET SUBSET D, {} \in Q,
         \A s \in SUBSET D : s # {} /\ s \ {Pick(s)} \in Q => s \in Q
  PROVE  Q = SUBSET D
<1> SUFFICES ASSUME NEW u \in SUBSET D, u \notin Q PROVE FALSE
  OBVIOUS
<1> DEFINE T == {Cardinality(s) : s \in (SUBSET D) \ Q}
<1>0. ASSUME NEW s \in SUBSET D PROVE Cardinality(s) \in Nat
  <2>1. IsFiniteSet(s)
    BY FS_Subset
  <2> QED
    BY <2>1, FS_CardinalityType
<1>1. T \in SUBSET Nat /\ T # {}
  BY <1>0
<1>2. PICK m \in T : \A n \in T : m <= n
  BY <1>1, LeastElement
<1>3. PICK s \in (SUBSET D) \ Q : m = Cardinality(s)
  BY <1>2
<1>4. s # {} /\ s \ {Pick(s)} \in (SUBSET D) \ Q
  OBVIOUS
<1>5. Cardinality(s \ {Pick(s)}) = m - 1 /\ m \in Nat
  BY <1>0, <1>3, <1>4, PickSmaller
<1>6. m - 1 \in T
  BY <1>4, <1>5
<1> QED
  BY <1>2, <1>5, <1>6

LEMMA SumType ==
  ASSUME NEW D, IsFiniteSet(D), NEW f \in [D -> Int]
  PROVE  SumOf(f) \in Int /\ \A s \in SUBSET D : SumTable(D, f)[s] \in Int
<1> DEFINE g == SumTable(D, f)
           Q == {s \in SUBSET D : g[s] \in Int}
<1>1. g = SumStep(D, f, g)
  BY SumTableExists
<1>2. {} \in Q
  BY <1>1 DEF SumStep
<1>3. ASSUME NEW s \in SUBSET D, s # {}, s \ {Pick(s)} \in Q
      PROVE  s \in Q
  <2>1. Pick(s) \in D
    BY <1>3, PickSmaller
  <2>2. g[s] = f[Pick(s)] + g[s \ {Pick(s)}]
    BY <1>1, <1>3 DEF SumStep
  <2> QED
    BY <1>3, <2>1, <2>2
<1>4. Q = SUBSET D
  <2>1. Q \in SUBSET SUBSET D
    OBVIOUS
  <2>2. \A s \in SUBSET D : s # {} /\ s \ {Pick(s)} \in Q => s \in Q
    BY <1>3
  <2> HIDE DEF Q
  <2> QED
    BY <1>2, <2>1, <2>2, AllSubsets
<1>5. D \in SUBSET D /\ DOMAIN f = D
  OBVIOUS
<1>6. SumOf(f) = g[D]
  BY <1>5, SumIsInTable
<1> QED
  BY <1>4, <1>5, <1>6

\* The sum of zeros.
LEMMA SumOfZeros ==
  ASSUME NEW D, IsFiniteSet(D), NEW f, f = [x \in D |-> 0]
  PROVE  SumOf(f) = 0
<1> DEFINE g == SumTable(D, f)
           Q == {s \in SUBSET D : g[s] = 0}
<1>1. g = SumStep(D, f, g)
  BY SumTableExists
<1>2. {} \in Q
  BY <1>1 DEF SumStep
<1>3. ASSUME NEW s \in SUBSET D, s # {}, s \ {Pick(s)} \in Q
      PROVE  s \in Q
  <2>1. Pick(s) \in D
    BY <1>3, PickSmaller
  <2>2. g[s] = f[Pick(s)] + g[s \ {Pick(s)}]
    BY <1>1, <1>3 DEF SumStep
  <2> QED
    BY <1>3, <2>1, <2>2
<1>4. Q = SUBSET D
  <2>1. Q \in SUBSET SUBSET D
    OBVIOUS
  <2>2. \A s \in SUBSET D : s # {} /\ s \ {Pick(s)} \in Q => s \in Q
    BY <1>3
  <2> HIDE DEF Q
  <2> QED
    BY <1>2, <2>1, <2>2, AllSubsets
<1>5. D \in SUBSET D /\ DOMAIN f = D
  OBVIOUS
<1>6. SumOf(f) = g[D]
  BY <1>5, SumIsInTable
<1> QED
  BY <1>4, <1>5, <1>6

\* The sum changes by what one of the summands changes by.
LEMMA SumChanges ==
  ASSUME NEW D, IsFiniteSet(D), NEW f \in [D -> Int], NEW w \in D, NEW v \in Int,
         NEW h, h = [f EXCEPT ![w] = v]
  PROVE  SumOf(h) = SumOf(f) + (v - f[w])
<1> DEFINE F == SumTable(D, f)
           H == SumTable(D, h)
           Q == {s \in SUBSET D : H[s] = F[s] + (IF w \in s THEN v - f[w] ELSE 0)}
<1>1. F = SumStep(D, f, F) /\ H = SumStep(D, h, H)
  BY SumTableExists
<1>2. \A s \in SUBSET D : F[s] \in Int
  BY SumType
<1>3. {} \in Q
  <2>1. F[{}] = 0 /\ H[{}] = 0
    BY <1>1 DEF SumStep
  <2> QED
    BY <2>1
<1>4. ASSUME NEW s \in SUBSET D, s # {}, s \ {Pick(s)} \in Q
      PROVE  s \in Q
  <2> DEFINE x == Pick(s)
             r == s \ {x}
  <2>1. x \in s /\ r \in SUBSET D
    BY <1>4, PickSmaller
  <2>2. F[s] = f[x] + F[r] /\ H[s] = h[x] + H[r]
    BY <1>1, <1>4 DEF SumStep
  <2>3. H[r] = F[r] + (IF w \in r THEN v - f[w] ELSE 0)
    BY <1>4
  <2>4. F[r] \in Int /\ f[x] \in Int /\ f[w] \in Int
    BY <1>2, <2>1
  <2>5. CASE x = w
    <3>1. h[x] = v /\ w \notin r /\ w \in s
      BY <2>1, <2>5
    <3> QED
      BY <2>2, <2>3, <2>4, <2>5, <3>1
  <2>6. CASE x # w
    <3>1. h[x] = f[x] /\ (w \in r <=> w \in s)
      BY <2>1, <2>6
    <3> QED
      BY <2>2, <2>3, <2>4, <3>1
  <2> QED
    BY <2>5, <2>6
<1>5. Q = SUBSET D
  <2>1. Q \in SUBSET SUBSET D
    OBVIOUS
  <2>2. \A s \in SUBSET D : s # {} /\ s \ {Pick(s)} \in Q => s \in Q
    BY <1>4
  <2> HIDE DEF Q
  <2> QED
    BY <1>3, <2>1, <2>2, AllSubsets
<1>6. H[D] = F[D] + (v - f[w])
  BY <1>5
<1>7. DOMAIN f = D /\ DOMAIN h = D
  OBVIOUS
<1>8. SumOf(f) = F[D] /\ SumOf(h) = H[D]
  BY <1>7, SumIsInTable
<1> QED
  BY <1>6, <1>8

\* A sum of naturals is a natural.
LEMMA SumOfNaturals ==
  ASSUME NEW D, IsFiniteSet(D), NEW f \in [D -> Nat]
  PROVE  SumOf(f) \in Nat
<1> DEFINE g == SumTable(D, f)
           Q == {s \in SUBSET D : g[s] \in Nat}
<1>1. g = SumStep(D, f, g)
  BY SumTableExists
<1>2. {} \in Q
  BY <1>1 DEF SumStep
<1>3. ASSUME NEW s \in SUBSET D, s # {}, s \ {Pick(s)} \in Q
      PROVE  s \in Q
  <2>1. Pick(s) \in D
    BY <1>3, PickSmaller
  <2>2. g[s] = f[Pick(s)] + g[s \ {Pick(s)}]
    BY <1>1, <1>3 DEF SumStep
  <2> QED
    BY <1>3, <2>1, <2>2
<1>4. Q = SUBSET D
  <2>1. Q \in SUBSET SUBSET D
    OBVIOUS
  <2>2. \A s \in SUBSET D : s # {} /\ s \ {Pick(s)} \in Q => s \in Q
    BY <1>3
  <2> HIDE DEF Q
  <2> QED
    BY <1>2, <2>1, <2>2, AllSubsets
<1>5. D \in SUBSET D /\ DOMAIN f = D
  OBVIOUS
<1>6. SumOf(f) = g[D]
  BY <1>5, SumIsInTable
<1> QED
  BY <1>4, <1>5, <1>6

\* A larger function has a larger sum.
LEMMA SumMonotone ==
  ASSUME NEW D, IsFiniteSet(D), NEW f \in [D -> Int], NEW h \in [D -> Int],
         \A x \in D : f[x] <= h[x]
  PROVE  SumOf(f) <= SumOf(h)
<1> DEFINE F == SumTable(D, f)
           H == SumTable(D, h)
           Q == {s \in SUBSET D : F[s] <= H[s]}
<1>1. F = SumStep(D, f, F) /\ H = SumStep(D, h, H)
  BY SumTableExists
<1>2. {} \in Q
  BY <1>1 DEF SumStep
<1>3. ASSUME NEW s \in SUBSET D, s # {}, s \ {Pick(s)} \in Q
      PROVE  s \in Q
  <2>1. Pick(s) \in D /\ s \ {Pick(s)} \in SUBSET D
    BY <1>3, PickSmaller
  <2>2. /\ F[s] = f[Pick(s)] + F[s \ {Pick(s)}]
        /\ H[s] = h[Pick(s)] + H[s \ {Pick(s)}]
    BY <1>1, <1>3 DEF SumStep
  <2>3. F[s \ {Pick(s)}] \in Int /\ H[s \ {Pick(s)}] \in Int
    BY <2>1, SumType
  <2> HIDE DEF F, H
  <2> QED
    BY <1>3, <2>1, <2>2, <2>3
<1>4. Q = SUBSET D
  <2>1. Q \in SUBSET SUBSET D
    OBVIOUS
  <2>2. \A s \in SUBSET D : s # {} /\ s \ {Pick(s)} \in Q => s \in Q
    BY <1>3
  <2> HIDE DEF Q
  <2> QED
    BY <1>2, <2>1, <2>2, AllSubsets
<1>5. D \in SUBSET D /\ DOMAIN f = D /\ DOMAIN h = D
  OBVIOUS
<1>6. SumOf(f) = F[D] /\ SumOf(h) = H[D]
  BY <1>5, SumIsInTable
<1> QED
  BY <1>4, <1>5, <1>6
-----------------------------------------------------------------------------
(***************************************************************************)
(* Folds over 1..n that take the greatest element first, as FoldLeft does. *)
(* What is folded with element i is the function step[i].                  *)
(***************************************************************************)
Greatest(s) == CHOOSE x \in s : \A y \in s : x >= y

\* Of the elements up to k + 1 the greatest is k + 1.
LEMMA GreatestIs ==
  ASSUME NEW k \in Nat, NEW s \in SUBSET (1..(k + 1)), k + 1 \in s
  PROVE  Greatest(s) = k + 1 /\ s \ {k + 1} \in SUBSET (1..k)
<1>1. \A y \in s : k + 1 >= y
  OBVIOUS
<1>2. \A x \in s : (\A y \in s : x >= y) => x = k + 1
  OBVIOUS
<1>3. Greatest(s) = k + 1
  <2>1. \E x \in s : \A y \in s : x >= y
    BY <1>1
  <2>2. Greatest(s) \in s /\ \A y \in s : Greatest(s) >= y
    BY <2>1, Zenon DEF Greatest
  <2> QED
    BY <1>2, <2>2
<1> QED
  BY <1>3

FoldStep(n, base, step, g) ==
  [s \in SUBSET (1..n) |->
     IF s = {} THEN base ELSE step[Greatest(s)][g[s \ {Greatest(s)}]]]

FoldSolvable(A, base, step, n) ==
  \E g \in [SUBSET (1..n) -> A] : g = FoldStep(n, base, step, g)

\* The recursion of such a fold has a solution.
LEMMA FoldTableExists ==
  ASSUME NEW A, NEW base \in A, NEW n \in Nat, NEW step \in [1..n -> [A -> A]]
  PROVE  FoldSolvable(A, base, step, n)
<1> DEFINE T == {c \in Nat : c <= n => FoldSolvable(A, base, step, c)}
<1>1. 0 \in T
  <2> DEFINE g == [s \in SUBSET (1..0) |-> base]
  <2>1. g \in [SUBSET (1..0) -> A]
    OBVIOUS
  <2>2. \A s \in SUBSET (1..0) : s = {}
    OBVIOUS
  <2>3. g = FoldStep(0, base, step, g)
    BY <2>2 DEF FoldStep
  <2>4. FoldSolvable(A, base, step, 0)
    <3> HIDE DEF g
    <3> QED
      BY <2>1, <2>3, Zenon DEF FoldSolvable
  <2> QED
    BY <2>4
<1>2. ASSUME NEW c \in T PROVE c + 1 \in T
  <2> SUFFICES ASSUME c + 1 <= n PROVE FoldSolvable(A, base, step, c + 1)
    OBVIOUS
  <2>0. FoldSolvable(A, base, step, c)
    OBVIOUS
  <2>1. PICK g \in [SUBSET (1..c) -> A] : g = FoldStep(c, base, step, g)
    BY <2>0, Zenon DEF FoldSolvable
  <2> DEFINE h == [s \in SUBSET (1..(c + 1)) |->
                     IF c + 1 \in s THEN step[c + 1][g[s \ {c + 1}]] ELSE g[s]]
  <2>2. \A s \in SUBSET (1..(c + 1)) : c + 1 \notin s => s \in SUBSET (1..c)
    OBVIOUS
  <2>3. h \in [SUBSET (1..(c + 1)) -> A]
    <3>1. ASSUME NEW s \in SUBSET (1..(c + 1)) PROVE h[s] \in A
      <4>1. CASE c + 1 \in s
        <5>1. g[s \ {c + 1}] \in A
          BY <4>1, <2>1, GreatestIs
        <5>2. step[c + 1] \in [A -> A]
          OBVIOUS
        <5> QED
          BY <4>1, <5>1, <5>2
      <4>2. CASE c + 1 \notin s
        BY <4>2, <2>1, <2>2
      <4> QED
        BY <4>1, <4>2
    <3> QED
      BY <3>1
  <2>4. ASSUME NEW s \in SUBSET (1..(c + 1))
        PROVE  h[s] = IF s = {} THEN base ELSE step[Greatest(s)][h[s \ {Greatest(s)}]]
    <3>1. CASE c + 1 \in s
      <4>1. Greatest(s) = c + 1 /\ s \ {c + 1} \in SUBSET (1..c)
        BY <3>1, GreatestIs
      <4>2. h[s \ {c + 1}] = g[s \ {c + 1}]
        OBVIOUS
      <4> QED
        BY <3>1, <4>1, <4>2
    <3>2. CASE c + 1 \notin s
      <4>1. s \in SUBSET (1..c) /\ h[s] = g[s]
        BY <3>2, <2>2
      <4>2. g[s] = IF s = {} THEN base ELSE step[Greatest(s)][g[s \ {Greatest(s)}]]
        BY <4>1, <2>1, Zenon DEF FoldStep
      <4>3. h[s \ {Greatest(s)}] = g[s \ {Greatest(s)}]
        <5>1. s \ {Greatest(s)} \in SUBSET (1..(c + 1)) /\ c + 1 \notin s \ {Greatest(s)}
          BY <3>2
        <5> QED
          BY <5>1
      <4> QED
        BY <4>1, <4>2, <4>3, Zenon
    <3> QED
      BY <3>1, <3>2
  <2>5. h = FoldStep(c + 1, base, step, h)
    <3> HIDE DEF h
    <3>1. h = [s \in SUBSET (1..(c + 1)) |-> h[s]]
      BY <2>3, Zenon
    <3> QED
      BY <3>1, <2>4, Zenon DEF FoldStep
  <2> HIDE DEF h
  <2> QED
    BY <2>3, <2>5, Zenon DEF FoldSolvable
<1>3. T = Nat
  <2> HIDE DEF T
  <2>1. T \in SUBSET Nat
    BY DEF T
  <2> QED
    BY <1>1, <1>2, <2>1, AllNaturals
<1> QED
  BY <1>3

\* The sets such a fold goes through.
LEMMA PrefixTop ==
  ASSUME NEW n \in Nat, NEW k \in 1..n
  PROVE  Greatest(1..k) = k /\ (1..k) \ {k} = 1..(k - 1) /\ 1..k # {}
<1>1. k - 1 \in Nat /\ (k - 1) + 1 = k /\ k \in 1..k
  OBVIOUS
<1>2. \A j \in Nat : j + 1 \in 1..(j + 1) => Greatest(1..(j + 1)) = j + 1
  BY GreatestIs
<1>3. Greatest(1..k) = k
  BY <1>1, <1>2
<1> QED
  BY <1>1, <1>3

\* The greatest element of a set of naturals up to n is one of them.
LEMMA GreatestInside ==
  ASSUME NEW n \in Nat, NEW s \in SUBSET (1..n), s # {}
  PROVE  Greatest(s) \in s
<1> DEFINE T == {n - x : x \in s}
<1>1. PICK m \in T : \A y \in T : m <= y
  <2>1. \A x \in s : n - x \in Nat
    OBVIOUS
  <2>2. T \in SUBSET Nat /\ T # {}
    BY <2>1
  <2> HIDE DEF T
  <2> QED
    BY <2>2, LeastElement
<1>2. PICK x \in s : m = n - x
  OBVIOUS
<1>3. ASSUME NEW y \in s PROVE x >= y
  <2>1. n - y \in T
    OBVIOUS
  <2>2. n - x <= n - y
    BY <1>1, <1>2, <2>1
  <2> QED
    BY <2>2
<1> QED
  BY <1>3, Zenon DEF Greatest
===============================================================================
