----------------------------- MODULE NumberLemmas -----------------------------
(***************************************************************************)
(* Lemmas about numbers that the proofs about several components need:     *)
(* induction, the sums of Sums.tla, and division.                          *)
(***************************************************************************)
EXTENDS Sums, FiniteSetTheorems, WellFoundedInduction, TLAPS

(* Induction over the natural numbers, stated of a set of them: the library
   states it of an operator, which the provers cannot instantiate.  It follows
   from the well-foundedness of the strict subset ordering.                *)

(* A set of natural numbers that is not empty has a least element.         *)
LEMMA LeastNumber ==
    ASSUME NEW T \in SUBSET Nat, T # {}
    PROVE  \E m \in T : \A k \in T : m <= k
  <1> DEFINE Below == {0 .. k : k \in T}
             R == StrictSubsetOrdering(Nat)
  <1>1. Below \subseteq FiniteSubsetsOf(Nat)
    <2> SUFFICES ASSUME NEW k \in T
                 PROVE  (0 .. k) \in FiniteSubsetsOf(Nat)
      OBVIOUS
    <2>1. IsFiniteSet(0 .. k)
      BY FS_Interval
    <2>2. (0 .. k) \in SUBSET Nat
      OBVIOUS
    <2> QED
      BY <2>1, <2>2, Zenon DEF FiniteSubsetsOf
  <1>2. IsWellFoundedOn(R, FiniteSubsetsOf(Nat))
    BY FS_StrictSubsetOrderingWellFounded
  <1>3. Below # {}
    OBVIOUS
  <1> HIDE DEF Below, R
  <1>4. PICK X \in Below : \A Y \in Below : <<Y, X>> \notin R
    BY <1>1, <1>2, <1>3, WFMin
  <1>5. PICK m \in T : X = 0 .. m
    BY DEF Below
  <1>6. ASSUME NEW k \in T, ~(m <= k)
        PROVE  FALSE
    <2>1. (0 .. k) \in Below
      BY DEF Below
    <2>2. /\ (0 .. k) \subseteq Nat /\ X \subseteq Nat
          /\ (0 .. k) \subseteq X /\ (0 .. k) # X
      BY <1>5, <1>6
    <2>3. <<0 .. k, X>> \in R
      BY <2>2 DEF R, StrictSubsetOrdering
    <2> QED
      BY <1>4, <2>1, <2>3
  <1> QED
    BY <1>6

(* A set that holds 0 and with each number the next holds them all.        *)
LEMMA SetInduction ==
    ASSUME NEW S \in SUBSET Nat, 0 \in S, \A n \in S : n + 1 \in S
    PROVE  S = Nat
  <1>1. SUFFICES ASSUME Nat \ S # {}
                 PROVE  FALSE
    OBVIOUS
  <1>2. PICK m \in Nat \ S : \A k \in Nat \ S : m <= k
    BY <1>1, LeastNumber
  <1>3. m - 1 \in S
    BY <1>2
  <1> QED
    BY <1>3

(* The same up to a bound.                                                 *)
LEMMA SetInductionUpTo ==
    ASSUME NEW N \in Nat, NEW S \in SUBSET (0 .. N),
           0 \in S, \A n \in S : n < N => n + 1 \in S
    PROVE  S = 0 .. N
  <1> DEFINE T == S \cup {m \in Nat : m > N}
  <1>1. T \in SUBSET Nat /\ 0 \in T
    <2>1. \A n \in S : n \in Nat
      OBVIOUS
    <2>2. \A n \in T : n \in Nat
      BY <2>1
    <2> QED
      BY <2>2
  <1>2. \A n \in T : n + 1 \in T
    OBVIOUS
  <1> HIDE DEF T
  <1>3. T = Nat
    BY <1>1, <1>2, SetInduction
  <1>4. ASSUME NEW n \in 0 .. N
        PROVE  n \in S
    <2>1. n \in T /\ ~(n > N)
      BY <1>3
    <2> QED
      BY <2>1 DEF T
  <1> QED
    BY <1>4

------------------------------------------------------------------------------
(* The sum of the first i numbers, for i up to n: there is one such        *)
(* function, and the sums of fewer numbers are a part of it.               *)
AddsUp(s, f, n) ==
    s = [i \in 0 .. n |-> IF i = 0 THEN 0 ELSE s[i - 1] + f[i]]

LEMMA SumsExist ==
    ASSUME NEW f, NEW n \in Nat
    PROVE  \E s : AddsUp(s, f, n)
  <1> DEFINE T == {m \in Nat : \E s : AddsUp(s, f, m)}
  <1>1. 0 \in T
    <2>1. AddsUp([i \in 0 .. 0 |-> 0], f, 0)
      BY DEF AddsUp
    <2> QED
      BY <2>1
  <1>2. ASSUME NEW m \in T
        PROVE  m + 1 \in T
    <2>1. PICK s : AddsUp(s, f, m)
      OBVIOUS
    <2> DEFINE t == [i \in 0 .. m + 1 |-> IF i = m + 1 THEN s[m] + f[m + 1] ELSE s[i]]
    <2>2. \A i \in 0 .. m : s[i] = IF i = 0 THEN 0 ELSE s[i - 1] + f[i]
      BY <2>1 DEF AddsUp
    <2>3. \A i \in 0 .. m + 1 : t[i] = IF i = 0 THEN 0 ELSE t[i - 1] + f[i]
      BY <2>2
    <2>4. AddsUp(t, f, m + 1)
      BY <2>3 DEF AddsUp
    <2> QED
      BY <2>4
  <1> HIDE DEF T
  <1>3. T = Nat
    <2>1. T \in SUBSET Nat
      BY DEF T
    <2> QED
      BY <1>1, <1>2, <2>1, SetInduction
  <1> QED
    BY <1>3 DEF T

LEMMA SumsAreOne ==
    ASSUME NEW f, NEW n \in Nat, NEW m \in Nat, n <= m,
           NEW s, NEW t, AddsUp(s, f, n), AddsUp(t, f, m)
    PROVE  \A i \in 0 .. n : s[i] = t[i]
  <1> DEFINE T == {i \in 0 .. n : s[i] = t[i]}
  <1>1. /\ \A i \in 0 .. n : s[i] = IF i = 0 THEN 0 ELSE s[i - 1] + f[i]
        /\ \A i \in 0 .. m : t[i] = IF i = 0 THEN 0 ELSE t[i - 1] + f[i]
    BY DEF AddsUp
  <1>2. 0 \in T
    BY <1>1
  <1>3. \A i \in T : i < n => i + 1 \in T
    BY <1>1
  <1> HIDE DEF T
  <1>4. T \in SUBSET (0 .. n)
    BY DEF T
  <1>5. T = 0 .. n
    BY <1>2, <1>3, <1>4, SetInductionUpTo
  <1> QED
    BY <1>5 DEF T

(* A sum is what such a function has at its end.                           *)
LEMMA SumIs ==
    ASSUME NEW f, NEW n \in Nat, NEW s, AddsUp(s, f, n)
    PROVE  \A i \in 0 .. n : Sum(f, i) = s[i]
  <1> SUFFICES ASSUME NEW i \in 0 .. n
               PROVE  Sum(f, i) = s[i]
    OBVIOUS
  <1> DEFINE t == CHOOSE t : AddsUp(t, f, i)
  <1>1. AddsUp(t, f, i)
    BY SumsExist
  <1>2. t[i] = s[i]
    <2> HIDE DEF t
    <2> QED
      BY <1>1, SumsAreOne
  <1> QED
    BY <1>2 DEF Sum, AddsUp

(* The empty sum, and the sum of one number more.                          *)
LEMMA SumNext ==
    ASSUME NEW f
    PROVE  /\ Sum(f, 0) = 0
           /\ \A n \in Nat : Sum(f, n + 1) = Sum(f, n) + f[n + 1]
  <1>1. Sum(f, 0) = 0
    <2>1. PICK s : AddsUp(s, f, 0)
      BY SumsExist
    <2>2. s[0] = 0
      BY <2>1 DEF AddsUp
    <2>3. Sum(f, 0) = s[0]
      BY <2>1, SumIs
    <2> QED
      BY <2>2, <2>3
  <1>2. ASSUME NEW n \in Nat
        PROVE  Sum(f, n + 1) = Sum(f, n) + f[n + 1]
    <2>1. PICK s : AddsUp(s, f, n + 1)
      BY SumsExist
    <2>2. Sum(f, n + 1) = s[n + 1] /\ Sum(f, n) = s[n]
      BY <2>1, SumIs
    <2>3. s[n + 1] = s[n] + f[n + 1]
      BY <2>1 DEF AddsUp
    <2> QED
      BY <2>2, <2>3
  <1> QED
    BY <1>1, <1>2

(* Sums of integers are integers, and of natural numbers natural numbers.  *)
LEMMA SumType ==
    ASSUME NEW f, NEW n \in Nat, NEW D \in {Nat, Int}, \A i \in 1 .. n : f[i] \in D
    PROVE  \A i \in 0 .. n : Sum(f, i) \in D
  <1> DEFINE T == {i \in 0 .. n : Sum(f, i) \in D}
  <1>1. 0 \in T
    BY SumNext
  <1>2. ASSUME NEW i \in T, i < n
        PROVE  i + 1 \in T
    <2>1. Sum(f, i + 1) = Sum(f, i) + f[i + 1]
      BY SumNext
    <2>2. f[i + 1] \in D /\ Sum(f, i) \in D
      BY <1>2
    <2>3. Sum(f, i + 1) \in D
      <3>1. CASE D = Nat
        BY <2>1, <2>2, <3>1
      <3>2. CASE D = Int
        BY <2>1, <2>2, <3>2
      <3> QED
        BY <3>1, <3>2
    <2> QED
      BY <1>2, <2>3
  <1> HIDE DEF T
  <1>3. T \in SUBSET (0 .. n)
    BY DEF T
  <1>4. T = 0 .. n
    BY <1>1, <1>2, <1>3, SetInductionUpTo
  <1> QED
    BY <1>4 DEF T

(* A sum is that of its first k numbers and that of the others.            *)
LEMMA SumSplit ==
    ASSUME NEW f, NEW g, NEW k \in Nat, NEW n \in Nat, NEW m \in Nat, m = k + n,
           \A i \in 1 .. m : f[i] \in Int,
           \A i \in 1 .. n : g[i] = f[k + i]
    PROVE  Sum(f, m) = Sum(f, k) + Sum(g, n)
  <1> DEFINE T == {i \in 0 .. n : Sum(f, k + i) = Sum(f, k) + Sum(g, i)}
  <1>1. /\ \A i \in 0 .. m : Sum(f, i) \in Int
        /\ \A i \in 0 .. n : Sum(g, i) \in Int
    <2>1. \A i \in 0 .. m : Sum(f, i) \in Int
      BY SumType
    <2>2. \A i \in 1 .. n : g[i] \in Int
      OBVIOUS
    <2>3. \A i \in 0 .. n : Sum(g, i) \in Int
      BY <2>2, SumType
    <2> QED
      BY <2>1, <2>3
  <1>2. 0 \in T
    BY <1>1, SumNext
  <1>3. ASSUME NEW i \in T, i < n
        PROVE  i + 1 \in T
    <2>1. /\ i \in Nat /\ k + i \in Nat /\ i + 1 \in 1 .. n
          /\ k + (i + 1) = (k + i) + 1 /\ (k + i) + 1 \in 1 .. k + n
      BY <1>3
    <2>2. /\ Sum(f, (k + i) + 1) = Sum(f, k + i) + f[(k + i) + 1]
          /\ Sum(g, i + 1) = Sum(g, i) + g[i + 1]
      BY <2>1, SumNext
    <2>3. g[i + 1] = f[(k + i) + 1] /\ f[(k + i) + 1] \in Int
      BY <2>1
    <2>4. Sum(f, k + i) = Sum(f, k) + Sum(g, i)
      BY <1>3
    <2>5. Sum(f, k) \in Int /\ Sum(g, i) \in Int
      BY <1>1, <2>1
    <2>6. Sum(f, k + (i + 1)) = Sum(f, k) + Sum(g, i + 1)
      BY <2>1, <2>2, <2>3, <2>4, <2>5
    <2> QED
      BY <2>1, <2>6
  <1> HIDE DEF T
  <1>4. T \in SUBSET (0 .. n)
    BY DEF T
  <1>5. T = 0 .. n
    BY <1>2, <1>3, <1>4, SetInductionUpTo
  <1> QED
    BY <1>5 DEF T

(* Equal numbers have equal sums.                                          *)
LEMMA SumSame ==
    ASSUME NEW f, NEW g, NEW n \in Nat, \A i \in 1 .. n : g[i] = f[i]
    PROVE  Sum(g, n) = Sum(f, n)
  <1> DEFINE T == {i \in 0 .. n : Sum(g, i) = Sum(f, i)}
  <1>1. 0 \in T
    BY SumNext
  <1>2. ASSUME NEW i \in T, i < n
        PROVE  i + 1 \in T
    <2>1. i \in Nat /\ i + 1 \in 1 .. n
      BY <1>2
    <2>2. /\ Sum(f, i + 1) = Sum(f, i) + f[i + 1]
          /\ Sum(g, i + 1) = Sum(g, i) + g[i + 1]
      BY <2>1, SumNext
    <2> QED
      BY <2>1, <2>2
  <1> HIDE DEF T
  <1>3. T \in SUBSET (0 .. n)
    BY DEF T
  <1>4. T = 0 .. n
    BY <1>1, <1>2, <1>3, SetInductionUpTo
  <1> QED
    BY <1>4 DEF T

(* So a sum is that of two pieces of its numbers.                          *)
LEMMA SumParts ==
    ASSUME NEW f, NEW k \in Nat, NEW n \in Nat, NEW m \in Nat, m = k + n,
           \A i \in 1 .. m : f[i] \in Int,
           NEW a, \A i \in 1 .. k : a[i] = f[i],
           NEW b, \A i \in 1 .. n : b[i] = f[k + i]
    PROVE  Sum(f, m) = Sum(a, k) + Sum(b, n)
  <1>1. Sum(f, m) = Sum(f, k) + Sum(b, n)
    BY SumSplit
  <1>2. Sum(a, k) = Sum(f, k)
    BY SumSame
  <1> QED
    BY <1>1, <1>2
------------------------------------------------------------------------------
(* Division: an integer is below d times another exactly if its quotient by d
   is below the other, a multiple of d is divided exactly, and adding h to the
   dividend adds the quotient of h, or one more.                           *)
LEMMA QuotientFrom ==
    ASSUME NEW a \in Int, NEW d \in Nat \ {0}, NEW q \in Int
    PROVE  d * q <= a => q <= a \div d
  OBVIOUS

LEMMA QuotientBelow ==
    ASSUME NEW a \in Int, NEW d \in Nat \ {0}, NEW q \in Int
    PROVE  a < d * q => a \div d < q
  OBVIOUS

LEMMA QuotientExact ==
    ASSUME NEW d \in Nat \ {0}, NEW q \in Int
    PROVE  (d * q) \div d = q
  OBVIOUS

LEMMA QuotientOrder ==
    ASSUME NEW a \in Int, NEW b \in Int, a <= b, NEW d \in Nat \ {0}
    PROVE  a \div d \in Int /\ b \div d \in Int /\ a \div d <= b \div d
  OBVIOUS

LEMMA QuotientStep ==
    ASSUME NEW a \in Int, NEW h \in Nat, NEW d \in Nat \ {0}
    PROVE  (a + h) \div d - (a \div d) \in (h \div d) .. (h \div d) + 1
  OBVIOUS

LEMMA ProductOrder ==
    ASSUME NEW n \in Nat, NEW a \in Int, NEW b \in Int, a <= b
    PROVE  n * a \in Int /\ n * b \in Int /\ n * a <= n * b
  OBVIOUS

LEMMA ProductNext ==
    ASSUME NEW n \in Nat, NEW a \in Int
    PROVE  n * a \in Int /\ 0 * a = 0 /\ (n + 1) * a = n * a + a
  OBVIOUS

LEMMA SumOrder ==
    ASSUME NEW a \in Int, NEW b \in Int, NEW c \in Int,
           NEW x \in Int, NEW y \in Int, a <= b, b <= c, x <= y
    PROVE  a + x <= c + y
  OBVIOUS
================================================================================
