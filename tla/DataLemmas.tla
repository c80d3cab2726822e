----------------------------- MODULE DataLemmas -----------------------------
(* Induction over data.  The library's principle about minimal elements     *)
(* speaks of sets, so it serves where its induction rules, which speak of   *)
(* operators, cannot be used.                                               *)
EXTENDS Integers, Sequences, FiniteSetsExt, WellFoundedInduction, TLAPS

LessNat == {p \in Nat \X Nat : p[1] < p[2]}

(* Numbers do not descend for ever.                                         *)
LEMMA LessNatWF == IsWellFoundedOn(LessNat, Nat)
<1>1. IsWellFoundedOn(OpToRel(<, Nat), Nat)
  BY NatLessThanWellFounded, Zenon
<1> QED BY <1>1, Zenon DEF LessNat, OpToRel

(* A set of natural numbers that is not empty has a least element.          *)
LEMMA LeastNat ==
  ASSUME NEW T, T \subseteq Nat, T # {}
  PROVE  \E x \in T : \A y \in T : x <= y
<1>1. PICK x \in T : \A y \in T : ~ (<<y, x>> \in LessNat)
  BY LessNatWF, WFMin, Zenon
<1>2. ASSUME NEW y \in T PROVE x <= y
  <2>1. <<y, x>> \notin LessNat
    BY <1>1
  <2>2. <<y, x>> \in Nat \X Nat
    OBVIOUS
  <2> QED BY <2>1, <2>2 DEF LessNat
<1> QED BY <1>2

(* The same for integers with a lower bound, as Min of the library has it.  *)
LEMMA MinInt ==
  ASSUME NEW S, S \subseteq Int, S # {}, NEW low \in Int, \A x \in S : low <= x
  PROVE  Min(S) \in S /\ \A y \in S : Min(S) <= y
<1> DEFINE T == {n \in Nat : low + n \in S}
<1>1. T # {}
  <2>1. PICK x \in S : TRUE
    OBVIOUS
  <2>2. x - low \in Nat /\ low + (x - low) = x
    OBVIOUS
  <2> QED BY <2>1, <2>2
<1>2. PICK n \in T : \A m \in T : n <= m
  <2> HIDE DEF T
  <2> QED BY <1>1, LeastNat DEF T
<1>3. ASSUME NEW y \in S PROVE low + n <= y
  <2>1. y - low \in Nat /\ low + (y - low) = y
    OBVIOUS
  <2>2. y - low \in T
    BY <2>1
  <2> QED BY <1>2, <2>2
<1>4. \E x \in S : \A y \in S : x <= y
  BY <1>3
<1> QED BY <1>4 DEF Min

(* And with an upper bound, as Max of the library has it.                   *)
LEMMA MaxInt ==
  ASSUME NEW S, S \subseteq Int, S # {}, NEW high \in Int, \A x \in S : x <= high
  PROVE  Max(S) \in S /\ \A y \in S : Max(S) >= y
<1> DEFINE T == {n \in Nat : high - n \in S}
<1>1. T # {}
  <2>1. PICK x \in S : TRUE
    OBVIOUS
  <2>2. high - x \in Nat /\ high - (high - x) = x
    OBVIOUS
  <2> QED BY <2>1, <2>2
<1>2. PICK n \in T : \A m \in T : n <= m
  <2> HIDE DEF T
  <2> QED BY <1>1, LeastNat DEF T
<1>3. ASSUME NEW y \in S PROVE high - n >= y
  <2>1. high - y \in Nat /\ high - (high - y) = y
    OBVIOUS
  <2>2. high - y \in T
    BY <2>1
  <2>3. n <= high - y /\ n \in Nat
    BY <1>2, <2>2
  <2> QED BY <2>1, <2>3
<1>4. \E x \in S : \A y \in S : x >= y
  BY <1>3
<1> QED BY <1>4 DEF Max

\* f holds v at a, and then what each step takes the value before to.
Runs(f, a, b, v, step) == f[a] = v /\ \A k \in a + 1 .. b : f[k] = step[k][f[k - 1]]

(* A loop over a .. b that takes one value to the next is a function.       *)
LEMMA Iteration ==
  ASSUME NEW a \in Int, NEW b \in Int, a <= b, NEW V, NEW v \in V,
         NEW step \in [a + 1 .. b -> [V -> V]]
  PROVE  \E f \in [a .. b -> V] : Runs(f, a, b, v, step)
<1> DEFINE Upto(f, n) == Runs(f, a, n, v, step)
           Bad == {m \in Nat : a + m <= b /\ ~ \E f \in [a .. b -> V] : Upto(f, a + m)}
<1> HIDE DEF Upto, Bad
<1>1. ASSUME Bad # {} PROVE FALSE
  <2>1. PICK m \in Bad : \A l \in Bad : m <= l
    <3>1. Bad \subseteq Nat
      BY DEF Bad
    <3> QED BY <1>1, <3>1, LeastNat
  <2>2. m \in Nat /\ a + m <= b /\ ~ \E f \in [a .. b -> V] : Upto(f, a + m)
    BY DEF Bad
  <2>3. CASE m = 0
    <3> DEFINE f == [k \in a .. b |-> v]
    <3>1. f \in [a .. b -> V]
      OBVIOUS
    <3>2. f[a] = v
      OBVIOUS
    <3>3. a + 1 .. a + m = {}
      BY <2>3
    <3> HIDE DEF f
    <3>4. Upto(f, a + m)
      BY <3>2, <3>3 DEF Upto, Runs
    <3> QED BY <3>1, <3>4, <2>2
  <2>4. CASE m # 0
    <3> DEFINE n == a + m
    <3>1. n \in Int /\ a + 1 <= n /\ n <= b
      BY <2>2, <2>4
    <3>2. PICK g \in [a .. b -> V] : Upto(g, n - 1)
      <4>1. m - 1 \in Nat /\ m - 1 \notin Bad /\ a + (m - 1) = n - 1 /\ n - 1 <= b
        BY <2>1, <2>2, <2>4
      <4> HIDE DEF n
      <4> QED BY <4>1 DEF Bad
    <3> HIDE DEF n
    <3> DEFINE next == step[n][g[n - 1]]
    <3>3. next \in V
      BY <3>1
    <3> HIDE DEF next
    <3> DEFINE f == [k \in a .. b |-> IF k = n THEN next ELSE g[k]]
    <3>4. f \in [a .. b -> V]
      BY <3>3
    <3>5. \A k \in a .. b : f[k] = IF k = n THEN next ELSE g[k]
      OBVIOUS
    <3> HIDE DEF f
    <3>6. f[a] = v
      BY <3>1, <3>2, <3>5 DEF Upto, Runs
    <3>7. ASSUME NEW k \in a + 1 .. n PROVE f[k] = step[k][f[k - 1]]
      <4>1. f[k - 1] = g[k - 1]
        BY <3>1, <3>5
      <4>2. CASE k = n
        BY <3>1, <3>5, <4>1, <4>2 DEF next
      <4>3. CASE k # n
        <5>1. k \in a + 1 .. n - 1
          BY <4>3, <3>1
        <5>2. g[k] = step[k][g[k - 1]]
          BY <5>1, <3>2 DEF Upto, Runs
        <5>3. f[k] = g[k]
          BY <3>1, <3>5, <4>3
        <5> QED BY <5>2, <5>3, <4>1
      <4> QED BY <4>2, <4>3
    <3>8. Upto(f, n)
      BY <3>6, <3>7 DEF Upto, Runs
    <3> QED BY <3>4, <3>8, <2>2 DEF n
  <2> QED BY <2>2, <2>3, <2>4
<1>2. PICK f \in [a .. b -> V] : Upto(f, b)
  <2>1. b - a \in Nat /\ a + (b - a) = b /\ b <= b
    OBVIOUS
  <2>2. b - a \notin Bad
    BY <1>1
  <2> QED BY <2>1, <2>2 DEF Bad
<1> QED BY <1>2 DEF Upto

(* Finitely many numbers lie between two bounds.                            *)
LEMMA Bounded ==
  ASSUME NEW n \in Nat, NEW f \in [1 .. n -> Int]
  PROVE  \E low \in Int, high \in Int : \A k \in 1 .. n : low <= f[k] /\ f[k] <= high
<1> DEFINE Bounds(m) == \E low \in Int, high \in Int : \A k \in 1 .. m : low <= f[k] /\ f[k] <= high
           Bad == {m \in Nat : m <= n /\ ~Bounds(m)}
<1>1. ASSUME Bad # {} PROVE FALSE
  <2>1. PICK m \in Bad : \A l \in Bad : m <= l
    <3> Bad \subseteq Nat
      OBVIOUS
    <3> HIDE DEF Bad
    <3> QED BY <1>1, LeastNat
  <2>2. m \in Nat /\ m <= n /\ ~Bounds(m)
    OBVIOUS
  <2>3. Bounds(0)
    <3>1. 0 \in Int /\ \A k \in 1 .. 0 : 0 <= f[k] /\ f[k] <= 0
      OBVIOUS
    <3> QED BY <3>1
  <2>4. CASE m # 0
    <3>1. m - 1 \in Nat /\ m - 1 <= n /\ m - 1 \notin Bad
      <4> HIDE DEF Bad
      <4> QED BY <2>1, <2>2, <2>4
    <3>2. PICK low \in Int, high \in Int : \A k \in 1 .. m - 1 : low <= f[k] /\ f[k] <= high
      BY <3>1
    <3>3. f[m] \in Int
      BY <2>2, <2>4
    <3>4. \E l \in Int : l <= low /\ l <= f[m]
      <4>1. CASE low <= f[m]
        BY <4>1
      <4>2. CASE f[m] <= low
        BY <3>3, <4>2
      <4> QED BY <3>3, <4>1, <4>2
    <3>5. \E h \in Int : h >= high /\ h >= f[m]
      <4>1. CASE high <= f[m]
        BY <3>3, <4>1
      <4>2. CASE f[m] <= high
        BY <4>2
      <4> QED BY <3>3, <4>1, <4>2
    <3>6. PICK l \in Int, h \in Int : l <= low /\ l <= f[m] /\ h >= high /\ h >= f[m]
      BY <3>4, <3>5
    <3>7. \A k \in 1 .. m : l <= f[k] /\ f[k] <= h
      BY <2>2, <3>2, <3>3, <3>6
    <3> QED BY <2>2, <3>7
  <2> QED BY <2>2, <2>3, <2>4
<1>2. n \notin Bad
  BY <1>1
<1> QED BY <1>2

(* A natural number has a whole root, rounded down.                         *)
LEMMA Root ==
  ASSUME NEW n \in Nat, NEW m \in Nat, n <= m * m
  PROVE  \E k \in 0 .. m : k * k <= n /\ (k + 1) * (k + 1) > n
<1> DEFINE T == {k \in Nat : (k + 1) * (k + 1) > n}
<1>1. m \in T
  <2>1. (m + 1) * (m + 1) = m * m + m + m + 1
    OBVIOUS
  <2> QED BY <2>1
<1>2. PICK k \in T : \A l \in T : k <= l
  <2> T \subseteq Nat /\ T # {}
    BY <1>1
  <2> HIDE DEF T
  <2> QED BY LeastNat
<1>3. k \in Nat /\ (k + 1) * (k + 1) > n /\ k <= m
  BY <1>1, <1>2
<1>4. k * k <= n
  <2>1. CASE k = 0
    BY <2>1
  <2>2. CASE k # 0
    <3>1. k - 1 \in Nat /\ k - 1 \notin T
      <4> HIDE DEF T
      <4> QED BY <1>2, <1>3, <2>2
    <3>2. (k - 1 + 1) * (k - 1 + 1) = k * k
      BY <1>3
    <3> QED BY <3>1, <3>2, <1>3
  <2> QED BY <2>1, <2>2
<1> QED BY <1>3, <1>4

(* What the quotient of integers is.                                        *)
LEMMA Quotient ==
  ASSUME NEW a \in Int, NEW b \in Nat \ {0}
  PROVE  a \div b \in Int /\ (a \div b) * b <= a /\ a < (a \div b) * b + b
  OBVIOUS

LEMMA QuotientNat ==
  ASSUME NEW a \in Nat, NEW b \in Nat \ {0}
  PROVE  a \div b \in Nat /\ (a \div b) * b <= a /\ a < (a \div b) * b + b
  OBVIOUS

(* Multiples of a length are ordered as their numbers.                      *)
LEMMA Multiples ==
  ASSUME NEW a \in Int, NEW b \in Int, NEW p \in Nat \ {0}, a * p < b * p
  PROVE  a < b
<1> SUFFICES ASSUME a >= b PROVE FALSE
  OBVIOUS
<1>1. (a - b) * p >= 0
  OBVIOUS
<1> QED
  BY <1>1

(* A sequence over a set is one over a larger set.                          *)
LEMMA SeqOver ==
  ASSUME NEW S, NEW T, S \subseteq T, NEW h \in Seq(S)
  PROVE  h \in Seq(T)
<1> DEFINE m == Len(h)
<1>1. m \in Nat /\ h \in [1 .. m -> S]
  OBVIOUS
<1> HIDE DEF m
<1>2. h \in [1 .. m -> T]
  BY <1>1
<1> QED
  BY <1>1, <1>2
=============================================================================
