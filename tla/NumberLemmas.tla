---------------------------- MODULE NumberLemmas ----------------------------
(***************************************************************************)
(* Facts about natural numbers that the proofs cite: Max and Min of        *)
(* FiniteSetsExt, which are defined by CHOOSE, so that they exist has to   *)
(* be shown once; induction up to a number, as a fact about a set; and     *)
(* that functions defined step by step exist.                              *)
(***************************************************************************)
EXTENDS Integers, FiniteSetsExt, WellFoundedInduction, TLAPS

\* A non-empty set of natural numbers has a least element: the well-founded
\* order behind every `Max` and `Min` of the specifications.
LEMMA LeastNatural ==
  ASSUME NEW S \in SUBSET Nat, S # {}
  PROVE  \E x \in S : \A y \in S : x <= y
<1> DEFINE R == OpToRel(<, Nat)
<1>1. R = {ss \in Nat \X Nat : ss[1] < ss[2]}
  BY DEF OpToRel
<1>2. IsWellFoundedOn(R, Nat)
  BY NatLessThanWellFounded
<1> HIDE DEF R
<1>3. PICK x \in S : \A y \in S : ~ (<<y, x>> \in R)
  BY <1>2, WFMin
<1>4. ASSUME NEW y \in S PROVE x <= y
  <2>1. ~ (<<y, x>> \in {ss \in Nat \X Nat : ss[1] < ss[2]})
    BY <1>1, <1>3
  <2>2. QED
    BY <2>1
<1>5. QED
  BY <1>4

\* That is what Min returns.
LEMMA MinOfNaturals ==
  ASSUME NEW S \in SUBSET Nat, S # {}
  PROVE  Min(S) \in S /\ \A y \in S : Min(S) <= y
<1>1. \E x \in S : \A y \in S : x <= y
  BY LeastNatural
<1>2. QED
  BY <1>1 DEF Min

\* A non-empty set of integers between a and b has a greatest element, and
\* that is what Max returns.
LEMMA MaxOfInterval ==
  ASSUME NEW a \in Int, NEW b \in Int, NEW S \in SUBSET (a .. b), S # {}
  PROVE  Max(S) \in S /\ \A y \in S : y <= Max(S)
<1> DEFINE T == {b - y : y \in S}
<1>1. T \in SUBSET Nat /\ T # {}
  OBVIOUS
<1>2. PICK m \in T : \A n \in T : m <= n
  BY <1>1, LeastNatural
<1>3. PICK x \in S : m = b - x
  BY <1>2
<1>4. ASSUME NEW y \in S PROVE x >= y
  <2>1. b - x <= b - y
    BY <1>2, <1>3
  <2>2. QED
    BY <2>1
<1>5. \E z \in S : \A y \in S : z >= y
  BY <1>4
<1>6. Max(S) \in S /\ \A y \in S : Max(S) >= y
  BY <1>5 DEF Max
<1>7. QED
  BY <1>6

\* Max and Min of two integers, as math.max and math.min of the code.
LEMMA MaxOfTwo ==
  ASSUME NEW a \in Int, NEW b \in Int
  PROVE  Max({a, b}) = IF a >= b THEN a ELSE b
<1>1. \E x \in {a, b} : \A y \in {a, b} : x >= y
  OBVIOUS
<1>2. Max({a, b}) \in {a, b} /\ \A y \in {a, b} : Max({a, b}) >= y
  BY <1>1 DEF Max
<1>3. QED
  BY <1>2

LEMMA MinOfTwo ==
  ASSUME NEW a \in Int, NEW b \in Int
  PROVE  Min({a, b}) = IF a <= b THEN a ELSE b
<1>1. \E x \in {a, b} : \A y \in {a, b} : x <= y
  OBVIOUS
<1>2. Min({a, b}) \in {a, b} /\ \A y \in {a, b} : Min({a, b}) <= y
  BY <1>1 DEF Min
<1>3. QED
  BY <1>2

------------------------------------------------------------------------------
(* Squares *)

LEMMA ProductsGrow ==
  ASSUME NEW a \in Nat, NEW b \in Nat, NEW c \in Nat, a <= b
  PROVE  a * c <= b * c
<1>1. b - a \in Nat
  OBVIOUS
<1>2. \A x, y \in Nat : x * y >= 0
  OBVIOUS
<1>3. (b - a) * c >= 0
  BY <1>1, <1>2
<1>4. QED
  BY <1>3

LEMMA SquaresGrow ==
  ASSUME NEW a \in Nat, NEW b \in Nat, a * a <= b * b
  PROVE  a <= b
<1> SUFFICES ASSUME b + 1 <= a PROVE FALSE
  OBVIOUS
<1>1. (b + 1) * (b + 1) <= a * (b + 1) /\ (b + 1) * a <= a * a
  BY ProductsGrow
<1>2. (b + 1) * (b + 1) = b * b + 2 * b + 1 /\ a * (b + 1) = (b + 1) * a
  OBVIOUS
<1>3. a * a \in Int /\ b * b \in Int /\ (b + 1) * a \in Int /\ (b + 1) * (b + 1) \in Int
  OBVIOUS
<1>4. QED
  BY <1>1, <1>2, <1>3

\* Every number has a root, rounded down.
LEMMA SquareRoot ==
  ASSUME NEW k \in Nat
  PROVE  \E n \in Nat : n * n <= k /\ k < (n + 1) * (n + 1)
<1> DEFINE T == {m \in Nat : k < (m + 1) * (m + 1)}
<1>1. k \in T
  <2>1. k * k >= 0 /\ k * k \in Int /\ (k + 1) * (k + 1) = k * k + 2 * k + 1
    OBVIOUS
  <2>2. QED
    BY <2>1
<1>2. PICK n \in T : \A m \in T : n <= m
  <2> HIDE DEF T
  <2>1. T \in SUBSET Nat
    BY DEF T
  <2>2. QED
    BY <1>1, <2>1, LeastNatural
<1>3. n * n <= k
  <2>1. CASE n = 0
    BY <2>1
  <2>2. CASE n # 0
    <3>1. n - 1 \in Nat /\ n - 1 \notin T /\ (n - 1) + 1 = n
      BY <1>2, <2>2
    <3>2. ~ (k < n * n)
      BY <3>1
    <3>3. n * n \in Int
      OBVIOUS
    <3>4. QED
      BY <3>2, <3>3
  <2>3. QED
    BY <2>1, <2>2
<1>4. QED
  BY <1>2, <1>3
------------------------------------------------------------------------------
(* Up to a number *)

\* Induction: a set with 0 and with every next number up to L has them all.
LEMMA UpTo ==
  ASSUME NEW L \in Nat, NEW T, 0 \in T, \A n \in 0 .. L - 1 : n \in T => n + 1 \in T
  PROVE  0 .. L \subseteq T
<1> DEFINE Bad == {n \in 0 .. L : n \notin T}
<1> SUFFICES ASSUME Bad # {} PROVE FALSE
  OBVIOUS
<1>1. PICK m \in Bad : \A n \in Bad : m <= n
  <2>1. Bad \in SUBSET Nat
    OBVIOUS
  <2> HIDE DEF Bad
  <2>2. QED
    BY <2>1, LeastNatural
<1>2. m \in 1 .. L
  BY <1>1
<1>3. m - 1 \in T
  BY <1>1, <1>2
<1>4. QED
  BY <1>1, <1>2, <1>3

\* A value for 0 and a step from each value to the next are a function.
Unrolls(F, base, L, next) == F[0] = base /\ \A n \in 1 .. L : F[n] = next[<<n, F[n - 1]>>]

LEMMA StepByStep ==
  ASSUME NEW S, NEW base \in S, NEW L \in Nat, NEW next \in [(1 .. L) \X S -> S]
  PROVE  \E F \in [0 .. L -> S] : Unrolls(F, base, L, next)
<1> DEFINE Good(F, k) == F[0] = base /\ \A n \in 1 .. k : F[n] = next[<<n, F[n - 1]>>]
           Exists(k) == \E F \in [0 .. L -> S] : Good(F, k)
           T == {k \in 0 .. L : Exists(k)}
<1>1. Exists(0)
  <2> DEFINE F == [n \in 0 .. L |-> base]
  <2>1. F \in [0 .. L -> S] /\ F[0] = base /\ 1 .. 0 = {}
    OBVIOUS
  <2> HIDE DEF F
  <2>2. Good(F, 0)
    BY <2>1
  <2>3. QED
    BY <2>1, <2>2
<1>2. ASSUME NEW k \in 0 .. L - 1, Exists(k) PROVE Exists(k + 1)
  <2>1. PICK F \in [0 .. L -> S] : Good(F, k)
    BY <1>2
  <2> DEFINE x == next[<<k + 1, F[k]>>]
             G == [F EXCEPT ![k + 1] = x]
  <2>2. k \in 0 .. L /\ k + 1 \in 1 .. L /\ k + 1 \in 0 .. L /\ k + 1 # 0
    OBVIOUS
  <2>3. F[k] \in S
    BY <2>2
  <2>4. x \in S
    <3>1. <<k + 1, F[k]>> \in (1 .. L) \X S
      BY <2>2, <2>3
    <3>2. QED
      BY <3>1
  <2>5. G \in [0 .. L -> S] /\ G[k + 1] = x /\ \A n \in 0 .. L : n # k + 1 => G[n] = F[n]
    <3> HIDE DEF x
    <3>1. QED
      BY <2>2, <2>4
  <2> HIDE DEF G
  <2>6. ASSUME NEW n \in 1 .. k + 1 PROVE G[n] = next[<<n, G[n - 1]>>]
    <3>1. n - 1 \in 0 .. L /\ n \in 0 .. L /\ n - 1 # k + 1
      BY <2>2
    <3>2. G[n - 1] = F[n - 1]
      BY <2>5, <3>1
    <3>3. CASE n = k + 1
      <4>1. n - 1 = k
        BY <3>3
      <4>2. G[k + 1] = next[<<k + 1, F[k]>>] /\ G[k] = F[k]
        BY <2>5, <3>2, <4>1
      <4>3. QED
        BY <3>3, <4>1, <4>2
    <3>4. CASE n # k + 1
      <4>1. n \in 1 .. k
        BY <3>4
      <4>2. QED
        BY <2>1, <2>5, <3>1, <3>2, <3>4, <4>1
    <3>5. QED
      BY <3>3, <3>4
  <2>7. G[0] = base
    <3>1. 0 \in 0 .. L /\ 0 # k + 1
      BY <2>2
    <3>2. QED
      BY <2>1, <2>5, <3>1
  <2>8. QED
    BY <2>5, <2>6, <2>7
<1> HIDE DEF Exists
<1>3. 0 \in T /\ \A n \in 0 .. L - 1 : n \in T => n + 1 \in T
  BY <1>1, <1>2
<1>4. Exists(L)
  <2> HIDE DEF T
  <2>1. 0 .. L \subseteq T
    BY <1>3, UpTo
  <2>2. QED
    BY <2>1 DEF T
<1>5. QED
  BY <1>4 DEF Exists, Unrolls
==============================================================================
