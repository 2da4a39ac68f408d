---------------------------- MODULE NumberLemmas ----------------------------
(***************************************************************************)
(* Least and greatest numbers, and induction up to a number: what is true  *)
(* of 0 and of the successor of every number it is true of.  The rule is   *)
(* stated with a set, so that it can be used without an operator as a      *)
(* parameter; it rests on the well-foundedness of the natural numbers.     *)
(***************************************************************************)
EXTENDS Integers, FiniteSetsExt, FiniteSetTheorems, WellFoundedInduction, TLAPS

(* A set of numbers that is not empty has a least one.                     *)
LEMMA Least ==
    ASSUME NEW S \in SUBSET Nat, S # {}
    PROVE  Min(S) \in S /\ \A k \in S : Min(S) <= k
<1>1. PICK m \in S : \A k \in S : ~ (<<k, m>> \in OpToRel(<, Nat))
  BY WFMin, NatLessThanWellFounded
<1>2. \A k \in S : ~ (k < m)
  BY <1>1 DEF OpToRel
<1>3. \A k \in S : m <= k
  BY SMT, <1>2
<1>4. \E n \in S : \A k \in S : n =< k
  BY <1>3
<1> QED BY <1>4 DEF Min

(* What holds of 0 and of the successor of a number it holds of.           *)
LEMMA UpTo ==
    ASSUME NEW n \in Nat, NEW S \in SUBSET (0 .. n), 0 \in S,
           \A i \in 0 .. n - 1 : i \in S => i + 1 \in S
    PROVE  S = 0 .. n
<1> SUFFICES ASSUME S # 0 .. n PROVE FALSE
  OBVIOUS
<1> DEFINE T == (0 .. n) \ S
<1>1. T \in SUBSET Nat /\ T # {}
  <2>1. 0 .. n \subseteq Nat
    BY SMT
  <2> QED BY <2>1
<1> DEFINE m == Min(T)
<1>2. m \in T /\ \A k \in T : m <= k
  BY <1>1, Least
<1> HIDE DEF m
<1>3. m \in 0 .. n /\ m \notin S /\ m # 0
  BY <1>2
<1>4. m - 1 \in 0 .. n - 1 /\ m - 1 \in 0 .. n /\ ~ (m <= m - 1) /\ (m - 1) + 1 = m
  BY SMT, <1>3
<1>5. m - 1 \in S
  BY <1>2, <1>4
<1> QED BY <1>3, <1>4, <1>5

(* A finite set of numbers has a greatest.                                 *)
LEMMA Bounded ==
    ASSUME NEW S \in SUBSET Nat, IsFiniteSet(S)
    PROVE  \E b \in Nat : \A x \in S : x <= b
<1> DEFINE n == Cardinality(S)
<1>1. n \in Nat /\ ExistsBijection(1 .. n, S)
  BY FS_CardinalityType
<1> HIDE DEF n
<1>2. PICK f \in [1 .. n -> S] : \A x \in S : \E i \in 1 .. n : f[i] = x
  BY <1>1 DEF ExistsBijection, Bijection, Surjection
<1> DEFINE Bound(i, b) == \A j \in 1 .. i : f[j] <= b
           T == {i \in 0 .. n : \E b \in Nat : Bound(i, b)}
<1>3. 0 \in T
  <2>1. 0 \in 0 .. n /\ 1 .. 0 = {} /\ 0 \in Nat
    BY SMT, <1>1
  <2> QED BY <2>1
<1>4. ASSUME NEW i \in 0 .. n - 1, i \in T
      PROVE  i + 1 \in T
  <2>1. PICK b \in Nat : Bound(i, b)
    BY <1>4
  <2>2. i + 1 \in 0 .. n /\ i + 1 \in 1 .. n /\ \A j \in 1 .. i + 1 : j \in 1 .. i \/ j = i + 1
    BY SMT, <1>1
  <2>3. f[i + 1] \in Nat
    BY <1>2, <2>2
  <2>4. \A j \in 1 .. i : f[j] \in Nat
    <3>1. \A j \in 1 .. i : j \in 1 .. n
      BY SMT, <1>1
    <3> QED BY <1>2, <3>1
  <2>5. PICK m \in Nat : b <= m /\ f[i + 1] <= m
    BY SMT, <2>3
  <2>6. \A j \in 1 .. i : f[j] <= m
    BY SMT, <2>1, <2>4, <2>5
  <2>7. Bound(i + 1, m)
    BY <2>2, <2>5, <2>6
  <2> HIDE DEF Bound
  <2> QED BY <2>2, <2>7
<1>5. T = 0 .. n
  <2>1. T \in SUBSET (0 .. n)
    OBVIOUS
  <2> HIDE DEF T
  <2> QED BY <1>1, <1>3, <1>4, <2>1, UpTo
<1>6. n \in T
  <2>1. n \in 0 .. n
    BY SMT, <1>1
  <2> HIDE DEF T
  <2> QED BY <1>5, <2>1
<1> QED BY <1>2, <1>6

(* A finite set of numbers that is not empty has a greatest one.           *)
LEMMA Greatest ==
    ASSUME NEW S \in SUBSET Nat, IsFiniteSet(S), S # {}
    PROVE  Max(S) \in S /\ \A k \in S : k <= Max(S)
<1> DEFINE T == {b \in Nat : \A x \in S : x <= b}
<1>1. T \in SUBSET Nat /\ T # {}
  BY Bounded
<1> DEFINE m == Min(T)
<1>2. m \in T /\ \A k \in T : m <= k
  BY <1>1, Least
<1> HIDE DEF m
<1>3. m \in S
  <2> SUFFICES ASSUME m \notin S PROVE FALSE
    OBVIOUS
  <2>1. \A x \in S : x \in Nat /\ x <= m /\ x # m
    BY <1>2
  <2>2. PICK x \in S : TRUE
    OBVIOUS
  <2>3. m - 1 \in Nat
    BY SMT, <1>2, <2>1, <2>2
  <2>4. \A y \in S : y <= m - 1
    BY SMT, <1>2, <2>1
  <2>5. m <= m - 1
    BY <1>2, <2>3, <2>4
  <2> QED BY SMT, <1>2, <2>5
<1>4. \E x \in S : \A y \in S : x >= y
  BY SMT, <1>2, <1>3
<1>5. Max(S) \in S /\ \A y \in S : Max(S) >= y
  BY <1>4 DEF Max
<1> QED BY SMT, <1>5
=============================================================================
