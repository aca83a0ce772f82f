------------------------------ MODULE Counting ------------------------------
(***************************************************************************)
(* Facts about numbers and finite sets of them that several proofs use.    *)
(***************************************************************************)
EXTENDS Integers, FiniteSets, FiniteSetTheorems, WellFoundedInduction, TLAPS

(* A nonempty set of numbers has a smallest element. *)
LEMMA LeastElement ==
  ASSUME NEW T, T \subseteq Nat, T # {}
  PROVE  \E x \in T : \A y \in T : x <= y
<1> DEFINE R == OpToRel(<, Nat)
<1>1. IsWellFoundedOn(R, Nat)
  BY NatLessThanWellFounded
<1>2. \A x, y \in Nat : y < x => <<y, x>> \in R
  BY DEF OpToRel
<1> HIDE DEF R
<1>3. PICK x \in T : \A y \in T : ~ (<<y, x>> \in R)
  BY <1>1, WFMin
<1>4. \A y \in T : ~ (y < x)
  BY <1>2, <1>3
<1>5. \A y \in T : x <= y
  <2> TAKE y \in T
  <2>1. x \in Nat /\ y \in Nat /\ ~ (y < x)
    BY <1>4
  <2> QED
    BY <2>1
<1> QED
  BY <1>5

(* A set that holds 0 and every number's successor holds all numbers. *)
LEMMA Induction ==
  ASSUME NEW T, 0 \in T, \A n \in Nat : n \in T => n + 1 \in T
  PROVE  Nat \subseteq T
<1> SUFFICES ASSUME Nat \ T # {} PROVE FALSE
  OBVIOUS
<1>1. PICK x \in Nat \ T : \A y \in Nat \ T : x <= y
  BY LeastElement
<1>2. x # 0 /\ x - 1 \in Nat /\ x - 1 \in T
  BY <1>1
<1>3. (x - 1) + 1 = x
  BY <1>1
<1> QED
  BY <1>1, <1>2, <1>3

(* The elements of S below e. *)
Below(S, e) == {f \in S : f < e}

(* The next element after e has one more below it. *)
LEMMA NextElement ==
  ASSUME NEW S, S \subseteq Nat, IsFiniteSet(S), NEW e \in S,
         Cardinality(Below(S, e)) + 1 < Cardinality(S)
  PROVE  \E g \in S : Cardinality(Below(S, g)) = Cardinality(Below(S, e)) + 1
<1> DEFINE L == Below(S, e) \cup {e}
<1>1. Below(S, e) \in SUBSET S /\ e \notin Below(S, e)
  BY DEF Below
<1>2. IsFiniteSet(Below(S, e))
  BY <1>1, FS_Subset
<1>3. Cardinality(L) = Cardinality(Below(S, e)) + 1
  BY <1>1, <1>2, FS_AddElement
<1>4. S \ L # {}
  <2> SUFFICES ASSUME S \ L = {} PROVE FALSE
    OBVIOUS
  <2>1. S = L
    BY <1>1
  <2>2. Cardinality(S) = Cardinality(Below(S, e)) + 1
    BY <2>1, <1>3
  <2>3. Cardinality(S) \in Nat
    BY FS_CardinalityType
  <2> QED
    BY <2>2, <2>3
<1>5. PICK g \in S \ L : \A y \in S \ L : g <= y
  BY <1>4, LeastElement
<1>6. e \in Nat /\ g \in Nat /\ \A f \in S : f \in Nat
  OBVIOUS
<1>7. e < g
  BY <1>5, <1>6 DEF Below
<1>8. Below(S, g) = L
  <2>1. ASSUME NEW f \in L PROVE f \in Below(S, g)
    BY <1>6, <1>7 DEF Below
  <2>2. ASSUME NEW f \in Below(S, g) PROVE f \in L
    BY <1>5, <1>6 DEF Below
  <2> QED
    BY <2>1, <2>2
<1> QED
  BY <1>3, <1>8

(* The even numbers below 2j. *)
Evens(j) == {f \in Nat : f % 2 = 0 /\ f < 2 * j}

(* There are j even numbers below 2j. *)
LEMMA EvensCount ==
  ASSUME NEW j \in Nat
  PROVE  IsFiniteSet(Evens(j)) /\ Cardinality(Evens(j)) = j
<1> DEFINE T == {n \in Nat : IsFiniteSet(Evens(n)) /\ Cardinality(Evens(n)) = n}
<1>1. 0 \in T
  <2>1. Evens(0) = {}
    BY DEF Evens
  <2> QED
    BY <2>1, FS_EmptySet
<1>2. ASSUME NEW n \in Nat, n \in T PROVE n + 1 \in T
  <2>1. 2 * n \in Nat /\ (2 * n) % 2 = 0
    OBVIOUS
  <2>2. \A f \in Nat : f % 2 = 0 /\ f < 2 * (n + 1) <=> f = 2 * n \/ (f % 2 = 0 /\ f < 2 * n)
    <3> TAKE f \in Nat
    <3>1. f % 2 = 0 => f # 2 * n + 1
      OBVIOUS
    <3> QED
      BY <2>1, <3>1
  <2>3. Evens(n + 1) = Evens(n) \cup {2 * n} /\ 2 * n \notin Evens(n)
    BY <2>1, <2>2 DEF Evens
  <2> QED
    BY <1>2, <2>3, FS_AddElement
<1>3. Nat \subseteq T
  <2> HIDE DEF T
  <2> QED
    BY <1>1, <1>2, Induction
<1> QED
  BY <1>3
=============================================================================
