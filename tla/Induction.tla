------------------------------ MODULE Induction ------------------------------
(***************************************************************************)
(* Induction for the proof modules, with a set where the library's         *)
(* theorems have a predicate: the set of the numbers, or of the finite     *)
(* sets, for which the claim holds; and some arithmetic.                   *)
(***************************************************************************)
EXTENDS Integers, FiniteSetTheorems, WellFoundedInduction, TLAPS

(* Every set of naturals that is not empty has a least element. *)
LEMMA LeastElement ==
  ASSUME NEW S, S \subseteq Nat, S # {}
  PROVE  \E x \in S : \A y \in S : x <= y
  <1> DEFINE R == OpToRel(<, Nat)
  <1>1. IsWellFoundedOn(R, Nat)
    BY NatLessThanWellFounded
  <1>2. ASSUME NEW x \in Nat, NEW y \in Nat, x < y
        PROVE  <<x, y>> \in R
    BY <1>2, Zenon DEF OpToRel
  <1> HIDE DEF R
  <1>3. \E x \in S : \A y \in S : ~(<<y, x>> \in R)
    BY <1>1, WFMin, Zenon
  <1>4. PICK x \in S : \A y \in S : ~(<<y, x>> \in R)
    BY <1>3
  <1>5. \A y \in S : ~(y < x)
    BY <1>2, <1>4, Zenon
  <1> QED  BY <1>5

(* Induction on the naturals: what holds for a number when it holds for    *)
(* all smaller ones holds for every number.                                *)
LEMMA NumberInduction ==
  ASSUME NEW C,
         \A n \in Nat : (\A m \in Nat : m < n => m \in C) => n \in C
  PROVE  \A n \in Nat : n \in C
  <1> SUFFICES ASSUME Nat \ C # {} PROVE FALSE
    OBVIOUS
  <1>1. PICK n \in Nat \ C : \A m \in Nat \ C : n <= m
    BY LeastElement
  <1>2. \A m \in Nat : m < n => m \in C
    BY <1>1
  <1> QED  BY <1>1, <1>2

(* Induction on the subsets of a finite set.                               *)
LEMMA SubsetInduction ==
  ASSUME NEW S, IsFiniteSet(S), NEW C,
         \A s \in SUBSET S : (\A t \in SUBSET s : t # s => t \in C) => s \in C
  PROVE  \A s \in SUBSET S : s \in C
  <1> DEFINE Bad == {s \in SUBSET S : s \notin C}
             Sizes == {Cardinality(s) : s \in Bad}
  <1> SUFFICES ASSUME Bad # {} PROVE FALSE
    OBVIOUS
  <1>1. \A s \in SUBSET S : IsFiniteSet(s) /\ Cardinality(s) \in Nat
    BY FS_Subset, FS_CardinalityType
  <1>2. Sizes \subseteq Nat /\ Sizes # {}
    BY <1>1
  <1>3. PICK n \in Sizes : \A m \in Sizes : n <= m
    BY <1>2, LeastElement
  <1>4. PICK s \in Bad : n = Cardinality(s)
    BY <1>3
  <1>5. ASSUME NEW t \in SUBSET s, t # s
        PROVE  t \in C
    <2>1. Cardinality(t) < Cardinality(s)
      BY <1>1, <1>4, <1>5, FS_Subset
    <2>2. Cardinality(t) \in Nat /\ Cardinality(s) \in Nat /\ t \in SUBSET S
      BY <1>1, <1>4
    <2>3. Cardinality(t) \notin Sizes
      BY <1>3, <1>4, <2>1, <2>2
    <2> QED  BY <2>2, <2>3
  <1> QED  BY <1>4, <1>5

-----------------------------------------------------------------------------
(* Products and quotients, which the provers know little of.              *)

(* A product of naturals is one. *)
LEMMA ProductIs == \A x, y \in Nat : x * y \in Nat
  OBVIOUS

(* A number is its quotient's multiple and its remainder.                  *)
LEMMA Division ==
  ASSUME NEW n \in Nat, NEW d \in Nat \ {0}
  PROVE  \E q \in Nat, r \in 0 .. (d - 1) :
           n = q * d + r /\ n \div d = q /\ n % d = r
  <1> DEFINE q == n \div d
             r == n % d
  <1>1. q \in Nat /\ r \in 0 .. (d - 1) /\ r = n - d * q
    OBVIOUS
  <1> HIDE DEF q, r
  <1>2. n = q * d + r
    BY <1>1
  <1> QED  BY <1>1, <1>2 DEF q, r

(* And it has only one quotient and one remainder. *)
LEMMA DivisionUnique ==
  ASSUME NEW d \in Nat \ {0}, NEW q \in Nat, NEW r \in 0 .. (d - 1)
  PROVE  (q * d + r) \div d = q /\ (q * d + r) % d = r
  <1>1. q * d + r \in Nat
    OBVIOUS
  <1> QED  BY <1>1
=============================================================================
