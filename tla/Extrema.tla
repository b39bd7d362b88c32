------------------------------- MODULE Extrema -------------------------------
(***************************************************************************)
(* Non-empty sets of numbers have the least and the greatest elements that *)
(* Min, Max and the CHOOSEs of the models take.                            *)
(***************************************************************************)
EXTENDS Integers, FiniteSetsExt, WellFoundedInduction, TLAPS

\* Of two numbers one is at most the other, or the relation < has them the other way.
LEMMA Less ==
    ASSUME NEW x \in Nat, NEW y \in Nat
    PROVE  x <= y \/ <<y, x>> \in OpToRel(<, Nat)
<1>1. <<y, x>> \in Nat \X Nat /\ <<y, x>>[1] = y /\ <<y, x>>[2] = x
  OBVIOUS
<1>2. x <= y \/ y < x
  OBVIOUS
<1> QED BY <1>1, <1>2, Zenon DEF OpToRel

\* A non-empty set of numbers has a least element, which CHOOSE and Min find.
LEMMA Least ==
    ASSUME NEW S \in SUBSET Nat, S # {}
    PROVE  \E x \in S : \A y \in S : x <= y
<1>1. PICK x \in S : \A y \in S : ~ (<<y, x>> \in OpToRel(<, Nat))
  BY NatLessThanWellFounded, WFMin
<1>2. \A y \in S : x <= y
  BY <1>1, Less
<1> QED BY <1>2

LEMMA MinIn ==
    ASSUME NEW S \in SUBSET Nat, S # {}
    PROVE  Min(S) \in S
<1>1. \E x \in S : \A y \in S : x <= y
  BY Least
<1> QED BY <1>1 DEF Min

\* A non-empty set of numbers with a bound has a greatest one, which Max finds.
LEMMA Greatest ==
    ASSUME NEW n \in Nat, NEW S \in SUBSET (1 .. n), S # {}
    PROVE  \E x \in S : \A y \in S : y <= x
<1> DEFINE T == {n - i : i \in S}
<1>1. T \in SUBSET Nat /\ T # {}
  <2>1. \A i \in S : i \in 1 .. n /\ n - i \in Nat
    OBVIOUS
  <2> QED BY <2>1
<1>2. PICK x \in T : \A y \in T : x <= y
  BY <1>1, Least
<1>3. PICK i \in S : x = n - i
  OBVIOUS
<1>4. \A j \in S : j <= i
  BY <1>2, <1>3
<1> QED BY <1>4

LEMMA MaxIn ==
    ASSUME NEW n \in Nat, NEW S \in SUBSET (1 .. n), S # {}
    PROVE  Max(S) \in S
<1>1. PICK i \in S : \A j \in S : j <= i
  BY Greatest
<1>2. \A j \in S : i >= j
  BY <1>1
<1> QED BY <1>2 DEF Max
=============================================================================
