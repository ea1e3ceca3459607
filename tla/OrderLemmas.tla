----------------------------- MODULE OrderLemmas -----------------------------
(***************************************************************************)
(* Least elements of sets of naturals, and the places of the members of a  *)
(* finite set in their order.  The order by clauses of the code's queries  *)
(* become such places, and arguments by the outermost row or the first     *)
(* counterexample become least elements.                                   *)
(***************************************************************************)
EXTENDS Integers, FiniteSets, FiniteSetTheorems, WellFoundedInduction, TLAPS

(* A set of naturals that is not empty has a least element.                 *)
LEMMA NatMin ==
  ASSUME NEW T \in SUBSET Nat, T # {}
  PROVE  \E m \in T : \A y \in T : m <= y
<1> DEFINE R == {ss \in Nat \X Nat : ss[1] < ss[2]}
<1>1. OpToRel(<, Nat) = R
  BY DEF OpToRel
<1>2. IsWellFoundedOn(R, Nat)
  BY <1>1, NatLessThanWellFounded
<1>3. \E m \in T : \A y \in T : <<y, m>> \notin R
  <2> HIDE DEF R
  <2>1. QED
    BY <1>2, WFMin
<1>4. \A y, m \in Nat : y < m => <<y, m>> \in R
  OBVIOUS
<1>5. QED
  <2> HIDE DEF R
  <2>1. PICK m \in T : \A y \in T : <<y, m>> \notin R
    BY <1>3
  <2>2. \A y \in T : ~(y < m)
    BY <2>1, <1>4
  <2>3. \A y \in T : m <= y
    BY <2>2
  <2>4. QED
    BY <2>3

(* A bounded one has a greatest element as well.                           *)
LEMMA BoundedMax ==
  ASSUME NEW n0 \in Nat, NEW T \in SUBSET (0..n0), T # {}
  PROVE  \E m \in T : \A y \in T : y <= m
<1> DEFINE R == {n \in Nat : \E x \in T : n = n0 - x}
<1>1. \A x \in T : x \in Int /\ 0 <= x /\ x <= n0 /\ n0 - x \in Nat
  OBVIOUS
<1>2. R \subseteq Nat /\ R # {}
  BY <1>1
<1>3. PICK d \in R : \A e \in R : d <= e
  <2> HIDE DEF R
  <2>1. QED
    BY <1>2, NatMin
<1>4. PICK m \in T : d = n0 - m
  BY <1>3
<1>5. ASSUME NEW y \in T
      PROVE  y <= m
  <2>1. n0 - y \in R
    BY <1>1
  <2>2. n0 - m <= n0 - y
    BY <2>1, <1>3, <1>4
  <2>3. QED
    BY <2>2, <1>1
<1>6. QED
  BY <1>5

(* An interval is finite, and so are the sets of its members.              *)
LEMMA IntervalFinite ==
  ASSUME NEW n \in Nat
  PROVE  IsFiniteSet(1..n)
BY FS_Interval

(* However many numbers a finite set has, each place in their order is      *)
(* taken by one of them.                                                    *)
LEMMA PlaceTaken ==
  ASSUME NEW n0 \in Nat, NEW S \in SUBSET (1..n0), NEW i \in 1..Cardinality(S)
  PROVE  \E s \in S : Cardinality({u \in S : u <= s}) = i
<1> DEFINE Below(n) == {u \in S : u <= n}
           T == {n \in 0..n0 : Cardinality(Below(n)) >= i}
<1>1. \A n \in Int : IsFiniteSet(Below(n)) /\ Cardinality(Below(n)) \in Nat
  <2>1. \A n \in Int : Below(n) \subseteq 1..n0
    OBVIOUS
  <2> HIDE DEF Below
  <2>2. QED
    BY <2>1, IntervalFinite, FS_Subset, FS_CardinalityType
<1>2. \A u \in S : u \in Int /\ 1 <= u /\ u <= n0
  OBVIOUS
<1>3. i \in Nat /\ i >= 1
  <2>1. Cardinality(S) \in Nat
    BY IntervalFinite, FS_Subset, FS_CardinalityType
  <2>2. QED
    BY <2>1
<1>4. Below(n0) = S /\ Below(0) = {}
  <2>1. \A u : u \in Below(n0) <=> u \in S
    BY <1>2
  <2>2. \A u : u \notin Below(0)
    <3>1. \A u \in Int : ~(1 <= u /\ u <= 0)
      OBVIOUS
    <3>2. \A u \in S : ~(u <= 0)
      BY <1>2, <3>1
    <3>3. QED
      BY <3>2
  <2>3. QED
    BY <2>1, <2>2
<1>5. \A n \in Nat : n + 1 \notin S => Below(n + 1) = Below(n)
  <2>1. \A n \in Nat : \A u \in S : n + 1 # u => (u <= n + 1 <=> u <= n)
    BY <1>2
  <2>2. QED
    BY <2>1
<1>6. \A n \in Nat : n + 1 \in S =>
        Below(n + 1) = Below(n) \cup {n + 1} /\ n + 1 \notin Below(n)
  <2>1. \A n \in Nat : n + 1 <= n + 1 /\ ~(n + 1 <= n)
    OBVIOUS
  <2>2. \A n \in Nat : \A u \in S : n + 1 # u => (u <= n + 1 <=> u <= n)
    BY <1>2
  <2>3. SUFFICES ASSUME NEW n \in Nat, n + 1 \in S
                 PROVE  Below(n + 1) = Below(n) \cup {n + 1} /\ n + 1 \notin Below(n)
    OBVIOUS
  <2>4. \A u : u \in Below(n + 1) <=> u \in Below(n) \/ u = n + 1
    BY <2>1, <2>2, <2>3
  <2>5. QED
    BY <2>1, <2>4
<1> HIDE DEF Below
<1>7. T \in SUBSET Nat /\ n0 \in T
  BY <1>4, <1>3, <1>1
<1>8. PICK m \in T : \A y \in T : m <= y
  <2> HIDE DEF T
  <2>1. QED
    BY <1>7, NatMin
<1>9. m # 0
  BY <1>4, <1>3, FS_EmptySet
<1>10. PICK n \in Nat : m = n + 1
  BY <1>9, <1>8, m - 1 \in Nat, m = (m - 1) + 1
<1>11. Cardinality(Below(n)) < i
  BY <1>8, <1>10, <1>1, <1>3
<1>12. Cardinality(Below(n + 1)) >= i
  BY <1>8, <1>10
<1>13. n + 1 \in S
  BY <1>11, <1>12, <1>5, <1>1, <1>3
<1>14. Cardinality(Below(n + 1)) = Cardinality(Below(n)) + 1
  <2> DEFINE B == Below(n)
  <2>1. Below(n + 1) = B \cup {n + 1} /\ n + 1 \notin B /\ IsFiniteSet(B)
    BY <1>13, <1>6, <1>1
  <2> HIDE DEF B
  <2>2. Cardinality(B \cup {n + 1}) = Cardinality(B) + 1
    BY <2>1, FS_AddElement
  <2>3. QED
    BY <2>1, <2>2 DEF B
<1>15. Cardinality(Below(n + 1)) = i
  BY <1>14, <1>11, <1>12, <1>1, <1>3
<1>16. QED
  BY <1>15, <1>13 DEF Below

=============================================================================
