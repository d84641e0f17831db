--------------------------- MODULE InductionLemmas ---------------------------
(***************************************************************************)
(* Induction stated of sets.  A proof by induction on a number defines the *)
(* set of the numbers its claim holds of and cites one of these.           *)
(***************************************************************************)
EXTENDS FiniteSetsExt, WellFoundedInduction, TLAPS

\* A nonempty set of naturals has a least element.
LEMMA NatLeast ==
    ASSUME NEW S \in SUBSET Nat, S # {}
    PROVE  \E m \in S : \A x \in S : m <= x
<1>. DEFINE R == {p \in Nat \X Nat : p[1] < p[2]}
<1>1. IsWellFoundedOn(R, Nat)
  BY NatLessThanWellFounded DEF OpToRel
<1>2. PICK m \in S : \A y \in S : ~(<<y, m>> \in R)
  BY <1>1, WFMin
<1>3. ASSUME NEW y \in S PROVE m <= y
  <2>1. <<y, m>> \in Nat \X Nat /\ <<y, m>> \notin R
    BY <1>2
  <2>2. ~(y < m)
    BY <2>1
  <2>. QED
    BY <2>2
<1>. QED
  BY <1>3

LEMMA NatMin ==
    ASSUME NEW S \in SUBSET Nat, S # {}
    PROVE  Min(S) \in S /\ \A x \in S : Min(S) <= x
BY NatLeast DEF Min

\* Counting up from 0.
LEMMA NatInduct ==
    ASSUME NEW S, 0 \in S, \A k \in Nat : k \in S => k + 1 \in S
    PROVE  Nat \subseteq S
<1>. SUFFICES ASSUME Nat \ S # {} PROVE FALSE
  OBVIOUS
<1>1. PICK m \in Nat \ S : \A x \in Nat \ S : m <= x
  BY NatLeast
<1>2. m - 1 \in Nat /\ ~(m <= m - 1)
  BY <1>1
<1>. QED
  BY <1>1, <1>2

\* Going up an interval, from everything below.
LEMMA Upward ==
    ASSUME NEW a \in Nat, NEW b \in Int, NEW S,
           \A i \in a .. b : (\A j \in a .. (i - 1) : j \in S) => i \in S
    PROVE  a .. b \subseteq S
<1>. DEFINE Out == {i \in Nat : i \in a .. b /\ i \notin S}
<1>. SUFFICES ASSUME Out # {} PROVE FALSE
  OBVIOUS
<1>1. PICK m \in Out : \A x \in Out : m <= x
  BY NatLeast
<1>2. m \in a .. b /\ \A j \in a .. (m - 1) : j \in S
  BY <1>1
<1>. QED
  BY <1>1, <1>2

\* Going down an interval, from everything above.
LEMMA Downward ==
    ASSUME NEW a \in Nat, NEW b \in Int, NEW S,
           \A i \in a .. b : (\A j \in (i + 1) .. b : j \in S) => i \in S
    PROVE  a .. b \subseteq S
<1>. DEFINE Out == {k \in Nat : b - k \in a .. b /\ b - k \notin S}
<1>1. ASSUME Out = {} PROVE a .. b \subseteq S
  <2>. SUFFICES ASSUME NEW i \in a .. b PROVE i \in S
    OBVIOUS
  <2>1. b - i \in Nat /\ b - (b - i) = i
    OBVIOUS
  <2>. QED
    BY <1>1, <2>1
<1>. SUFFICES ASSUME Out # {} PROVE FALSE
  BY <1>1
<1>2. PICK m \in Out : \A x \in Out : m <= x
  BY NatLeast
<1>3. ASSUME NEW j \in (b - m + 1) .. b PROVE j \in S
  <2>1. b - j \in Nat /\ ~(m <= b - j) /\ b - (b - j) = j /\ j \in a .. b
    BY <1>2
  <2>. QED
    BY <1>2, <2>1
<1>. QED
  BY <1>2, <1>3

\* A nonempty set of naturals with a bound has a greatest element.
LEMMA MaxBounded ==
    ASSUME NEW b \in Nat, NEW S, S \subseteq 0 .. b, S # {}
    PROVE  Max(S) \in S /\ Max(S) \in 0 .. b /\ \A x \in S : x <= Max(S)
<1>. DEFINE T == {k \in Nat : b - k \in S}
<1>1. T # {}
  <2>1. PICK x \in S : x \in 0 .. b
    OBVIOUS
  <2>2. b - x \in Nat /\ b - (b - x) = x
    BY <2>1
  <2>. QED
    BY <2>2
<1>2. PICK m \in T : \A k \in T : m <= k
  BY <1>1, NatLeast
<1>3. ASSUME NEW x \in S PROVE b - m >= x
  <2>1. x \in 0 .. b /\ b - x \in Nat /\ b - (b - x) = x
    OBVIOUS
  <2>2. m <= b - x
    BY <1>2, <2>1
  <2>. QED
    BY <2>1, <2>2
<1>. QED
  BY <1>2, <1>3 DEF Max
=============================================================================
