----------------------------- MODULE StatsProofs -----------------------------
(***************************************************************************)
(* What summarize and the median give, for every number of samples: the    *)
(* samples they read are there, and which disturbed samples they           *)
(* withstand.                                                              *)
(***************************************************************************)
EXTENDS Stats, InductionLemmas, FiniteSetTheorems, TLAPS

LEMMA QuotientBounds ==
    ASSUME NEW n \in Nat, NEW d \in Nat \ {0}
    PROVE  /\ n \div d \in 0 .. n
           /\ n < d => n \div d = 0
           /\ n > 0 /\ d > 1 => n \div d < n
           /\ n % d \in 0 .. n
OBVIOUS

\* The mean is of at least one sample and of no more than there are, and below
\* TrimPer repetitions nothing is trimmed.
THEOREM KeepsSome ==
    ASSUME NEW n \in Nat \ {0}
    PROVE  /\ Keep(n) \in 1 .. n
           /\ n < TrimPer => Keep(n) = n
<1>1. TrimPer \in Nat /\ TrimPer > 1
  BY TrimAssumption
<1>2. n \div TrimPer \in 0 .. n /\ n \div TrimPer < n /\ (n < TrimPer => n \div TrimPer = 0)
  BY <1>1, QuotientBounds
<1>. QED
  BY <1>2 DEF Keep

\* The median and the p90 are read inside the vector, even when `size() * 90`
\* wraps, as it does on 32 bits above 47 million repetitions.
THEOREM ReadsInside ==
    ASSUME NEW n \in Nat \ {0}
    PROVE  MedianAt(n) \in 0 .. (n - 1) /\ P90At(n) \in 0 .. (n - 1)
<1>1. MedianAt(n) \in 0 .. (n - 1)
  BY DEF MedianAt
<1>2. (n * 90) % SizeMod \in 0 .. (n * 90)
  BY WidthsAssumption, QuotientBounds
<1>. DEFINE m == (n * 90) % SizeMod
<1>. HIDE DEF m
<1>3. m \in 0 .. (n * 90) => m \div 100 \in 0 .. (n - 1)
  OBVIOUS
<1>4. P90At(n) = m \div 100
  BY DEF P90At, m
<1>. QED
  BY <1>1, <1>2, <1>3, <1>4 DEF m
-----------------------------------------------------------------------------
(* Order statistics.  The one fact the rest follows from: the i-th value in  *)
(* order is at most x just when i of the values are.                         *)

\* The values of a sequence lie within some distance of 0.
LEMMA Bounded ==
    ASSUME NEW n \in Nat, NEW s \in [1 .. n -> Int]
    PROVE  \E b \in Nat : \A k \in 1 .. n : -b <= s[k] /\ s[k] <= b
<1>. DEFINE Within(m, b) == \A k \in 1 .. n : k <= m => -b <= s[k] /\ s[k] <= b
            S == {m \in Nat : \E b \in Nat : Within(m, b)}
<1>1. 0 \in S
  BY DEF S
<1>2. ASSUME NEW m \in Nat, m \in S PROVE m + 1 \in S
  <2>1. PICK b \in Nat : Within(m, b)
    BY <1>2
  <2>2. CASE m + 1 \in 1 .. n
    <3>1. PICK c \in Nat : b <= c /\ -c <= s[m + 1] /\ s[m + 1] <= c
      <4>. DEFINE e == s[m + 1]
      <4>1. e \in Int
        BY <2>2
      <4>. HIDE DEF e
      <4>2. CASE e >= 0
        BY <4>1, <4>2, b + e \in Nat /\ b <= b + e /\ -(b + e) <= e /\ e <= b + e DEF e
      <4>3. CASE e < 0
        BY <4>1, <4>3, b - e \in Nat /\ b <= b - e /\ -(b - e) <= e /\ e <= b - e DEF e
      <4>. QED
        BY <4>1, <4>2, <4>3
    <3>2. ASSUME NEW k \in 1 .. n, k <= m + 1 PROVE -c <= s[k] /\ s[k] <= c
      <4>1. CASE k = m + 1
        BY <3>1, <4>1
      <4>2. CASE k <= m
        <5>1. -b <= s[k] /\ s[k] <= b /\ s[k] \in Int
          BY <2>1, <4>2
        <5>. QED
          BY <3>1, <5>1
      <4>. QED
        BY <3>2, <4>1, <4>2
    <3>. QED
      BY <3>1, <3>2
  <2>3. CASE m + 1 \notin 1 .. n
    <3>1. Within(m + 1, b)
      BY <2>1, <2>3
    <3>. QED
      BY <3>1
  <2>. QED
    BY <2>2, <2>3
<1>3. n \in S
  <2>. HIDE DEF S
  <2>. QED
    BY <1>1, <1>2, NatInduct
<1>. QED
  BY <1>3

\* A nonempty set of integers above a bound has a least element.
LEMMA IntMin ==
    ASSUME NEW S \in SUBSET Int, S # {}, NEW b \in Int, \A x \in S : b <= x
    PROVE  Min(S) \in S /\ \A x \in S : Min(S) <= x
<1>. DEFINE T == {m \in Nat : b + m \in S}
<1>1. T # {}
  <2>1. PICK x \in S : TRUE
    OBVIOUS
  <2>2. x - b \in Nat /\ b + (x - b) = x
    BY <2>1
  <2>. QED
    BY <2>1, <2>2
<1>2. PICK m \in T : \A k \in T : m <= k
  BY <1>1, NatLeast
<1>3. ASSUME NEW x \in S PROVE b + m <= x
  <2>1. x - b \in Nat /\ b + (x - b) = x
    OBVIOUS
  <2>2. m <= x - b
    BY <1>2, <2>1
  <2>. QED
    BY <2>2
<1>. QED
  BY <1>2, <1>3 DEF Min

\* One below a bound has a greatest.
LEMMA IntMax ==
    ASSUME NEW S \in SUBSET Int, S # {}, NEW b \in Int, \A x \in S : x <= b
    PROVE  \E m \in S : \A x \in S : x <= m
<1>. DEFINE T == {m \in Nat : b - m \in S}
<1>1. T # {}
  <2>1. PICK x \in S : TRUE
    OBVIOUS
  <2>2. b - x \in Nat /\ b - (b - x) = x
    BY <2>1
  <2>. QED
    BY <2>1, <2>2
<1>2. PICK m \in T : \A k \in T : m <= k
  BY <1>1, NatLeast
<1>3. ASSUME NEW x \in S PROVE x <= b - m
  <2>1. b - x \in Nat /\ b - (b - x) = x
    OBVIOUS
  <2>2. m <= b - x
    BY <1>2, <2>1
  <2>. QED
    BY <2>2
<1>. QED
  BY <1>2, <1>3

\* The places of a sequence.
LEMMA Places ==
    ASSUME NEW n \in Nat
    PROVE  IsFiniteSet(1 .. n) /\ Cardinality(1 .. n) = n
<1>1. 1 \in Int /\ n \in Int /\ (1 > n => n = 0)
  OBVIOUS
<1>2. /\ IsFiniteSet(1 .. n)
      /\ Cardinality(1 .. n) = IF 1 > n THEN 0 ELSE n - 1 + 1
  BY <1>1, FS_Interval
<1>. QED
  BY <1>1, <1>2

LEMMA AtMostTyped ==
    ASSUME NEW s \in Seq(Int), NEW x
    PROVE  /\ AtMost(s, x) \in 0 .. Len(s)
           /\ IsFiniteSet({k \in DOMAIN s : s[k] <= x})
<1>1. DOMAIN s = 1 .. Len(s) /\ Len(s) \in Nat
  OBVIOUS
<1>2. IsFiniteSet(1 .. Len(s)) /\ Cardinality(1 .. Len(s)) = Len(s)
  BY <1>1, Places
<1>. DEFINE T == {k \in DOMAIN s : s[k] <= x}
<1>3. T \in SUBSET (1 .. Len(s))
  BY <1>1
<1>. HIDE DEF T
<1>4. IsFiniteSet(T) /\ Cardinality(T) <= Len(s) /\ Cardinality(T) \in Nat
  BY <1>2, <1>3, FS_Subset, FS_CardinalityType
<1>. QED
  BY <1>1, <1>4 DEF T, AtMost

LEMMA AtMostMonotone ==
    ASSUME NEW s \in Seq(Int), NEW x \in Int, NEW y \in Int, x <= y
    PROVE  AtMost(s, x) <= AtMost(s, y)
<1>. DEFINE T(z) == {k \in DOMAIN s : s[k] <= z}
<1>1. T(x) \in SUBSET T(y)
  OBVIOUS
<1>2. IsFiniteSet(T(y))
  BY AtMostTyped
<1>. HIDE DEF T
<1>3. Cardinality(T(x)) <= Cardinality(T(y))
  BY <1>1, <1>2, FS_Subset
<1>. QED
  BY <1>3 DEF T, AtMost

\* Sorting.
LEMMA RankAt ==
    ASSUME NEW s \in Seq(Int), NEW i \in 1 .. Len(s)
    PROVE  /\ Ascending(s)[i] \in Range(s) /\ Ascending(s)[i] \in Int
           /\ \A x \in Int : Ascending(s)[i] <= x <=> i <= AtMost(s, x)
<1>. DEFINE n == Len(s)
            R == Range(s)
            T == {x \in R : AtMost(s, x) >= i}
<1>1. n \in Nat /\ DOMAIN s = 1 .. n /\ s \in [1 .. n -> Int] /\ i \in 1 .. n /\ i \in Nat
  OBVIOUS
<1>2. R \in SUBSET Int /\ \A k \in 1 .. n : s[k] \in R
  BY <1>1 DEF Range
<1>3. PICK b \in Nat : \A k \in 1 .. n : -b <= s[k] /\ s[k] <= b
  BY <1>1, Bounded
<1>4. \A x \in R : -b <= x /\ x <= b
  BY <1>1, <1>3 DEF Range
<1>5. \A x \in Int : AtMost(s, x) \in 0 .. n
  BY AtMostTyped
\* The values at most x are those at most the greatest of them.
<1>6. ASSUME NEW x \in Int, i <= AtMost(s, x)
      PROVE  \E y \in T : y <= x
  <2>. DEFINE B == {y \in R : y <= x}
  <2>1. B # {}
    <3>. SUFFICES ASSUME B = {} PROVE FALSE
      OBVIOUS
    <3>1. {k \in DOMAIN s : s[k] <= x} = {}
      BY <1>1, <1>2
    <3>2. AtMost(s, x) = 0
      BY <3>1, FS_EmptySet DEF AtMost
    <3>. QED
      BY <1>1, <1>6, <3>2
  <2>2. B \in SUBSET Int /\ \A y \in B : y <= x
    BY <1>2
  <2>3. PICK y \in B : \A z \in B : z <= y
    <3>. HIDE DEF B
    <3>. QED
      BY <2>1, <2>2, IntMax
  <2>4. {k \in DOMAIN s : s[k] <= x} = {k \in DOMAIN s : s[k] <= y}
    <3>1. ASSUME NEW k \in 1 .. n, s[k] <= x PROVE s[k] <= y
      BY <1>2, <2>3, <3>1
    <3>2. ASSUME NEW k \in 1 .. n, s[k] <= y PROVE s[k] <= x
      <4>1. y \in Int /\ y <= x /\ s[k] \in Int
        BY <1>1, <2>2, <2>3
      <4>. QED
        BY <3>2, <4>1
    <3>. QED
      BY <1>1, <3>1, <3>2
  <2>5. AtMost(s, x) = AtMost(s, y)
    BY <2>4 DEF AtMost
  <2>. QED
    BY <1>1, <1>5, <1>6, <2>3, <2>5
<1>7. T # {}
  <2>1. {k \in DOMAIN s : s[k] <= b} = 1 .. n
    BY <1>1, <1>3
  <2>2. AtMost(s, b) = n
    <3>1. Cardinality(1 .. n) = n
      <4>. HIDE DEF n
      <4>. QED
        BY <1>1, Places
    <3>. QED
      BY <2>1, <3>1 DEF AtMost
  <2>. QED
    BY <1>1, <1>6, <2>2
<1>8. /\ Min(T) \in T /\ \A y \in T : Min(T) <= y
  <2>1. T \in SUBSET Int /\ (\A x \in T : -b <= x) /\ -b \in Int
    BY <1>2, <1>4
  <2>. HIDE DEF T
  <2>. QED
    BY <1>7, <2>1, IntMin
<1>9. Ascending(s)[i] = Min(T)
  BY <1>1 DEF Ascending
<1>10. Min(T) \in R /\ Min(T) \in Int /\ i <= AtMost(s, Min(T))
  BY <1>1, <1>2, <1>5, <1>8
<1>11. ASSUME NEW x \in Int PROVE Min(T) <= x <=> i <= AtMost(s, x)
  <2>1. ASSUME Min(T) <= x PROVE i <= AtMost(s, x)
    <3>1. AtMost(s, Min(T)) <= AtMost(s, x)
      BY <1>10, <2>1, AtMostMonotone
    <3>. QED
      BY <1>1, <1>5, <1>10, <3>1
  <2>2. ASSUME i <= AtMost(s, x) PROVE Min(T) <= x
    <3>1. PICK y \in T : y <= x
      BY <1>6, <2>2
    <3>2. Min(T) <= y /\ y \in Int
      BY <1>2, <1>8, <3>1
    <3>. QED
      BY <1>10, <3>1, <3>2
  <2>. QED
    BY <2>1, <2>2
<1>. QED
  BY <1>9, <1>10, <1>11

LEMMA AscendingTyped ==
    ASSUME NEW s \in Seq(Int)
    PROVE  Ascending(s) \in Seq(Int) /\ Len(Ascending(s)) = Len(s)
<1>1. DOMAIN s = 1 .. Len(s) /\ Len(s) \in Nat
  OBVIOUS
<1>2. \A i \in 1 .. Len(s) : Ascending(s)[i] \in Int
  BY RankAt
<1>. DEFINE a == Ascending(s)
<1>3. a = [i \in 1 .. Len(s) |-> a[i]]
  BY <1>1 DEF Ascending
<1>. HIDE DEF a
<1>4. a \in [1 .. Len(s) -> Int]
  BY <1>2, <1>3 DEF a
<1>. QED
  BY <1>1, <1>4 DEF a

\* `Ascending` sorts: it is in order, and holds every value as often as the
\* samples do.
THEOREM AscendingSorts ==
    ASSUME NEW s \in Seq(Int)
    PROVE  /\ \A i, j \in 1 .. Len(s) : i <= j => Ascending(s)[i] <= Ascending(s)[j]
           /\ \A x \in Int : AtMost(Ascending(s), x) = AtMost(s, x)
<1>. DEFINE a == Ascending(s)
            n == Len(s)
<1>1. a \in Seq(Int) /\ Len(a) = n /\ n \in Nat /\ DOMAIN a = 1 .. n
  BY AscendingTyped
<1>2. ASSUME NEW i \in 1 .. n, NEW j \in 1 .. n, i <= j PROVE a[i] <= a[j]
  <2>1. a[j] \in Int /\ AtMost(s, a[j]) \in Int /\ j <= AtMost(s, a[j])
    <3>1. PICK m \in Int : m = a[j]
      BY RankAt
    <3>2. m <= m => j <= AtMost(s, m)
      BY <3>1, RankAt
    <3>3. AtMost(s, m) \in 0 .. n
      BY AtMostTyped
    <3>. QED
      BY <1>1, <3>1, <3>2, <3>3
  <2>2. i <= AtMost(s, a[j])
    BY <1>2, <2>1
  <2>. QED
    BY <2>1, <2>2, RankAt
<1>3. ASSUME NEW x \in Int PROVE AtMost(a, x) = AtMost(s, x)
  <2>1. AtMost(s, x) \in 0 .. n
    BY AtMostTyped
  <2>2. {i \in DOMAIN a : a[i] <= x} = 1 .. AtMost(s, x)
    <3>1. \A i \in 1 .. n : a[i] <= x <=> i <= AtMost(s, x)
      BY RankAt
    <3>. QED
      BY <1>1, <2>1, <3>1
  <2>3. Cardinality(1 .. AtMost(s, x)) = AtMost(s, x)
    BY <2>1, FS_Interval
  <2>. QED
    BY <2>2, <2>3 DEF AtMost
<1>. QED
  BY <1>2, <1>3

\* The values equal to x are those at most x and not at most x - 1.
LEMMA CountEqual ==
    ASSUME NEW s \in Seq(Int), NEW x \in Int
    PROVE  Cardinality({k \in DOMAIN s : s[k] = x}) = AtMost(s, x) - AtMost(s, x - 1)
<1>. DEFINE T == {k \in DOMAIN s : s[k] <= x}
            U == {k \in DOMAIN s : s[k] <= x - 1}
            E == {k \in DOMAIN s : s[k] = x}
<1>1. \A k \in DOMAIN s : s[k] \in Int
  OBVIOUS
<1>2. T = E \cup U /\ E \cap U = {}
  BY <1>1
<1>3. IsFiniteSet(T) /\ IsFiniteSet(U)
  BY AtMostTyped
<1>4. E \in SUBSET T
  BY <1>2
<1>. HIDE DEF T, U, E
<1>5. IsFiniteSet(E)
  BY <1>3, <1>4, FS_Subset
<1>7. Cardinality(E) \in Nat /\ Cardinality(U) \in Nat
  BY <1>3, <1>5, FS_CardinalityType
<1>6. Cardinality(T) = Cardinality(E) + Cardinality(U)
  <2>1. Cardinality(E \cup U) = Cardinality(E) + Cardinality(U) - Cardinality(E \cap U)
    BY <1>3, <1>5, FS_Union
  <2>2. Cardinality(E \cap U) = 0
    BY <1>2, FS_EmptySet
  <2>. QED
    BY <1>2, <1>7, <2>1, <2>2
<1>. QED
  BY <1>6, <1>7 DEF T, U, E, AtMost

\* The median of report.py is what more than half of the passes say, whatever
\* the others do.
THEOREM MedianOfMajority ==
    ASSUME NEW s \in Seq(Int), NEW x \in Int,
           2 * Cardinality({k \in DOMAIN s : s[k] = x}) > Len(s)
    PROVE  MedianTwice(s) = 2 * x
<1>. DEFINE n == Len(s)
            hi == AtMost(s, x)
            lo == AtMost(s, x - 1)
<1>1. n \in Nat /\ hi \in 0 .. n /\ lo \in 0 .. n /\ 2 * (hi - lo) > n
  <2>1. Cardinality({k \in DOMAIN s : s[k] = x}) = hi - lo
    BY CountEqual
  <2>2. hi \in 0 .. n /\ lo \in 0 .. n
    BY AtMostTyped
  <2>. QED
    BY <2>1, <2>2
<1>. HIDE DEF n, hi, lo
<1>2. ASSUME NEW i \in {(n + 1) \div 2, n \div 2 + 1} PROVE Ascending(s)[i] = x
  <2>1. i \in 1 .. n /\ i <= hi /\ ~(i <= lo)
    BY <1>1
  <2>2. i \in 1 .. Len(s)
    BY <2>1 DEF n
  <2>3. Ascending(s)[i] \in Int
    BY <2>2, RankAt
  <2>4. Ascending(s)[i] <= x
    BY <2>1, <2>2, RankAt DEF hi
  <2>5. ~(Ascending(s)[i] <= x - 1)
    BY <2>1, <2>2, RankAt DEF lo
  <2>. QED
    BY <2>3, <2>4, <2>5
<1>3. MedianTwice(s) = Ascending(s)[(n + 1) \div 2] + Ascending(s)[n \div 2 + 1]
  BY DEF MedianTwice, n
<1>. QED
  BY <1>2, <1>3
-----------------------------------------------------------------------------
(* Sums.                                                                    *)

\* The running sum is well defined.
LEMMA SumUnfolds ==
    ASSUME NEW w, NEW n \in Nat, n = Len(w)
    PROVE  SumOfFirst(w) =
             [i \in 0 .. n |->
                    IF i = 0 THEN 0 ELSE SumOfFirst(w)[i - 1] + w[i]]
<1>. DEFINE E(f) == [i \in 0 .. n |->
                    IF i = 0 THEN 0 ELSE f[i - 1] + w[i]]
            Good(f, k) == /\ f = [i \in 0 .. n |-> f[i]]
                          /\ \A i \in 0 .. n : i < k => f[i] = E(f)[i]
            Approx == {k \in Nat : \E f : Good(f, k)}
<1>. HIDE DEF E, Good
<1>1. 0 \in Approx
  <2>1. PICK f : f = [i \in 0 .. n |-> 0]
    OBVIOUS
  <2>2. f = [i \in 0 .. n |-> f[i]] /\ \A i \in 0 .. n : ~(i < 0)
    BY <2>1
  <2>3. Good(f, 0)
    BY <2>2 DEF Good
  <2>. QED
    BY <2>3
<1>2. ASSUME NEW k \in Nat, k \in Approx PROVE k + 1 \in Approx
  <2>1. PICK f : Good(f, k)
    BY <1>2
  <2>2. PICK g : g = [i \in 0 .. n |-> E(f)[i]]
    OBVIOUS
  <2>3. ASSUME NEW i \in 0 .. n, i < k + 1 PROVE g[i] = E(g)[i]
    <3>1. i # 0 => i - 1 \in 0 .. (n - 1) /\ i - 1 < k
      BY <2>3
    <3>2. i # 0 => g[i - 1] = f[i - 1]
      BY <2>1, <2>2, <3>1 DEF Good
    <3>. QED
      BY <2>2, <3>2 DEF E
  <2>4. g = [i \in 0 .. n |-> g[i]]
    BY <2>2
  <2>5. Good(g, k + 1)
    BY <2>3, <2>4 DEF Good
  <2>. QED
    BY <2>5
<1>3. n + 1 \in Approx /\ \A i \in 0 .. n : i < n + 1
  <2>. HIDE DEF Approx
  <2>. QED
    BY <1>1, <1>2, NatInduct
<1>4. PICK f : Good(f, n + 1)
  BY <1>3
<1>5. f = E(f)
  BY <1>3, <1>4 DEF E, Good
<1>6. SumOfFirst(w) = CHOOSE g : g = E(g)
  BY DEF SumOfFirst, E
<1>7. SumOfFirst(w) = E(SumOfFirst(w))
  BY <1>5, <1>6
<1>. QED
  BY <1>7 DEF E

\* The sum of k values, none below w, is no less than k * w, and no more just
\* when all of them are w.
LEMMA SumLeast ==
    ASSUME NEW s \in Seq(Int), NEW w \in Int, \A i \in 1 .. Len(s) : w <= s[i]
    PROVE  \A k \in 0 .. Len(s) :
              /\ SumOfFirst(s)[k] \in Int
              /\ k * w <= SumOfFirst(s)[k]
              /\ SumOfFirst(s)[k] = k * w <=> \A i \in 1 .. k : s[i] = w
<1>. DEFINE n == Len(s)
            sum == SumOfFirst(s)
            P(k) == /\ sum[k] \in Int
                    /\ k * w <= sum[k]
                    /\ sum[k] = k * w <=> \A i \in 1 .. k : s[i] = w
            S == {k \in Nat : k <= n => P(k)}
<1>1. n \in Nat
  OBVIOUS
<1>2. sum = [i \in 0 .. n |-> IF i = 0 THEN 0 ELSE sum[i - 1] + s[i]]
  BY <1>1, SumUnfolds
<1>. HIDE DEF sum
<1>3. 0 \in S
  <2>1. sum[0] = 0
    BY <1>1, <1>2
  <2>. QED
    BY <2>1
<1>4. ASSUME NEW k \in Nat, k \in S PROVE k + 1 \in S
  <2>. SUFFICES ASSUME k + 1 <= n PROVE P(k + 1)
    OBVIOUS
  <2>1. P(k)
    BY <1>1, <1>4
  <2>2. sum[k + 1] = sum[k] + s[k + 1]
    <3>1. k + 1 \in 0 .. n /\ k + 1 # 0 /\ (k + 1) - 1 = k
      BY <1>1
    <3>. QED
      BY <1>2, <3>1
  <2>3. s[k + 1] \in Int /\ w <= s[k + 1]
    BY <1>1
  <2>4. (k + 1) * w = k * w + w /\ k * w \in Int
    OBVIOUS
  <2>5. sum[k + 1] \in Int /\ (k + 1) * w <= sum[k + 1]
        /\ (sum[k + 1] = (k + 1) * w <=> sum[k] = k * w /\ s[k + 1] = w)
    <3>. DEFINE a == sum[k]
                b == s[k + 1]
                c == k * w
    <3>1. a \in Int /\ b \in Int /\ c \in Int /\ c <= a /\ w <= b
      BY <2>1, <2>3, <2>4
    <3>. HIDE DEF a, b, c
    <3>2. a + b \in Int /\ c + w <= a + b /\ (a + b = c + w <=> a = c /\ b = w)
      BY <3>1
    <3>. QED
      BY <2>2, <2>4, <3>2 DEF a, b, c
  <2>6. (\A i \in 1 .. (k + 1) : s[i] = w) <=> (\A i \in 1 .. k : s[i] = w) /\ s[k + 1] = w
    OBVIOUS
  <2>. QED
    BY <2>1, <2>5, <2>6
<1>5. Nat \subseteq S
  <2>. HIDE DEF S
  <2>. QED
    BY <1>3, <1>4, NatInduct
<1>. QED
  BY <1>1, <1>5 DEF sum
-----------------------------------------------------------------------------
(* What summarize withstands.                                               *)

\* Samples of which none took less than w.
LeastOf(s, w) == \A k \in 1 .. Len(s) : w <= s[k]

\* How many took more.
Slower(s, w) == Cardinality({k \in 1 .. Len(s) : s[k] # w})

\* Every sample but the slower ones comes first in order.
LEMMA Undisturbed ==
    ASSUME NEW s \in Seq(Int), NEW w \in Int, LeastOf(s, w)
    PROVE  /\ Slower(s, w) \in 0 .. Len(s)
           /\ \A i \in 1 .. Len(s) : /\ w <= Ascending(s)[i]
                                     /\ Ascending(s)[i] = w <=> i <= Len(s) - Slower(s, w)
<1>. DEFINE n == Len(s)
            T == {k \in 1 .. n : s[k] <= w}
            U == {k \in 1 .. n : s[k] # w}
<1>1. n \in Nat /\ DOMAIN s = 1 .. n /\ \A k \in 1 .. n : s[k] \in Int /\ w <= s[k]
  BY DEF LeastOf
<1>2. T \cup U = 1 .. n /\ T \cap U = {} /\ T \in SUBSET (1 .. n) /\ U \in SUBSET (1 .. n)
  BY <1>1
<1>3. IsFiniteSet(1 .. n) /\ Cardinality(1 .. n) = n
  <2>. HIDE DEF n
  <2>1. n \in Nat
    BY <1>1
  <2>. QED
    BY <2>1, FS_Interval
<1>. HIDE DEF T, U
<1>4. IsFiniteSet(T) /\ IsFiniteSet(U)
  BY <1>2, <1>3, FS_Subset
<1>5. Cardinality(T) \in Nat /\ Cardinality(U) \in Nat
  BY <1>4, FS_CardinalityType
<1>6. Cardinality(T \cup U) = Cardinality(T) + Cardinality(U) - Cardinality(T \cap U)
  BY <1>4, FS_Union
<1>7. Cardinality(T \cap U) = 0
  BY <1>2, FS_EmptySet
<1>8. n = Cardinality(T) + Cardinality(U)
  <2>. HIDE DEF n
  <2>1. Cardinality(T \cup U) = n
    BY <1>2, <1>3, Zenon
  <2>. QED
    BY <1>5, <1>6, <1>7, <2>1
<1>9. AtMost(s, w) = Cardinality(T) /\ Slower(s, w) = Cardinality(U)
  BY <1>1 DEF AtMost, Slower, T, U
<1>10. ASSUME NEW i \in 1 .. n
       PROVE  /\ w <= Ascending(s)[i]
              /\ Ascending(s)[i] = w <=> i <= n - Slower(s, w)
  <2>1. PICK m \in Int : m = Ascending(s)[i] /\ m \in Range(s)
    BY RankAt
  <2>2. w <= m
    BY <1>1, <2>1 DEF Range
  <2>3. m <= w <=> i <= AtMost(s, w)
    BY <2>1, RankAt
  <2>4. AtMost(s, w) = n - Slower(s, w)
    BY <1>1, <1>5, <1>8, <1>9
  <2>. QED
    BY <2>1, <2>2, <2>3, <2>4
<1>. QED
  BY <1>1, <1>5, <1>8, <1>9, <1>10

\* The remark of summarize on its trim, for any samples of which none took less
\* than w: the mean is w if and only if no more samples than are trimmed took
\* longer; the p90 is, where `size() * 90` does not wrap, if and only if fewer
\* than a tenth did, the median if fewer than half, the minimum if not all.
THEOREM SummaryRobust ==
    ASSUME NEW s \in Seq(Int), s # <<>>, NEW w \in Int, LeastOf(s, w)
    PROVE  LET n == Len(s)  d == Slower(s, w)  st == Summary(s) IN
           /\ (st.total = Keep(n) * w) <=> (d <= n \div TrimPer)
           /\ n * 90 < SizeMod => ((st.p90 = w) <=> (d < n - (n * 90) \div 100))
           /\ (st.median = w) <=> (d < n - n \div 2)
           /\ (st.min = w) <=> (d < n)
<1>. DEFINE n == Len(s)
            d == Slower(s, w)
            a == Ascending(s)
            st == Summary(s)
            keep == Keep(n)
<1>1. n \in Nat \ {0} /\ d \in 0 .. n
  BY Undisturbed
<1>2. /\ st.min = a[1] /\ st.median = a[MedianAt(n) + 1] /\ st.p90 = a[P90At(n) + 1]
      /\ st.total = SumOfFirst(a)[keep]
  BY DEF Summary
<1>3. \A i \in 1 .. n : w <= a[i] /\ (a[i] = w <=> i <= n - d)
  BY Undisturbed
<1>4. /\ keep \in 1 .. n /\ keep = n - n \div TrimPer
      /\ MedianAt(n) \in 0 .. (n - 1) /\ P90At(n) \in 0 .. (n - 1)
      /\ n \div TrimPer \in 0 .. n
  <2>1. TrimPer \in Nat /\ TrimPer > 1
    BY TrimAssumption
  <2>2. n \div TrimPer \in 0 .. n /\ n \div TrimPer < n
    <3>1. n \in Nat /\ n > 0 /\ TrimPer \in Nat \ {0} /\ TrimPer > 1
      BY <1>1, <2>1
    <3>. HIDE DEF n
    <3>. QED
      BY <3>1, QuotientBounds
  <2>3. keep \in 1 .. n
    BY <1>1, KeepsSome
  <2>. QED
    BY <1>1, <2>2, <2>3, ReadsInside DEF Keep
<1>5. (st.total = keep * w) <=> (d <= n \div TrimPer)
  <2>1. a \in Seq(Int) /\ Len(a) = n
    BY AscendingTyped
  <2>. HIDE DEF a, n, d, keep, st
  <2>2. st.total = keep * w <=> \A i \in 1 .. keep : a[i] = w
    <3>1. \A i \in 1 .. Len(a) : w <= a[i]
      BY <1>3, <2>1
    <3>2. \A k \in 0 .. Len(a) :
             SumOfFirst(a)[k] = k * w <=> \A i \in 1 .. k : a[i] = w
      BY <2>1, <3>1, SumLeast
    <3>3. keep \in 0 .. Len(a)
      BY <1>1, <1>4, <2>1
    <3>. QED
      BY <1>2, <3>2, <3>3
  <2>3. (\A i \in 1 .. keep : a[i] = w) <=> keep <= n - d
    BY <1>1, <1>3, <1>4
  <2>4. keep <= n - d <=> d <= n \div TrimPer
    BY <1>1, <1>4
  <2>. QED
    BY <2>2, <2>3, <2>4
<1>6. n * 90 < SizeMod => ((st.p90 = w) <=> (d < n - (n * 90) \div 100))
  <2>. SUFFICES ASSUME n * 90 < SizeMod
                PROVE  (st.p90 = w) <=> (d < n - (n * 90) \div 100)
    OBVIOUS
  <2>1. P90At(n) = (n * 90) \div 100
    <3>. DEFINE m == n * 90
    <3>1. m \in 0 .. (SizeMod - 1) /\ SizeMod \in Nat \ {0}
      BY <1>1, WidthsAssumption
    <3>. HIDE DEF m
    <3>2. m % SizeMod = m
      BY <3>1
    <3>. QED
      BY <3>2 DEF P90At, m
  <2>2. P90At(n) + 1 \in 1 .. n
    BY <1>1, <1>4
  <2>. HIDE DEF a, n, d, st
  <2>3. st.p90 = w <=> P90At(n) + 1 <= n - d
    BY <1>2, <1>3, <2>2
  <2>. QED
    BY <1>1, <1>4, <2>1, <2>3
<1>7. (st.median = w) <=> (d < n - n \div 2)
  <2>1. MedianAt(n) = n \div 2 /\ MedianAt(n) + 1 \in 1 .. n
    BY <1>1, <1>4 DEF MedianAt
  <2>. HIDE DEF a, n, d, st
  <2>2. st.median = w <=> MedianAt(n) + 1 <= n - d
    BY <1>2, <1>3, <2>1
  <2>. QED
    BY <1>1, <1>4, <2>1, <2>2
<1>8. (st.min = w) <=> (d < n)
  <2>. HIDE DEF a, n, d, st
  <2>. QED
    BY <1>1, <1>2, <1>3
<1>. QED
  BY <1>5, <1>6, <1>7, <1>8
=============================================================================
