-------------------------------- MODULE Stats --------------------------------
(***************************************************************************)
(* summarize (timing.hpp): what is kept of the samples of one variant, and *)
(* statistics.median, which report.py takes over the passes.               *)
(*                                                                         *)
(* A mean is kept as the total of the samples it is the mean of: all rows  *)
(* of a launch keep the same number of samples, so their means compare and *)
(* subtract as their totals do.  Standard errors are left out.             *)
(***************************************************************************)
EXTENDS Widths, SequencesExt

CONSTANT TrimPer    \* 20: one sample in TrimPer is trimmed

ASSUME TrimAssumption == TrimPer \in Nat \ {0, 1}

\* How many of n sorted samples the mean is taken over.
Keep(n) == LET keep == n - n \div TrimPer IN IF keep = 0 THEN n ELSE keep

\* Where, from 0, the median and the p90 of n sorted samples are read.
MedianAt(n) == n \div 2
P90At(n)    == ((n * 90) % SizeMod) \div 100

\* How many of the values of s are at most x.
AtMost(s, x) == Cardinality({k \in DOMAIN s : s[k] <= x})

\* std::sort, sorted(): the i-th is the least value that i of them do not exceed.
Ascending(s) == [i \in DOMAIN s |-> Min({x \in Range(s) : AtMost(s, x) >= i})]

\* The sum of the first k of the values of s.
SumOfFirst(s) ==
    LET sum[k \in 0 .. Len(s)] == IF k = 0 THEN 0 ELSE sum[k - 1] + s[k]
    IN  sum

\* Mutant: the samples are trimmed in the order they were taken.
SummaryUnsorted(samples) ==
    LET n == Len(samples) IN
    [n      |-> n,
     min    |-> samples[1],
     median |-> samples[MedianAt(n) + 1],
     p90    |-> samples[P90At(n) + 1],
     total  |-> SumOfFirst(samples)[Keep(n)]]

\* summarize, of at least one sample.
Summary(samples) ==
    LET n == Len(samples)
        s == Ascending(samples)
    IN  [n      |-> n,
         min    |-> s[1],
         median |-> s[MedianAt(n) + 1],
         p90    |-> s[P90At(n) + 1],
         total  |-> SumOfFirst(s)[Keep(n)]]

\* Mutant: the first pass decides.
MedianTwiceOfFirst(s) == 2 * s[1]

\* Twice the median of at least one value: the middle one, or the mean of the
\* two in the middle.
MedianTwice(s) ==
    LET n == Len(s)
        a == Ascending(s)
    IN  a[(n + 1) \div 2] + a[n \div 2 + 1]
=============================================================================
