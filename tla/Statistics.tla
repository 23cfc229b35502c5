------------------------------- MODULE Statistics -------------------------------
(***************************************************************************)
(* statistics/: medians, quantiles, hinges and the paired comparison.      *)
(* Measurements are whole numbers, NotFinite stands for null, undefined,   *)
(* NaN and infinities.  A median is given twice over and a quantile four   *)
(* times, so they are whole numbers too.                                   *)
(***************************************************************************)
EXTENDS Samples

NotFinite == -1

\* The finite values of a sequence, in order.
Kept(kept, v) == IF v = NotFinite THEN kept ELSE Append(kept, v)
Finite(values) == FoldLeft(Kept, <<>>, values)

\* Mutant: the middle of an even number of values is the upper one.
MedianUpper(values) == 2 * Ascending(values)[Len(values) \div 2 + 1]

\* Twice the median.
Median(values) ==
    LET a == Ascending(values)
        mid == Len(a) \div 2
    IN  IF Len(a) % 2 = 1 THEN 2 * a[mid + 1] ELSE a[mid] + a[mid + 1]

\* Four times the quantile of a fraction given in quarters.
QuantileLinear(values, quarters) ==
    LET sorted == Ascending(Finite(values))
        index == (Len(sorted) - 1) * quarters
        lower == sorted[index \div 4 + 1]
        upper == sorted[(index + 3) \div 4 + 1]
    IN  4 * lower + (upper - lower) * (index % 4)

\* The fraction is in thousandths.
QuantileNearestRank(values, fraction) ==
    LET sorted == Ascending(Finite(values))
        rank == (Len(sorted) * fraction + 999) \div 1000
    IN  sorted[IF rank = 0 THEN 1 ELSE rank]

\* Four times q1, median and q3 of distribution().
Distribution(values) ==
    [q1 |-> QuantileLinear(values, 1), median |-> 2 * Median(Finite(values)),
     q3 |-> QuantileLinear(values, 3)]

\* Twice the hinges: the medians of the halves, without the middle value.
TukeyHinges(values) ==
    LET n == Len(values)
    IN  [q1 |-> Median(SubSeq(Ascending(values), 1, n \div 2)),
         q3 |-> Median(SubSeq(Ascending(values), (n + 1) \div 2 + 1, n))]

\* In percent of a reference that is not zero, `scale` times, to be exact.
PercentDelta(candidate, reference, scale) ==
    100 * (candidate - reference) * (scale \div reference)

Better(direction, a, b) == IF direction = "higher" THEN a > b ELSE a < b

\* Of two or more pairs of finite values, no reference zero; others throw.
PairedComparison(pairs, direction) ==
    LET candidates == [i \in DOMAIN pairs |-> pairs[i].candidate]
        references == [i \in DOMAIN pairs |-> pairs[i].reference]
        deltas == [i \in DOMAIN pairs |->
                      PercentDelta(candidates[i], references[i], Product(references))]
    IN  [medianCandidate |-> Median(candidates), medianReference |-> Median(references),
         deltas |-> deltas, medianDelta |-> Median(deltas), iqr |-> TukeyHinges(deltas),
         winningPairs |-> Cardinality({i \in DOMAIN pairs :
             Better(direction, pairs[i].candidate, pairs[i].reference)})]
================================================================================
