---------------------------- MODULE LatencyHistogram ----------------------------
(***************************************************************************)
(* BoundedLatencyRecorder: a logarithmic histogram of latencies that can   *)
(* be merged.  Latencies are whole numbers, relativeAccuracy is 1/2, so    *)
(* the base of the buckets, 1 + 2 * relativeAccuracy, is 2.                *)
(***************************************************************************)
EXTENDS Integers, Sequences, Functions

CONSTANTS
    Lowest,     \* lowestDiscernibleMs
    Highest     \* highestTrackableMs

\* validateConfig; an even Lowest makes every midpoint a whole number.
ASSUME LatencyAssumption ==
    Lowest \in Nat \ {0} /\ Lowest % 2 = 0 /\ Highest \in Nat /\ Highest >= Lowest

NonFinite == -1     \* a latency that is NaN or infinite
None == -1          \* null
Lower[i \in Nat] == IF i = 0 THEN Lowest ELSE 2 * Lower[i - 1]
Less(a, b) == IF a < b THEN a ELSE b

Buckets == 0 .. CHOOSE n \in 0 .. Highest :
    Lower[n] >= Highest /\ \A m \in 0 .. n - 1 : Lower[m] < Highest

EmptyHistogram == [counts |-> [i \in Buckets |-> 0], zeroCount |-> 0, count |-> 0,
                   nonFinite |-> 0, belowRange |-> 0, aboveRange |-> 0]

BucketOf(ms) == CHOOSE i \in Buckets :
    Lower[i] <= ms /\ (ms < Lower[i + 1] \/ i + 1 \notin Buckets)

Record(h, ms) ==
    CASE ms = NonFinite -> [h EXCEPT !.nonFinite = @ + 1]
      [] ms = 0         -> [h EXCEPT !.zeroCount = @ + 1, !.count = @ + 1]
      [] ms \in 1 .. Lowest - 1 -> [h EXCEPT !.belowRange = @ + 1]
      [] ms > Highest   -> [h EXCEPT !.aboveRange = @ + 1]
      [] OTHER          -> [h EXCEPT !.counts[BucketOf(ms)] = @ + 1, !.count = @ + 1]

\* Observations in the buckets up to i, those of zero included.
Cumulative(h, i) == h.zeroCount + FoldFunction(+, 0, Restrict(h.counts, 0 .. i))

\* validateSnapshot: a merge throws on a snapshot that is not.
Valid(h) == h.count = h.zeroCount + FoldFunction(+, 0, h.counts)

\* Mutant: the exact zeros of a snapshot are counted but not merged.
MergeForgetsZeros(h, s) ==
    [h EXCEPT !.counts = [i \in Buckets |-> @[i] + s.counts[i]], !.count = @ + s.count,
              !.nonFinite = @ + s.nonFinite, !.belowRange = @ + s.belowRange,
              !.aboveRange = @ + s.aboveRange]

Merge(h, s) ==
    [counts |-> [i \in Buckets |-> h.counts[i] + s.counts[i]],
     zeroCount |-> h.zeroCount + s.zeroCount, count |-> h.count + s.count,
     nonFinite |-> h.nonFinite + s.nonFinite, belowRange |-> h.belowRange + s.belowRange,
     aboveRange |-> h.aboveRange + s.aboveRange]

Midpoint(i) == Less(Highest, Lower[i] + Lower[i] \div 2)

\* The nearest rank of a fraction given in thousandths: 500, 950, 975, 990.
Rank(n, fraction) == IF n * fraction = 0 THEN 1 ELSE (n * fraction + 999) \div 1000

Quantile(h, fraction) ==
    LET rank == Rank(h.count, fraction)
    IN  IF h.count = 0 THEN None
        ELSE IF rank <= h.zeroCount THEN 0
        ELSE IF \A i \in Buckets : Cumulative(h, i) < rank THEN Highest
        ELSE Midpoint(CHOOSE i \in Buckets :
                Cumulative(h, i) >= rank /\ \A j \in 0 .. i - 1 : Cumulative(h, j) < rank)

\* #average, times the count.
Total(h) == FoldFunction(+, 0, [i \in Buckets |-> Midpoint(i) * h.counts[i]])

Summary(h) ==
    [count |-> h.count, dropped |-> h.nonFinite + h.belowRange + h.aboveRange,
     outOfRange |-> h.belowRange + h.aboveRange, total |-> Total(h),
     quantile |-> [fraction \in {500, 950, 975, 990} |-> Quantile(h, fraction)]]
================================================================================
