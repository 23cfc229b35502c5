------------------------------- MODULE Regression -------------------------------
(***************************************************************************)
(* A comparison as the kit's parts make it: rounds of a candidate and a    *)
(* reference in the order of balancedSchedule, each measured once a round, *)
(* then the statistics and the guards over them.  CPU profiles are         *)
(* collected next to it.                                                   *)
(***************************************************************************)
EXTENDS Statistics

CONSTANTS
    MaxRounds,      \* bound: rounds of a schedule, and profiles
    Values          \* what a run may measure, if it measures anything

ASSUME RegressionAssumption == MaxRounds \in Nat /\ Values \subseteq Nat \ {0}

VARIABLES
    plan,           \* the schedule
    runs,           \* the values measured so far, in the order of the plan
    cpuProfiles     \* the profiles collected

regressionVars == <<plan, runs, cpuProfiles>>
--------------------------------------------------------------------------------
\* Mutant: the candidate goes first in every round.
CandidateFirst(rounds) == [i \in 1 .. rounds |-> <<"candidate", "reference">>]

\* balancedSchedule, of an even number of rounds; an odd one throws.
BalancedSchedule(rounds) ==
    [i \in 1 .. rounds |-> IF i % 2 = 1 THEN <<"candidate", "reference">>
                                        ELSE <<"reference", "candidate">>]

\* relativeMetricGuard, for one rule; its boundary a hundred times over.
Boundary(rule) ==
    LET allowed == rule.reference * rule.maxRegressionPct + 100 * rule.absoluteSlack
    IN  100 * rule.reference + IF rule.direction = "higher" THEN -allowed ELSE allowed

RelativeFailures(rule) ==
    LET known == rule.candidate # NotFinite /\ rule.reference # NotFinite
    IN  {f \in {"candidate", "reference", "boundary"} :
            \/ f = "candidate" /\ rule.candidate = NotFinite
            \/ f = "reference" /\ rule.reference = NotFinite
            \/ f = "boundary" /\ known /\ Better(rule.direction, Boundary(rule), 100 * rule.candidate)}

\* metricGuard.  A bound that is not set is NotFinite, as is a missing value.
ValueFailures(value, bound) ==
    {f \in {"missing value", "<", ">"} :
        \/ f = "missing value" /\ value = NotFinite
        \/ f = "<" /\ value # NotFinite /\ bound.min # NotFinite /\ value < bound.min
        \/ f = ">" /\ value # NotFinite /\ bound.max # NotFinite /\ value > bound.max}

MetricGuard(cases, results, baseline) ==
    LET known == cases \cap DOMAIN baseline
    IN  [rows |-> [c \in known |-> IF ValueFailures(results[c], baseline[c]) = {} THEN "ok" ELSE "FAIL"],
         failures |-> {<<c, "missing baseline">> : c \in cases \ known}
                      \cup UNION {{c} \X ValueFailures(results[c], baseline[c]) : c \in known}]

\* cpuGuard, with a guard; without one it has no failures.
ProfileFailures(profile, guard) ==
    {f \in {"missing", "no ticks", "ticks", "gc", "unaccounted"} :
        IF ~profile.parsed THEN f = "missing"
        ELSE \/ f = "no ticks" /\ profile.ticks = NotFinite
             \/ f = "ticks" /\ profile.ticks \in 0 .. guard.minTotalTicks - 1
             \/ f = "gc" /\ guard.maxGcPct # NotFinite /\ profile.gcPct > guard.maxGcPct
             \/ f = "unaccounted" /\ guard.maxUnaccountedPct # NotFinite
                    /\ profile.unaccountedPct > guard.maxUnaccountedPct}

CpuGuard(profiles, guard, expectedKeys) ==
    LET collected == {profiles[i].key : i \in DOMAIN profiles}
        expected == IF guard.profileRequired THEN expectedKeys ELSE {}
    IN  (UNION {{profiles[i].key} \X ProfileFailures(profiles[i], guard) : i \in DOMAIN profiles})
        \cup ((expected \ collected) \X {"missing"})

\* renderRegressionMarkdown: the result it states.
Passed(metricFailures, cpuFailures, failures) == metricFailures \cup cpuFailures \cup failures = {}
--------------------------------------------------------------------------------
Key == {"first", "second"}
Profile == [key : Key, parsed : {FALSE}, ticks : {0}, gcPct : {0}, unaccountedPct : {0}]
           \cup [key : Key, parsed : {TRUE}, ticks : {NotFinite, 5, 20},
                 gcPct : {NotFinite, 10, 60}, unaccountedPct : {NotFinite, 60}]

RegressionInit ==
    /\ plan \in {BalancedSchedule(n) : n \in {r \in 1 .. MaxRounds : r % 2 = 0}}
    /\ runs = <<>> /\ cpuProfiles = <<>>

Measure ==
    /\ Len(runs) < 2 * Len(plan) /\ cpuProfiles = <<>>
    /\ \E v \in Values \cup {NotFinite} : runs' = Append(runs, v)
    /\ UNCHANGED <<plan, cpuProfiles>>

CollectProfile ==
    /\ Len(cpuProfiles) < 2 /\ runs = <<>>
    /\ \E profile \in Profile : cpuProfiles' = Append(cpuProfiles, profile)
    /\ UNCHANGED <<plan, runs>>

RegressionNext == Measure \/ CollectProfile

RegressionSpec == RegressionInit /\ [][RegressionNext]_regressionVars
--------------------------------------------------------------------------------
\* Whose run the t-th is, and what the finished rounds measured of one.
Label(t) == plan[(t + 1) \div 2][IF t % 2 = 1 THEN 1 ELSE 2]

Measured(label) ==
    [i \in 1 .. Len(runs) \div 2 |-> runs[IF Label(2 * i) = label THEN 2 * i ELSE 2 * i - 1]]

Pairs(one, other) ==
    [i \in 1 .. Len(runs) \div 2 |->
        [candidate |-> Measured(one)[i], reference |-> Measured(other)[i]]]

Share(values, v) == 1000 * Cardinality({i \in DOMAIN values : values[i] \in 0 .. v})

DistributionExact(measured) ==
    LET values == Finite(measured)
        n == Len(values)
        d == Distribution(measured)
    IN  values # <<>> =>
        /\ d.median = QuantileLinear(values, 2)
        /\ Cardinality({i \in 1 .. n : 4 * values[i] < d.median}) * 2 <= n
        /\ Cardinality({i \in 1 .. n : 4 * values[i] > d.median}) * 2 <= n
        /\ QuantileLinear(values, 0) <= d.q1 /\ d.q1 <= d.median
        /\ d.median <= d.q3 /\ d.q3 <= QuantileLinear(values, 4)

NearestRankExact(measured, fraction) ==
    LET values == Finite(measured)
        v == QuantileNearestRank(measured, fraction)
    IN  values # <<>> =>
        /\ Share(values, v) >= Len(values) * fraction
        /\ Share(values, v - 1) < Len(values) * fraction

ComparisonExact ==
    LET ours == PairedComparison(Pairs("candidate", "reference"), "higher")
        theirs == PairedComparison(Pairs("reference", "candidate"), "higher")
        losing == PairedComparison(Pairs("candidate", "reference"), "lower")
    IN  /\ ours.winningPairs = Cardinality({i \in DOMAIN ours.deltas : ours.deltas[i] > 0})
        /\ theirs.winningPairs = losing.winningPairs
        /\ ours.iqr.q1 <= ours.medianDelta /\ ours.medianDelta <= ours.iqr.q3
        /\ ours.winningPairs = Len(ours.deltas) =>
            ours.medianDelta > 0 /\ ours.medianCandidate > ours.medianReference

\* The statistics of a comparison agree with each other and with the data: the
\* median is the half quantile and has no more than half of the values on either
\* side, quartiles and hinges enclose it, a nearest rank is the least value that
\* enough values do not exceed, and a round is won exactly if its delta is on
\* the better side, so trading places turns wins into losses.
StatisticsExact ==
    /\ \A label \in {"candidate", "reference"} :
        /\ DistributionExact(Measured(label))
        /\ \A f \in {500, 950, 975, 990} : NearestRankExact(Measured(label), f)
    /\ Len(runs) >= 4 /\ NotFinite \notin ToSet(runs) => ComparisonExact

Summarized(label) ==
    IF Finite(Measured(label)) = <<>> THEN NotFinite
    ELSE QuantileNearestRank(Measured(label), 500)

Rule == [candidate : {Summarized("candidate")}, reference : {Summarized("reference")},
         direction : {"higher", "lower"}, maxRegressionPct : {0, 50}, absoluteSlack : {0, 1}]

Guard == [profileRequired : {TRUE}, minTotalTicks : {NotFinite, 10},
          maxGcPct : {NotFinite, 30}, maxUnaccountedPct : {50}]

\* The places in time that one side's runs had.
Places(label) == [t \in 1 .. Len(runs) |-> IF Label(t) = label THEN t ELSE 0]

ScheduleFair ==
    Len(runs) = 2 * Len(plan) => Summed(Places("candidate")) = Summed(Places("reference"))

RelativeSound(rule) ==
    LET failures == RelativeFailures(rule)
    IN  IF NotFinite \in {rule.candidate, rule.reference} THEN failures # {}
        ELSE /\ ~Better(rule.direction, rule.reference, rule.candidate) => failures = {}
             /\ failures = {} => \A v \in Values :
                    Better(rule.direction, v, rule.candidate) =>
                        RelativeFailures([rule EXCEPT !.candidate = v]) = {}

\* With a baseline of the candidate alone.
MetricSound(bound) ==
    LET cases == {"candidate", "reference"}
        results == [c \in cases |-> Summarized(c)]
        guard == MetricGuard(cases, results, [c \in {"candidate"} |-> bound])
    IN  /\ <<"reference", "missing baseline">> \in guard.failures
        /\ (guard.rows["candidate"] = "ok") =
              Passed({f \in guard.failures : f[1] = "candidate"}, {}, {})
        /\ guard.rows["candidate"] = "ok" => results["candidate"] # NotFinite

CpuSound(guard) ==
    LET failures == CpuGuard(cpuProfiles, guard, Key)
    IN  \A key \in Key :
        LET own == {i \in DOMAIN cpuProfiles : cpuProfiles[i].key = key}
        IN  /\ (\A i \in own : ~cpuProfiles[i].parsed) => <<key, "missing">> \in failures
            /\ Passed({}, failures, {}) => \A i \in own : cpuProfiles[i].ticks # NotFinite

\* A verdict can be trusted.  The schedule gives no side an advantage: after all
\* its rounds both had the same sum of places in time, so a machine that grows
\* slower at a steady pace does not decide.  No guard passes what was not
\* measured; a candidate as good as its reference passes, and none that passes
\* would fail by being better.  A profile that is required and was not parsed
\* fails its key, whatever was collected besides.
VerdictSound ==
    /\ ScheduleFair
    /\ Len(runs) >= 2 =>
        /\ \A rule \in Rule : RelativeSound(rule)
        /\ \A bound \in [min : {NotFinite, 2}, max : {NotFinite, 3}] : MetricSound(bound)
    /\ \A guard \in Guard : CpuSound(guard)
================================================================================
