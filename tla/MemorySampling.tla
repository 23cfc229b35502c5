------------------------------ MODULE MemorySampling ------------------------------
(***************************************************************************)
(* Samplers of one process: Metrics, started and stopped by its user again *)
(* and again, measureBatch, whose ProcessMemorySampler runs while the      *)
(* measured callback does, and measureMemoryGrowth.  The first two keep a  *)
(* ProcessMemoryPeakTracker fed by a timer of their own; memory and load   *)
(* change under them.                                                      *)
(***************************************************************************)
EXTENDS Samples, FiniteSetsExt

CONSTANTS
    MaxLevel,       \* bound: the greatest memory usage and load
    MaxSeen,        \* bound: samples of an interval
    Warmups,        \* warmup, of measureMemoryGrowth
    Iterations,     \* iterations
    Cycles          \* cycles: as many as it takes to collect all garbage

ASSUME SamplingAssumption ==
    /\ MaxLevel \in Nat /\ MaxSeen \in Nat
    /\ Warmups \in Nat /\ Iterations \in Nat \ {0} /\ Cycles \in Nat \ {0}

VARIABLES
    usage,          \* process.memoryUsage(), a level for each key
    load,           \* os.loadavg()
    metrics,        \* the Metrics collector
    metricsSeen,    \* what it saw in its interval: <<usage, load>>, in order
    summary,        \* what stop() returned, until the next start(), and what was seen
    batch,          \* the call of measureBatch
    batchSeen,      \* the memory usages its sampler saw
    growth          \* the call of measureMemoryGrowth

samplingVars == <<usage, load, metrics, metricsSeen, summary, batch, batchSeen, growth>>
--------------------------------------------------------------------------------
MemoryKey == {"rss", "heapUsed"}
Level == 0 .. MaxLevel
Null == <<>>

Higher(f, g) == [k \in MemoryKey |-> IF f[k] < g[k] THEN g[k] ELSE f[k]]

\* ProcessMemoryPeakTracker.
Tracked(u) == [start |-> u, peak |-> u]
Sampled(tracker, u) == [tracker EXCEPT !.peak = Higher(@, u)]
Interval(tracker, u) ==
    [start |-> tracker.start, end |-> u, peak |-> Sampled(tracker, u).peak,
     delta |-> [k \in MemoryKey |-> u[k] - tracker.start[k]]]

\* ProcessMemorySampler: the fields of its owner while it runs and after.
SamplerStart(owner) == [owner EXCEPT !.timer = TRUE, !.memory = Tracked(usage)]
SamplerStop(owner) ==
    [owner EXCEPT !.timer = FALSE, !.memory = Null, !.processMemory = Interval(owner.memory, usage)]

\* What an interval is by its samples.
IntervalOf(seen) ==
    [start |-> Head(seen), end |-> Last(seen),
     peak |-> [k \in MemoryKey |-> Max({u[k] : u \in ToSet(seen)})],
     delta |-> [k \in MemoryKey |-> Last(seen)[k] - Head(seen)[k]]]
--------------------------------------------------------------------------------
\* Mutant: the load of the last interval is kept.
MetricsStartKeepsLoad ==
    /\ ~metrics.running
    /\ metrics' = [metrics EXCEPT !.running = TRUE, !.timer = TRUE, !.memory = Tracked(usage)]
    /\ metricsSeen' = <<<<usage, load>>>> /\ summary' = Null
    /\ UNCHANGED <<usage, load, batch, batchSeen, growth>>

\* start(); of a running collector, nothing.
MetricsStart ==
    /\ ~metrics.running
    /\ metrics' = [running |-> TRUE, timer |-> TRUE, memory |-> Tracked(usage),
                   loadSum |-> 0, loadPeak |-> 0, samples |-> 0]
    /\ metricsSeen' = <<<<usage, load>>>> /\ summary' = Null
    /\ UNCHANGED <<usage, load, batch, batchSeen, growth>>

WithLoad(m) ==
    [m EXCEPT !.loadSum = @ + load, !.loadPeak = IF @ < load THEN load ELSE @, !.samples = @ + 1]

\* The timer: #sample.
MetricsSample ==
    /\ metrics.timer /\ Len(metricsSeen) < MaxSeen
    /\ metrics' = WithLoad([metrics EXCEPT !.memory = Sampled(@, usage)])
    /\ metricsSeen' = Append(metricsSeen, <<usage, load>>)
    /\ UNCHANGED <<usage, load, summary, batch, batchSeen, growth>>

\* stop(); of a collector that does not run, null.
MetricsStop ==
    /\ metrics.running
    /\ LET last == WithLoad(metrics)
           seen == Append(metricsSeen, <<usage, load>>)
       IN  /\ metrics' = [last EXCEPT !.running = FALSE, !.timer = FALSE, !.memory = Null]
           /\ summary' = <<[memory |-> Interval(metrics.memory, usage), loadSum |-> last.loadSum,
                            loadPeak |-> last.loadPeak, samples |-> last.samples], seen>>
    /\ metricsSeen' = <<>>
    /\ UNCHANGED <<usage, load, batch, batchSeen, growth>>
--------------------------------------------------------------------------------
\* measureBatch, called with or without memorySampleMs: `before` is awaited,
\* then the sampler starts, and `run` is called.
BatchCall ==
    /\ batch.pc = "idle"
    /\ \E sampled \in BOOLEAN : batch' = [batch EXCEPT !.pc = "before", !.sampled = sampled]
    /\ UNCHANGED <<usage, load, metrics, metricsSeen, summary, batchSeen, growth>>

BeforeSettles ==
    /\ batch.pc = "before"
    /\ \/ /\ batch' = [IF batch.sampled THEN SamplerStart(batch) ELSE batch
                         EXCEPT !.pc = "run", !.before = usage]
          /\ batchSeen' = <<usage>>
       \/ batch' = [batch EXCEPT !.pc = "thrown"] /\ UNCHANGED batchSeen
    /\ UNCHANGED <<usage, load, metrics, metricsSeen, summary, growth>>

BatchSample ==
    /\ batch.timer /\ Len(batchSeen) < MaxSeen
    /\ batch' = [batch EXCEPT !.memory = Sampled(@, usage)]
    /\ batchSeen' = Append(batchSeen, usage)
    /\ UNCHANGED <<usage, load, metrics, metricsSeen, summary, growth>>

\* `run` is fulfilled or rejected; the sampler is stopped either way.
RunSettles ==
    /\ batch.pc = "run"
    /\ \E pc \in {"returned", "thrown"} :
        batch' = [IF batch.sampled THEN SamplerStop(batch) ELSE batch EXCEPT !.pc = pc,
                      !.memoryDelta = [k \in MemoryKey |-> usage[k] - batch.before[k]]]
    /\ batchSeen' = Append(batchSeen, usage)
    /\ UNCHANGED <<usage, load, metrics, metricsSeen, summary, growth>>
--------------------------------------------------------------------------------
\* measureMemoryGrowth: a call of `run` leaves memory in use and garbage behind.
GrowthRun ==
    /\ growth.pc = "run"
    /\ \E kept \in Level, dropped \in 0 .. Cycles :
        LET last == growth.calls + 1 \in {Warmups, Warmups + Iterations}
        IN  growth' = [growth EXCEPT !.calls = @ + 1, !.retained = @ + kept,
                !.measured = IF growth.calls < Warmups THEN @ ELSE @ + kept,
                !.garbage = IF dropped > @ THEN dropped ELSE @,
                !.pc = IF last THEN "gc" ELSE "run"]
    /\ UNCHANGED <<usage, load, metrics, metricsSeen, summary, batch, batchSeen>>

GrowthRunFails ==
    /\ growth.pc = "run" /\ growth' = [growth EXCEPT !.pc = "thrown"]
    /\ UNCHANGED <<usage, load, metrics, metricsSeen, summary, batch, batchSeen>>

\* A cycle of forceGc, which frees what the one before made collectable.
GcCycle ==
    /\ growth.pc = "gc" /\ growth.cycle < Cycles
    /\ growth' = [growth EXCEPT !.cycle = @ + 1, !.garbage = IF @ = 0 THEN 0 ELSE @ - 1]
    /\ UNCHANGED <<usage, load, metrics, metricsSeen, summary, batch, batchSeen>>

\* The snapshot after forceGc: the first before the measured calls.
GrowthSnapshot ==
    /\ growth.pc = "gc" /\ growth.cycle = Cycles
    /\ LET now == growth.retained + growth.garbage
       IN  growth' = IF growth.calls = Warmups
            THEN [growth EXCEPT !.start = now, !.cycle = 0, !.pc = "run"]
            ELSE [growth EXCEPT !.delta = now - growth.start, !.pc = "returned"]
    /\ UNCHANGED <<usage, load, metrics, metricsSeen, summary, batch, batchSeen>>
--------------------------------------------------------------------------------
\* The process allocates and frees, and the host is more or less busy.
Changes ==
    /\ \E key \in MemoryKey, level \in Level : usage' = [usage EXCEPT ![key] = level]
    /\ load' \in Level
    /\ UNCHANGED <<metrics, metricsSeen, summary, batch, batchSeen, growth>>

SamplingInit ==
    /\ usage = [k \in MemoryKey |-> 0] /\ load = 0
    /\ metrics = [running |-> FALSE, timer |-> FALSE, memory |-> Null,
                  loadSum |-> 0, loadPeak |-> 0, samples |-> 0]
    /\ metricsSeen = <<>> /\ summary = Null /\ batchSeen = <<>>
    /\ batch = [pc |-> "idle", sampled |-> FALSE, timer |-> FALSE, memory |-> Null,
                before |-> Null, processMemory |-> Null, memoryDelta |-> Null]
    /\ growth = [pc |-> IF Warmups = 0 THEN "gc" ELSE "run", calls |-> 0, cycle |-> 0, start |-> 0,
                 retained |-> 0, garbage |-> 0, measured |-> 0, delta |-> 0]

\* They share nothing but the process: a behaviour uses one.
SamplingNext ==
    \/ batch.pc = "idle" /\ growth.calls = 0
        /\ (MetricsStart \/ MetricsSample \/ MetricsStop)
    \/ metricsSeen = <<>> /\ summary = Null /\ growth.calls = 0
        /\ (BatchCall \/ BeforeSettles \/ BatchSample \/ RunSettles)
    \/ load = 0 /\ metricsSeen = <<>> /\ summary = Null /\ batch.pc = "idle"
        /\ (GrowthRun \/ GrowthRunFails \/ GcCycle \/ GrowthSnapshot)
    \/ growth.calls = 0 /\ Changes

SamplingSpec == SamplingInit /\ [][SamplingNext]_samplingVars
--------------------------------------------------------------------------------
\* The summary of Metrics is what was seen from start() to stop(): the load is
\* that of the samples after the first.
SummaryExact(interval, seen) ==
    LET loads == [i \in 1 .. Len(seen) - 1 |-> seen[i + 1][2]]
    IN  /\ interval.memory = IntervalOf([i \in DOMAIN seen |-> seen[i][1]])
        /\ interval.loadSum = Summed(loads)
        /\ interval.loadPeak = Max(ToSet(loads))
        /\ interval.samples = Len(loads)

MetricsExact ==
    /\ metrics.timer = metrics.running
    /\ summary # Null => SummaryExact(summary[1], summary[2])

\* A timer of a batch samples only while `run` does.
BatchExact ==
    /\ batch.timer => batch.pc = "run"
    /\ batch.pc = "returned" =>
        /\ batch.sampled => batch.processMemory = IntervalOf(batchSeen)
        /\ batch.memoryDelta = IntervalOf(batchSeen).delta

GrowthExact == growth.pc = "returned" => growth.delta = growth.measured

\* A summary is that of its own interval: it starts and ends with the usage at
\* start() and stop(), its peaks are the greatest of its samples, key by key,
\* and its load is that of the samples after start(), with nothing of an earlier
\* interval.  A timer samples only while its
\* sampler runs, and a batch that has settled, even by an error, has none.  The
\* growth is what the measured calls kept, without the warmup and the garbage.
IntervalsExact == MetricsExact /\ BatchExact /\ GrowthExact
================================================================================
