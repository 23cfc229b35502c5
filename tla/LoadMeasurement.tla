----------------------------- MODULE LoadMeasurement -----------------------------
(***************************************************************************)
(* What load workers measure and what is made of it: LoadWorkerMeasurement *)
(* with its HTTP/1 subclass, in every worker, and at the end of a run      *)
(* aggregateLoadPhase and the aggregateResult of runHttp1Load and          *)
(* runWebSocketLoad.  A metric is an entry of a function, and a record*    *)
(* method adds to some.                                                    *)
(***************************************************************************)
EXTENDS LatencyHistogram, FiniteSets, FiniteSetsExt, SequencesExt

CONSTANTS
    Workers,
    Events,         \* of either protocol: what may happen to a worker
    MaxRecords      \* bound: events of a phase; a warmup has one

ASSUME MeasurementAssumption == IsFiniteSet(Workers) /\ Workers # {} /\ MaxRecords \in Nat

VARIABLES
    protocol,       \* "http1" or "websocket"
    step,           \* the workers' phase: "idle", "warmup", "measurement", "finished"
    measurement,    \* of each worker
    result,         \* of each worker: what it posted
    log             \* of each worker: what happened in its present phase

measurementVars == <<protocol, step, measurement, result, log>>
--------------------------------------------------------------------------------
Sums == {"sent", "completed", "bytesSent", "bytesReceived", "sendCalls", "backpressureEvents",
         "backpressureWaitMs", "rateDropped", "scheduleLagTotalMs", "scheduledOperations",
         "connection", "timeout", "protocol", "aborted", "non2xx"}
Errors == {"connection", "timeout", "protocol", "aborted"}
Maxima == {"bufferedAmountPeakBytes", "maxScheduleLagMs"}
MemoryKeys == {"heapUsed", "external", "arrayBuffers"}

Greatest(f, g) == [k \in DOMAIN f |-> IF f[k] < g[k] THEN g[k] ELSE f[k]]

\* The metrics named by a record, raised by its values.
Add(m, amounts) ==
    [m EXCEPT !.sums = [k \in Sums |-> IF k \in DOMAIN amounts THEN @[k] + amounts[k] ELSE @[k]]]

Raise(m, key, value) == [m EXCEPT !.maxima[key] = IF @ < value THEN value ELSE @]

RecordCompleted(m, ms, bytes) ==
    [Add(m, [completed |-> 1, bytesReceived |-> bytes]) EXCEPT !.latency = Record(@, ms)]

RecordSent(m, n, bytes, calls) ==
    Add(m, [sent |-> n, bytesSent |-> bytes, sendCalls |-> calls])

RecordScheduleLag(m, ms) ==
    Raise(Add(m, [scheduleLagTotalMs |-> ms, scheduledOperations |-> 1]), "maxScheduleLagMs", ms)

RecordResponse(m, status, ms) ==
    RecordCompleted(
        [Add(m, [non2xx |-> IF status \in 200 .. 299 THEN 0 ELSE 1])
            EXCEPT !.statusCodeCounts[status] = @ + 1], ms, 0)

\* The tracker's sample().
SampleMemory(m, usage) == [m EXCEPT !.memory = Greatest(@, usage)]

\* What the connections and timers of a worker can have recorded.
Apply(m, e) ==
    CASE e.op = "response"  -> RecordResponse(m, e.status, e.ms)
      [] e.op = "message"   -> RecordCompleted(m, e.ms, e.bytes)
      [] e.op = "requests"  -> RecordSent(m, e.n, e.bytes, 0)
      [] e.op = "send"      -> RecordSent(m, 1, e.bytes, 1)
      [] e.op = "write"     -> Add(m, [sendCalls |-> 1])
      [] e.op = "bytes"     -> Add(m, [bytesReceived |-> e.n])
      [] e.op = "buffered"  -> Raise(m, "bufferedAmountPeakBytes", e.n)
      [] e.op = "connection" -> Add(m, [connection |-> 1])
      [] e.op = "timeout"   -> Add(m, [timeout |-> 1])
      [] e.op = "protocol"  -> Add(m, [protocol |-> 1])
      [] e.op = "aborted"   -> Add(m, [aborted |-> e.n])
      [] e.op = "backpressure" -> Add(m, [backpressureEvents |-> 1])
      [] e.op = "wait"      -> Add(m, [backpressureWaitMs |-> e.ms])
      [] e.op = "dropped"   -> Add(m, [rateDropped |-> e.n])
      [] e.op = "lag"       -> RecordScheduleLag(m, e.ms)
      [] e.op = "memory"    -> SampleMemory(m, e.usage)

\* #reset and resetProtocolMetrics.
Reset(m) ==
    [m EXCEPT !.sums = [k \in Sums |-> IF k = "non2xx" THEN @[k] ELSE 0],
              !.maxima = [k \in Maxima |-> 0], !.latency = EmptyHistogram]

ResetProtocolMetrics(m) ==
    [m EXCEPT !.sums.non2xx = 0, !.statusCodeCounts = [s \in DOMAIN @ |-> 0]]

Start(m, usage) == [ResetProtocolMetrics(Reset(m)) EXCEPT !.memory = usage]

StatusCode == {200, 304}
Unused == [sums |-> [k \in Sums |-> 0], maxima |-> [k \in Maxima |-> 0],
           latency |-> EmptyHistogram, statusCodeCounts |-> [s \in StatusCode |-> 0],
           memory |-> [k \in MemoryKeys |-> 0]]

\* The HTTP/1 part of a result: the status codes that occurred.
StatusCodes(m) ==
    Restrict(m.statusCodeCounts, {s \in StatusCode : m.statusCodeCounts[s] > 0})

Finish(m, usage, elu, inFlight) ==
    [sums |-> m.sums, maxima |-> m.maxima, latency |-> m.latency, statusCodes |-> StatusCodes(m),
     memory |-> SampleMemory(m, usage).memory, eluPct |-> elu, inFlightAtStop |-> inFlight]
--------------------------------------------------------------------------------
\* aggregateLoadPhase.
SumOver(values) == FoldFunction(+, 0, values)
MaxOver(values) == FoldFunction(LAMBDA a, b : IF a < b THEN b ELSE a, 0, values)

Quotient(a, b) == IF b = 0 THEN <<>> ELSE <<a, b>>

Merged(results) == FoldFunction(LAMBDA r, h : Merge(h, r.latency), EmptyHistogram, results)

Aggregate(results) ==
    LET sums == [k \in Sums |-> SumOver([w \in Workers |-> results[w].sums[k]])]
        elu  == [w \in Workers |-> results[w].eluPct]
    IN  [sums |-> sums, latency |-> Merged(results),
         maxima |-> [k \in Maxima |-> MaxOver([w \in Workers |-> results[w].maxima[k]])],
         totalErrors |-> SumOver(Restrict(sums, Errors)),
         meanScheduleLag |-> Quotient(sums.scheduleLagTotalMs, sums.scheduledOperations),
         memory |-> [k \in MemoryKeys |-> SumOver([w \in Workers |-> results[w].memory[k]])],
         inFlightAtStop |-> SumOver([w \in Workers |-> results[w].inFlightAtStop]),
         meanWorkerElu |-> Quotient(SumOver(elu), Cardinality(Workers)),
         saturated |-> MaxOver(elu) >= 95]

\* What runHttp1Load and runWebSocketLoad add to it.
Http1Result(results) ==
    LET codes == UNION {DOMAIN results[w].statusCodes : w \in Workers}
    IN  [statusCodes |-> [s \in codes |-> SumOver([w \in Workers |->
             IF s \in DOMAIN results[w].statusCodes THEN results[w].statusCodes[s] ELSE 0])],
         requestsPerSocketWrite |->
             Quotient(Aggregate(results).sums.sent, Aggregate(results).sums.sendCalls)]

WebSocketResult(results) ==
    LET all == Aggregate(results)
    IN  [received |-> all.sums.completed, payloadBytesReceived |-> all.sums.bytesReceived,
         abortedMessages |-> all.sums.aborted, hasCost |-> all.sums.completed > 0]
--------------------------------------------------------------------------------
\* What a record* method is called with.
Latency == Nat \cup {NonFinite}
Usage == [MemoryKeys -> Nat]

Event(kind) ==
    [op : {"memory"}, usage : Usage] \cup
    IF kind = "http1"
    THEN [op : {"response"}, status : StatusCode, ms : Latency]
         \cup [op : {"requests"}, n : Nat, bytes : Nat]
         \cup [op : {"write", "backpressure", "timeout"}]
         \cup [op : {"bytes"}, n : Nat]
         \cup [op : {"wait"}, ms : Nat]
    ELSE [op : {"message"}, ms : Latency, bytes : Nat]
         \cup [op : {"send"}, bytes : Nat]
         \cup [op : {"connection", "protocol"}]
         \cup [op : {"aborted", "dropped", "buffered"}, n : Nat]
         \cup [op : {"lag"}, ms : Nat]

ASSUME EventAssumption ==
    \A kind \in {"http1", "websocket"} : Events[kind] \subseteq Event(kind)

MemorySample == {e \in Events[protocol] : e.op = "memory"}

MeasurementInit ==
    /\ protocol \in {"http1", "websocket"} /\ step = "idle"
    /\ measurement = [w \in Workers |-> Unused]
    /\ result = [w \in Workers |-> <<>>]
    /\ log = [w \in Workers |-> <<>>]

\* #startPhase, in every worker.  LoadRun is about their order; they share
\* nothing, so here they start and end a phase together.
StartPhase ==
    /\ step = "idle"
    /\ \/ step' = "warmup" /\ \A w \in Workers : log[w] = <<>>
       \/ step' = "measurement"
    /\ \E e \in MemorySample :
        /\ measurement' = [w \in Workers |-> Start(measurement[w], e.usage)]
        /\ log' = [w \in Workers |-> <<e>>]
    /\ UNCHANGED <<protocol, result>>

\* A connection or a timer of a running worker has something recorded.
RecordEvent(w) ==
    /\ step = "warmup" => \A v \in Workers : Len(log[v]) = 1
    /\ step \in {"warmup", "measurement"}
    /\ SumOver([v \in Workers |-> Len(log[v]) - 1]) < MaxRecords
    /\ \E e \in Events[protocol] :
        /\ measurement' = [measurement EXCEPT ![w] = Apply(@, e)]
        /\ log' = [log EXCEPT ![w] = Append(@, e)]
    /\ UNCHANGED <<protocol, step, result>>

\* #endPhase.  What the warmup recorded stays until the next start().
EndPhase ==
    /\ step = "warmup" /\ step' = "idle"
    /\ UNCHANGED <<protocol, measurement, result, log>>

FinishPhase ==
    /\ step = "measurement" /\ step' = "finished"
    /\ \E e \in MemorySample, end \in {<<40, 0>>, <<95, 1>>} :
        /\ result' = [w \in Workers |-> Finish(measurement[w], e.usage, end[1], end[2])]
        /\ log' = [w \in Workers |-> Append(log[w], e)]
    /\ UNCHANGED <<protocol, measurement>>

MeasurementNext ==
    StartPhase \/ EndPhase \/ FinishPhase \/ \E w \in Workers : RecordEvent(w)

MeasurementSpec == MeasurementInit /\ [][MeasurementNext]_measurementVars
--------------------------------------------------------------------------------
\* All that happened to all workers in their last phases, and what a single
\* worker would have measured.
Everything == FoldFunction(LAMBDA events, all : events \o all, <<>>, log)
Replayed(events) == FoldLeft(Apply, Unused, events)

\* The operations with a latency that the histogram keeps.
Accepted(events) ==
    {i \in DOMAIN events : /\ events[i].op \in {"response", "message"}
                           /\ events[i].ms \in {0} \cup Lowest .. Highest}

AtMost(events, v) == Cardinality({i \in Accepted(events) : events[i].ms <= v})

ExactQuantile(events, fraction) ==
    CHOOSE v \in {events[i].ms : i \in Accepted(events)} :
        /\ AtMost(events, v) * 1000 >= Cardinality(Accepted(events)) * fraction
        /\ \/ AtMost(events, v - 1) * 1000 < Cardinality(Accepted(events)) * fraction
           \/ AtMost(events, v - 1) = 0

ExactTotal(events) == SumOver([i \in Accepted(events) |-> events[i].ms])

\* Within the relative accuracy of the histogram.
Near(value, exact) == 2 * (value - exact) \in -exact .. exact

PeakOf(events, key) ==
    Max({e.usage[key] : e \in {events[i] : i \in {j \in DOMAIN events : events[j].op = "memory"}}})

\* Counters, maxima and the histogram lose nothing and count nothing twice on the
\* way through reset, snapshot and merge.
NothingLost ==
    LET run == Aggregate(result)
        all == Replayed(Everything)
    IN  /\ run.sums = all.sums /\ run.maxima = all.maxima /\ run.latency = all.latency
        /\ \A w \in Workers : Valid(result[w].latency)

MemoryAddsUp ==
    Aggregate(result).memory =
        [k \in MemoryKeys |-> SumOver([w \in Workers |-> PeakOf(log[w], k)])]

\* A completed operation has one status and one latency or one rejected latency.
OperationsCounted ==
    LET run == Aggregate(result)
        latency == Summary(run.latency)
        codes == Http1Result(result).statusCodes
    IN  /\ latency.count = Cardinality(Accepted(Everything))
        /\ latency.count + latency.dropped = run.sums.completed
        /\ protocol = "http1" =>
            /\ SumOver(codes) = run.sums.completed
            /\ SumOver(Restrict(codes, DOMAIN codes \ 200 .. 299)) = run.sums.non2xx

\* Mean and quantiles are as accurate as they say.
LatencyNear ==
    Accepted(Everything) # {} =>
        LET latency == Summary(Aggregate(result).latency)
        IN  /\ \A f \in DOMAIN latency.quantile :
                Near(latency.quantile[f], ExactQuantile(Everything, f))
            /\ Near(latency.total, ExactTotal(Everything))

\* The result of a run is what a single worker would have measured to which
\* everything happened that happened to the workers in their measurements, the
\* warmup left out; peaks of memory add up.
AggregateExact ==
    step = "finished" => NothingLost /\ MemoryAddsUp /\ OperationsCounted /\ LatencyNear
================================================================================
