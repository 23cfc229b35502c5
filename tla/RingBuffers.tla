------------------------------- MODULE RingBuffers -------------------------------
(***************************************************************************)
(* The two ring buffers: TimestampQueue, which holds the starting times of *)
(* the requests in flight on a connection, and the legacy LatencyRecorder, *)
(* which keeps the last samples for its percentiles.                       *)
(***************************************************************************)
EXTENDS Samples

CONSTANTS
    Capacity,       \* of the queue, and MAX_LAT_SAMPLES
    MaxTime,        \* bound: the greatest time and latency
    MaxSamples      \* bound: samples recorded

ASSUME RingAssumption == Capacity \in Nat \ {0} /\ MaxTime \in Nat /\ MaxSamples \in Nat

VARIABLES
    ring,           \* the TimestampQueue
    queue,          \* what it should hold: <<latencyStart, timeoutStart>>, oldest first
    answer,         \* what shift() returned, and what it should have
    recorder,       \* the LatencyRecorder
    samples         \* all that was recorded in it

ringVars == <<ring, queue, answer, recorder, samples>>

Time == 0 .. MaxTime
Slot == 0 .. Capacity - 1
NoTime == -1        \* null
--------------------------------------------------------------------------------
PeekTimeoutStart == IF ring.size = 0 THEN NoTime ELSE ring.timeoutStarts[ring.head]

\* Mutant: the place of a new entry is counted from the first slot.
PushFromStart(latencyStart, timeoutStart) ==
    /\ ring.size < Capacity
    /\ LET index == ring.size % Capacity
       IN  ring' = [ring EXCEPT !.latencyStarts[index] = latencyStart,
                                !.timeoutStarts[index] = timeoutStart, !.size = @ + 1]
    /\ queue' = Append(queue, <<latencyStart, timeoutStart>>)
    /\ UNCHANGED <<answer, recorder, samples>>

\* A push into a full queue throws; PipelineBound says that no worker does it.
Push(latencyStart, timeoutStart) ==
    /\ ring.size < Capacity
    /\ LET index == (ring.head + ring.size) % Capacity
       IN  ring' = [ring EXCEPT !.latencyStarts[index] = latencyStart,
                                !.timeoutStarts[index] = timeoutStart, !.size = @ + 1]
    /\ queue' = Append(queue, <<latencyStart, timeoutStart>>)
    /\ UNCHANGED <<answer, recorder, samples>>

Shift ==
    /\ IF ring.size = 0
       THEN answer' = <<NoTime, NoTime>> /\ UNCHANGED <<ring, queue>>
       ELSE /\ answer' = <<ring.latencyStarts[ring.head], Head(queue)[1]>>
            /\ ring' = [ring EXCEPT !.head = (@ + 1) % Capacity, !.size = @ - 1]
            /\ queue' = Tail(queue)
    /\ UNCHANGED <<recorder, samples>>

Clear ==
    /\ ring' = [ring EXCEPT !.head = 0, !.size = 0] /\ queue' = <<>>
    /\ UNCHANGED <<answer, recorder, samples>>
--------------------------------------------------------------------------------
RecordSample(ms) ==
    /\ Len(samples) < MaxSamples /\ samples' = Append(samples, ms)
    /\ recorder' = [recorder EXCEPT !.sum = @ + ms, !.latencies[recorder.index] = ms,
                        !.index = (@ + 1) % Capacity,
                        !.count = IF @ < Capacity THEN @ + 1 ELSE @]
    /\ UNCHANGED <<ring, queue, answer>>

\* percentileFromBuffer; a percentile is given in tenths.
Percentile(percentile) ==
    LET sorted == Ascending([i \in 1 .. recorder.count |-> recorder.latencies[i - 1]])
        last == recorder.count - 1
        idx == (percentile * recorder.count) \div 1000
    IN  IF recorder.count = 0 THEN NoTime ELSE sorted[1 + IF idx < last THEN idx ELSE last]
--------------------------------------------------------------------------------
RingInit ==
    /\ ring = [latencyStarts |-> [s \in Slot |-> 0], timeoutStarts |-> [s \in Slot |-> 0],
               head |-> 0, size |-> 0]
    /\ queue = <<>> /\ answer = <<NoTime, NoTime>>
    /\ recorder = [latencies |-> [s \in Slot |-> 0], sum |-> 0, count |-> 0, index |-> 0]
    /\ samples = <<>>

RingNext ==
    \/ samples = <<>> /\ ((\E l, t \in Time : Push(l, t)) \/ Shift \/ Clear)
    \/ queue = <<>> /\ \E ms \in Time : RecordSample(ms)

RingSpec == RingInit /\ [][RingNext]_ringVars
--------------------------------------------------------------------------------
\* The samples the recorder still holds.
Retained ==
    SubSeq(samples, (IF Len(samples) > Capacity THEN Len(samples) - Capacity ELSE 0) + 1, Len(samples))

Below(v) == Cardinality({i \in DOMAIN Retained : Retained[i] < v})

\* The queue holds the requests in flight oldest first, each with both its times.
QueueExact ==
    /\ ring.size = Len(queue)
    /\ \A i \in 1 .. Len(queue) :
        LET slot == (ring.head + i - 1) % Capacity
        IN  queue[i] = <<ring.latencyStarts[slot], ring.timeoutStarts[slot]>>
    /\ PeekTimeoutStart = IF queue = <<>> THEN NoTime ELSE queue[1][2]
    /\ answer[1] = answer[2]

\* A percentile is of the rank it names among the samples retained.
RankExact(percentile) ==
    LET rank == (Len(Retained) * percentile) \div 1000
        v == Percentile(percentile)
    IN  Below(v) <= rank /\ (rank < Below(v + 1) \/ rank = Len(Retained))

\* However often it has wrapped around or been cleared, the queue gives an
\* answer the latency of its own request and the timeout that of the oldest; and
\* the percentiles of the recorder are the ranks of the latest samples, the
\* others forgotten, while its average is that of all.
RingsExact ==
    /\ QueueExact
    /\ recorder.sum = Summed(samples)
    /\ samples # <<>> => \A p \in {950, 975, 990} : RankExact(p)
================================================================================
