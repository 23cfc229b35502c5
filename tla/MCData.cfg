\* Two responses and three frames, cut in every way; the six arrivals of a schedule
\* on two workers with two connections and one; two workers and three events of a
\* phase; latencies on every edge of three buckets; rings of three
\* slots that wrap around; two or four rounds.
CONSTANTS
    w1 = w1
    w2 = w2
    Workers = {w1, w2}
    Lowest = 2
    Highest = 8
    MaxRecords = 3
    Events <- SomeEvents
    Capacity = 3
    MaxTime = 1
    MaxSamples = 5
    MaxLevel = 1
    MaxSeen = 3
    Warmups = 1
    Iterations = 2
    Cycles = 2
    MaxRounds = 4
    Values = {1, 2, 4}
    MaxHeaderBytes = 10
    MaxMessages = 2
    MaxLineBytes = 6
    MaxFrames = 3
    NWorkers = 2
    NConnections = 3
    Pipelining = 2
    MaxArrivals = 6
SYMMETRY Symmetry
SPECIFICATION Spec
INVARIANTS
    AnswersExact
    FailsIfInvalid
    FramesExact
    EveryArrivalOnce
    AggregateExact
    RingsExact
    IntervalsExact
    StatisticsExact
    VerdictSound
PROPERTIES
    DropsOnlyWhenFull
    EvenLoad
\* Each part ends: a whole stream, a finished run, full buffers, a settled batch, a last round.
CHECK_DEADLOCK FALSE
