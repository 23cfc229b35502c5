\* A wait that begins in the warmup and ends in the measurement.
CONSTANTS
    c1 = c1
    Conns = {c1}
    Pipelining = 1
    FixedRate = FALSE
    MaxSent = 2
    MaxTimeouts = 1
    MaxScheduled = 0
SPECIFICATION Spec
INVARIANTS
    WaitsBelongToPhase
\* A finished worker only waits to be terminated.
CHECK_DEADLOCK FALSE
