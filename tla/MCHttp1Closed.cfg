\* Closed loop: two connections, two requests in flight on each.
CONSTANTS
    c1 = c1
    c2 = c2
    Conns = {c1, c2}
    Pipelining = 2
    FixedRate = FALSE
    MaxSent = 3
    MaxTimeouts = 1
    MaxScheduled = 0
SYMMETRY ConnSymmetry
SPECIFICATION Spec
INVARIANTS
    TypeOK
    Conservation
    PipelineBound
    PipelineFull
    IdleIsQuiet
    ConnectedCount
    NeverLost
    WaitsComplete
PROPERTIES
    ImplementsContract
\* A finished worker only waits to be terminated.
CHECK_DEADLOCK FALSE
