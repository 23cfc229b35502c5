\* A fixed rate low enough to leave a connection with nothing to wait for.
CONSTANTS
    c1 = c1
    Conns = {c1}
    Pipelining = 1
    FixedRate = TRUE
    MaxSent = 2
    MaxTimeouts = 1
    MaxScheduled = 2
SPECIFICATION FairSpec
PROPERTIES
    TimeoutMeansRequestWaiting
\* A finished worker only waits to be terminated.
CHECK_DEADLOCK FALSE
