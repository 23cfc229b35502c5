\* A WebSocket worker with two connections, in both modes.
SPECIFICATION FairSpec
CONSTANTS
    c1 = c1
    c2 = c2
    Conns = {c1, c2}
    Rates = {TRUE, FALSE}
    MaxInFlight = 2
    MaxLate = 1
    MaxSent = 3
    MaxScheduled = 3
\* The worker stops after its result, and the bounds cut phases short.
CHECK_DEADLOCK FALSE
INVARIANTS Conservation AnswersAreOwn TimerOnOldest NeverStalls
PROPERTIES DrainCompletes ImplementsContract
