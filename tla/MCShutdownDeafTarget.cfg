\* The default deadlines in units of 2 s, but for a shorter readiness timeout.
CONSTANTS
    Ready = 2
    ShutdownGrace = 1
    Kill = 1
    Command = 8
    Port = 1
    MaxMetrics = 0
    NumHooks = 1
SPECIFICATION Spec
INVARIANTS
    CleansUp
\* When the agent and the target are gone, it is over.
CHECK_DEADLOCK FALSE
