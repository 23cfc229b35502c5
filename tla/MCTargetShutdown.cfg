CONSTANTS
    Ready = 1
    ShutdownGrace = 1
    Kill = 1
    Command = 1
    Port = 1
    MaxMetrics = 2
    NumHooks = 2
SPECIFICATION FairSpec
INVARIANTS
    NoneForgotten
    HooksOnceThenExit
PROPERTIES
    AgentEnds
\* When the agent and the target are gone, it is over.
CHECK_DEADLOCK FALSE
