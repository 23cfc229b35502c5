\* One run of three workers, one of which may die of an exception.
CONSTANTS
    w1 = w1
    w2 = w2
    w3 = w3
    Workers = {w1, w2, w3}
    MaxErrors = 1
SPECIFICATION FairSpec
INVARIANTS
    LockStep
    NoAnswerDropped
    CleanSettle
    ResolvedMeansMeasured
PROPERTIES
    WorkersKeepContract
    Settles
\* A run that has settled is over.
CHECK_DEADLOCK FALSE
