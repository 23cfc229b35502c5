\* A session of one start and four more requests.
CONSTANT MaxRequests = 5
SPECIFICATION FairSpec
INVARIANTS
    StatesAgree
    StoppedMeansGone
PROPERTIES
    ExitNoticed
\* A stopped or failed session is over.
CHECK_DEADLOCK FALSE
