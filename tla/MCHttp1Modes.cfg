\* At a fixed rate two arrivals and a timeout a phase; in a closed loop six requests
\* and two timeouts.
CONSTANTS
    c1 = c1
    c2 = c2
    Conns = {c1, c2}
    MaxScheduled = 2
    MaxSent = 6
    MaxTimeouts = 2
SPECIFICATION Spec
INVARIANTS
    ArrivalsAccounted
PROPERTIES
    DrainCompletes
\* A finished worker only waits to be terminated.
CHECK_DEADLOCK FALSE
