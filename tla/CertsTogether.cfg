SPECIFICATION Spec
CONSTANTS
    Setups <- OnePeer
    Lifetime = 2
    Starts <- NoEvents
    WarningPeriod = 1
    Iterations = 2
    MaxTime = 4
    MaxEvents = 0
INVARIANT AutoReenrolled
CHECK_DEADLOCK FALSE
