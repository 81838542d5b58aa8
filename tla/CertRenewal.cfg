SPECIFICATION FairSpec
CONSTANTS
    Setups <- MCSetups
    Lifetime = 3
    Starts <- MCStarts
    WarningPeriod = 1
    Iterations = 1
    MaxTime = 1
    MaxEvents = 2
INVARIANTS KeysPaired RenewedInTime NothingLeftBehind
PROPERTIES CertsSettle
CHECK_DEADLOCK FALSE
