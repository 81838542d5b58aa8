SPECIFICATION FairSpec
CONSTANTS
    c1 = c1
    c2 = c2
    Consoles = {c1, c2}
    Starts <- MCStarts
    Offering = "k8s"
    RestartDisabled = FALSE
    MaxWatch = 2
    MaxEvents = 2
INVARIANTS EditsApplied RequestsServed DatabaseReachable
PROPERTIES RestartsWanted ConsolesSettle
CHECK_DEADLOCK FALSE
