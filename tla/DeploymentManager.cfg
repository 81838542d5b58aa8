SPECIFICATION FairSpec
CONSTANTS
    Setups <- MCSetups
    Edits <- MCEdits
    MaxEvents = 2
INVARIANTS
    SpecReached
PROPERTIES
    RestartsKept
    Settles
CHECK_DEADLOCK FALSE
