SPECIFICATION FairSpec
CONSTANTS
    Setups <- MCSetups
    Changes <- MCChanges
CHECK_DEADLOCK FALSE
INVARIANTS  LedgerExclusive PodRunsLatest
 
