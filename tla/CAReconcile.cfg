SPECIFICATION FairSpec
CONSTANTS
    Setups <- MCSetups
    Changes <- MCChanges
    MaxEvents = 2
CHECK_DEADLOCK FALSE
INVARIANTS NothingForgotten DeploymentMountable PodRunsLatest
PROPERTIES RootKept CASettles
