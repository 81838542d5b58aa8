SPECIFICATION Spec
CONSTANTS
    ClusterSize = 2
    Certs <- MCCerts
    MaxFaults = 1
CHECK_DEADLOCK FALSE
INVARIANTS SecretsAgree DeployedHasGenesis
PROPERTY DeployedIsFinal
