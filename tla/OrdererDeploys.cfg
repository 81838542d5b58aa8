SPECIFICATION FairSpec
CONSTANTS
    ClusterSize = 2
    Certs <- MCCerts
    MaxFaults = 0
CHECK_DEADLOCK FALSE
PROPERTY ClusterDeploys
