SPECIFICATION FairSpec
CONSTANTS
    peer = peer  cert = cert  override = override  NoTime = NoTime
    Instances = {peer}
    Reasons = {cert, override}
    WaitTime = 2
    MaxTime = 4
    MaxRequests = 3
    MaxFaults = 1
CHECK_DEADLOCK FALSE
INVARIANTS WantedKept PanicNeedsLostEntry
PROPERTIES RestartIsDue WantedIsQueued
