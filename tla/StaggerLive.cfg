SPECIFICATION FairSpec
CONSTANTS
    a = a  b = b  org1 = org1
    p1 = p1  p2 = p2  p3 = p3  NoPod = NoPod
    CRs = {a}
    MSPIDs = {org1}
    MSPOf <- OneCRMSPOf
    Requests = {1, 2}
    CROf <- OneCRCROf
    PodNames = {p1, p2}
    MaxFaults = 1
CHECK_DEADLOCK FALSE
PROPERTIES QueuesDrain NoRestartWhileRolling
INVARIANT RequestsKept
