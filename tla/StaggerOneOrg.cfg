SPECIFICATION Spec
CONSTANTS
    a = a  b = b  org1 = org1
    p1 = p1  p2 = p2  p3 = p3  NoPod = NoPod
    CRs = {a, b}
    MSPIDs = {org1}
    MSPOf <- OneOrgMSPOf
    Requests = {1, 2}
    CROf <- OneOrgCROf
    PodNames = {p1, p2, p3}
    MaxFaults = 1
SYMMETRY PodSymmetry
INVARIANTS TypeOK OnlyFrontWaits NoStall Staggered
PROPERTY ServiceProvided
CHECK_DEADLOCK FALSE
