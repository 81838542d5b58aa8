SPECIFICATION FairSpec
CONSTANTS
    Facets <- MCFacets
    Recovered <- MCRecovered
    Pinned <- MCPinned
    MaxEdits = 2
    MaxFaults = 2
CHECK_DEADLOCK FALSE
INVARIANTS SpecCovered StackServed
PROPERTY SpecSettles
