\* Two threads, two keys, two nodes; every retireNode scans and reclaims.
CONSTANTS
    NumThreads = 2
    NumNodes = 2
    NumKeys = 2
    MaxRetired = 0
    Threads <- MCThreads
    Nodes <- MCNodes
    Keys <- MCKeys
SPECIFICATION LinSpec
INVARIANT NoUseAfterFree
