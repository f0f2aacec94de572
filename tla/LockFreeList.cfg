\* Two threads, two keys, two node addresses.  A retired list is scanned
\* when it holds more than one node, so that a retireNode that only queues
\* and one that scans and reclaims both happen.
CONSTANTS
    NumThreads = 2
    NumNodes = 2
    NumKeys = 2
    MaxRetired = 1
    Threads <- MCThreads
    Nodes <- MCNodes
    Keys <- MCKeys
SPECIFICATION LinSpec
INVARIANTS
    TypeOK
    ListIntegrity
    RetiredOnce
    CurProtected
PROPERTIES
    Linearizable
    LockFree
