\* The constants of LockFreeHashTable.cfg, but the first calls are not kept
\* apart: two threads may both find bucket 0 uninitialised.
CONSTANTS
    NumThreads = 2
    Threads <- MCThreads
    W = 3
    Keys <- SmallKeys
    InitialSize = 2
    MAX_LOAD = 1
    CounterBits = 3
    FirstCallAlone = FALSE
SPECIFICATION Spec
INVARIANT HoldsWhatItSaid
