\* One thread, words of four bits, and three buckets: a number of buckets
\* that is not a power of two, as the 10000 of the code.
CONSTANTS
    NumThreads = 1
    Threads <- MCThreads
    W = 4
    Keys <- UnalignedKeys
    InitialSize = 3
    MAX_LOAD = 1
    CounterBits = 3
    FirstCallAlone = TRUE
SPECIFICATION Spec
INVARIANT HoldsWhatItSaid
