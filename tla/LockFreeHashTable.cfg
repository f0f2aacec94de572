\* Two threads, words of three bits, the four keys below 0x80000000 (here
\* 4), two buckets at first and four once the table holds four keys.  The
\* first call runs alone.
CONSTANTS
    NumThreads = 2
    Threads <- MCThreads
    W = 3
    Keys <- SmallKeys
    InitialSize = 2
    MAX_LOAD = 1
    CounterBits = 3
    FirstCallAlone = TRUE
SPECIFICATION Spec
INVARIANTS
    TypeOK
    SplitOrdered
    HoldsWhatItSaid
    CounterTracksKeys
    BucketsNestInSplitOrder
