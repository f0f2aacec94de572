\* Two workers of the server handle requests for the documents.
CONSTANTS
    NumThreads = 2
    Threads <- MCThreads
    Files <- MCFiles
    Sizes <- MCSizes
    Disk <- MCInitialDisk
    MaxSize = 2
    MaxPins = 4
    FdLimit = 9
    SizeBits = 3
SPECIFICATION HttpSpec
\* The workers stop when MaxPins requests have been handled.
CHECK_DEADLOCK FALSE
INVARIANT PinnedWhileServed
