\* The file cache, the request statistics, the ring, the list-based set and
\* the arrays of operations, one object in a behaviour.
\* Cache: three callers, room for two bytes, and more descriptors than the
\* calls of one behaviour can open.  Statistics: two workers and one reader;
\* a second is two slots of two ticks, the table is built at tick 0 or 1 and
\* the clock runs to tick 7, so that a slot is used in two seconds, and
\* three requests are enough to fill a slot, to reuse it and to have a
\* request of the second before in a row.  Ring: rings of one, two, three,
\* four and ten slots (ten for a constructor argument that is not positive)
\* and ten writes.  Set: three threads, four values and five node addresses.
\* Operations: three workers and series of three, which have six orders.
CONSTANTS
    NumThreads = 3
    MaxSize = 2
    MaxPins = 4
    FdLimit = 9
    SizeBits = 3
    num_threads = 2
    reader = reader
    num_slots = 2
    TicksPerSlot = 2
    TickBits = 5
    MaxTime = 7
    MaxRequests = 3
    DefaultSlots = 10
    MaxWrites = 10
    t1 = t1
    t2 = t2
    t3 = t3
    NULL = NULL
    Keys = {1, 2, 3, 4}
    Nodes = {11, 12, 13, 14, 15}
    num_workers = 3
    size = 3
SPECIFICATION SharedSpec
\* The callers stop when they have called pin MaxPins times, the clock at
\* MaxTime.
CHECK_DEADLOCK FALSE
INVARIANTS
    SharedTypeOK
    PinCountExact
    SizeBound
    StatsNeverOvercount
    StatsCountRecent
    FifoUntilUnderrun
    HeapIsChain
    StripesExclusive
PROPERTIES
    PinnedNeverEvicted
    ActsAsSet
