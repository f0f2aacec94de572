------------------------------ MODULE MCShared ------------------------------
(***************************************************************************)
(* The objects that threads share, for TLC.  The two an HTTPService owns   *)
(* and every connection of it uses from its worker thread                  *)
(* (http_service.hpp: stats_, file_cache_): the file cache of scenario     *)
(* "pin/evict" (room for two of the three files that exist, and one file   *)
(* name that is not on disk) and the request statistics with two workers,  *)
(* one reader and a second of two slots of two ticks.  And the two of the  *)
(* exercises: the ring (CircularBuffer) and the list behind a mutex        *)
(* (ListBasedSet).  And the arrays of operations that the workers of the   *)
(* tests of the lock-free list are given (OpGenerator).  The modules share *)
(* no variable.  A behaviour is a behaviour of one of them, chosen by      *)
(* `object` in the initial state.                                          *)
(***************************************************************************)
EXTENDS Integers, FiniteSets

CONSTANTS
    NumThreads, MaxSize, MaxPins, FdLimit, SizeBits,      \* FileCache
    num_threads, reader, num_slots, TicksPerSlot,         \* RequestStats
    TickBits, MaxTime, MaxRequests,
    DefaultSlots, MaxWrites,                              \* CircularBuffer
    t1, t2, t3, Keys, Nodes, NULL,                        \* ListBasedSet
    num_workers, size                                     \* OpGenerator

VARIABLES
    object,
    \* FileCache
    fds, cache_map, bytes_used, num_pins, num_hits, num_failed, readers,
    writer, cache_pc, loc, held, ret, fatal,
    \* RequestStats
    clock, built, num_req, last_update, stats_pc, now, at, req_counter,
    counted, quiet,
    \* CircularBuffer
    bufferSlots, elements, readPtr, writePtr, out, written, ideal, underrun,
    \* ListBasedSet
    head, value, next, live, m, set_pc, call, cur, result,
    \* OpGenerator
    ops

MCFiles == {"a", "b", "c", "d"}

\* a and b fill the cache together, c fills it alone, d does not exist.
MCInitialDisk == [f \in MCFiles |->
                    CASE f = "a" -> 1 [] f = "b" -> 1 [] f = "c" -> 2 [] f = "d" -> -1]

Cache == INSTANCE FileCache
             WITH Threads <- 0 .. NumThreads - 1, Files <- MCFiles, Sizes <- {1, 2},
                  Disk <- MCInitialDisk, pc <- cache_pc

Stats == INSTANCE RequestStats WITH Readers <- {reader}, pc <- stats_pc

\* Rings of one, two, three, four and DefaultSlots slots.
Buf == INSTANCE CircularBuffer WITH SlotArgs <- {-1, 1, 2, 3, 4}

Set == INSTANCE ListBasedSet
           WITH Threads <- {t1, t2, t3}, ClearAlone <- TRUE, pc <- set_pc

Gen == INSTANCE OpGenerator

cacheAll   == <<fds, cache_map, bytes_used, num_pins, num_hits, num_failed,
                readers, writer, cache_pc, loc, held, ret, fatal>>
statsAll   == <<clock, built, num_req, last_update, stats_pc, now, at,
                req_counter, counted, quiet>>
bufAll     == <<bufferSlots, elements, readPtr, writePtr, out, written,
                ideal, underrun>>
setAll     == <<head, value, next, live, m, set_pc, call, cur, result>>
sharedVars == <<object, cacheAll, statsAll, bufAll, setAll, ops>>

SharedInit ==
    /\ object \in {"file_cache", "stats", "buffer", "set", "ops"}
    /\ Cache!Init /\ Stats!Init /\ Buf!Init /\ Set!Init /\ Gen!Init
    /\ object # "stats" => built = 0
    /\ object # "buffer" => bufferSlots = 1

SharedNext ==
    /\ UNCHANGED object
    /\ \/ object = "file_cache" /\ Cache!Next
             /\ UNCHANGED <<statsAll, bufAll, setAll, ops>>
       \/ object = "stats" /\ Stats!Next
             /\ UNCHANGED <<cacheAll, bufAll, setAll, ops>>
       \/ object = "buffer" /\ Buf!Next
             /\ UNCHANGED <<cacheAll, statsAll, setAll, ops>>
       \/ object = "set" /\ Set!Next
             /\ UNCHANGED <<cacheAll, statsAll, bufAll, ops>>
       \/ object = "ops" /\ Gen!Next
             /\ UNCHANGED <<cacheAll, statsAll, bufAll, setAll>>

SharedSpec == SharedInit /\ [][SharedNext]_sharedVars

-----------------------------------------------------------------------------
\* Every variable of the object of the behaviour has a value of its type
\* (the variables of the other objects keep their initial values).
SharedTypeOK ==
    /\ object = "file_cache" => Cache!TypeOK
    /\ object = "stats" => Stats!TypeOK
    /\ object = "buffer" => Buf!TypeOK
    /\ object = "set" => Set!TypeOK
    /\ object = "ops" => Gen!TypeOK

\* The properties of FileCache, RequestStats, CircularBuffer, ListBasedSet
\* and OpGenerator, each stated and explained in its module, for the
\* behaviours of its object.
PinCountExact       == object = "file_cache" => Cache!PinCountExact
SizeBound           == object = "file_cache" => Cache!SizeBound
PinnedNeverEvicted  == Cache!PinnedNeverEvicted
StatsNeverOvercount == object = "stats" => Stats!StatsNeverOvercount
StatsCountRecent    == object = "stats" => Stats!StatsCountRecent
FifoUntilUnderrun   == object = "buffer" => Buf!FifoUntilUnderrun
HeapIsChain         == object = "set" => Set!HeapIsChain
ActsAsSet           == Set!ActsAsSet
StripesExclusive    == object = "ops" => Gen!StripesExclusive

=============================================================================
