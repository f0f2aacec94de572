------------------------------ MODULE FileCache ------------------------------
(***************************************************************************)
(* The pinning file cache of src/file_cache.cpp, its callers and the disk. *)
(*                                                                         *)
(* A caller pins a file, holds the handle for a while and unpins it.       *)
(* pin() looks the file up under the read lock; on a miss it releases the  *)
(* lock, reads the file with no lock held, and takes the write lock to     *)
(* evict and to insert.  A step of the model is one lock operation, one    *)
(* critical section under the read lock, one system call on the file, or   *)
(* one turn of the eviction loop under the write lock.                     *)
(***************************************************************************)
EXTENDS Integers, FiniteSets, FiniteSetsExt

CONSTANTS
    Threads,       \* the threads that call pin and unpin
    Files,         \* the file names
    MaxSize,       \* max_size_
    Disk,          \* the size of every file on disk, Absent if there is none
    Sizes,         \* the sizes a file may have
    MaxPins,       \* bound on num_pins_: the calls of pin in a behaviour
    FdLimit,       \* the file descriptors the process may have open
    SizeBits       \* the width of size_t

Absent   == -1       \* no such file on disk
NoBuf    == -1       \* loadFileToBuffer returned NULL
NoHandle == "null"   \* the CacheHandle 0
NoThread == -1
Wrap     == 2 ^ SizeBits

ASSUME
    /\ IsFiniteSet(Threads) /\ Threads \subseteq Nat
    /\ Sizes \subseteq 0 .. Wrap - 1
    /\ Disk \in [Files -> Sizes \cup {Absent}]
    /\ MaxSize \in 0 .. Wrap - 1
    /\ MaxPins \in Nat /\ FdLimit \in Nat

VARIABLES
    fds,           \* the file descriptors the process has open
    cache_map,     \* cache_map_: file name |-> [buf, stat]; buf is the
                   \* number of bytes in the buffer, stat the pin count
    bytes_used,    \* bytes_used_
    num_pins,      \* num_pins_
    num_hits,      \* num_hits_
    num_failed,    \* num_failed_
    readers,       \* the threads that hold rwm_ for reading
    writer,        \* the thread that holds rwm_ for writing, or NoThread
    pc,            \* pc[t]: where thread t is in pin or unpin
    loc,           \* loc[t]: file_name, file_size and new_buf of the call
    held,          \* held[t]: the handles thread t holds
    ret,           \* ret[t]: the handle the last pin of t returned
    fatal          \* LOG(FATAL) "can't unpin file" has been written

vars == <<fds, cache_map, bytes_used, num_pins, num_hits, num_failed,
          readers, writer, pc, loc, held, ret, fatal>>

cacheVars == <<cache_map, bytes_used>>
counters  == <<num_pins, num_hits, num_failed>>
lockVars  == <<readers, writer>>

Cached == DOMAIN cache_map

Locals  == [file_name : Files, file_size : 0 .. Wrap - 1, new_buf : Sizes \cup {NoBuf}]
NoCall  == [file_name |-> "none", file_size |-> 0, new_buf |-> NoBuf]

TypeOK ==
    /\ fds \in 0 .. FdLimit
    /\ Cached \subseteq Files
    /\ \A f \in Cached : cache_map[f] \in [buf : Sizes, stat : Int]
    /\ bytes_used \in 0 .. Wrap - 1
    /\ num_pins \in 0 .. MaxPins
    /\ num_hits \in 0 .. MaxPins
    /\ num_failed \in 0 .. MaxPins
    /\ readers \subseteq Threads
    /\ writer \in Threads \cup {NoThread}
    /\ pc \in [Threads -> {"idle", "p_rlock", "p_find", "p_stat", "p_load",
                           "p_wlock", "p_evict", "u_rlock", "u_find", "u_sub"}]
    /\ loc \in [Threads -> Locals \cup {NoCall}]
    /\ held \in [Threads -> SUBSET Files]
    /\ ret \in [Threads -> Files \cup {NoHandle}]
    /\ fatal \in BOOLEAN

Init ==
    /\ fds = 0
    /\ cache_map = <<>>
    /\ bytes_used = 0
    /\ num_pins = 0 /\ num_hits = 0 /\ num_failed = 0
    /\ readers = {} /\ writer = NoThread
    /\ pc = [t \in Threads |-> "idle"]
    /\ loc = [t \in Threads |-> NoCall]
    /\ held = [t \in Threads |-> {}]
    /\ ret = [t \in Threads |-> NoHandle]
    /\ fatal = FALSE

-----------------------------------------------------------------------------
(* size_t arithmetic, the map, the file system.                            *)

Plus(a, b)  == (a + b) % Wrap
Minus(a, b) == (a - b) % Wrap

Without(f) == [g \in Cached \ {f} |-> cache_map[g]]
With(f, node) == [g \in Cached \cup {f} |-> IF g = f THEN node ELSE cache_map[g]]

\* ::open succeeds while the file exists and a descriptor is left.
CanOpen(f) == Disk[f] # Absent /\ fds < FdLimit


\* getFileSize that answers -1 when the file cannot be opened.
getFileSize_MinusOne(f) == IF CanOpen(f) THEN Disk[f] ELSE -1

\* getFileSize: the size of the file, 0 if it cannot be opened; the
\* descriptor it opens is never closed.
getFileSize(f) == IF CanOpen(f) THEN Disk[f] ELSE 0
fdsAfterGetFileSize(f) == IF CanOpen(f) THEN fds + 1 ELSE fds

\* loadFileToBuffer: the bytes read, NULL if the file cannot be opened; it
\* closes its descriptor.
loadFileToBuffer(f) == IF CanOpen(f) THEN Disk[f] ELSE NoBuf

\* bytes_used_ + file_size > max_size_
NoRoom(t) == Plus(bytes_used, loc[t].file_size) > MaxSize

Unpinned == {g \in Cached : cache_map[g].stat = 0}

-----------------------------------------------------------------------------
(* Control.                                                                *)

Goto(t, label) == pc' = [pc EXCEPT ![t] = label]

\* pin returns handle h.
PinReturns(t, h) ==
    /\ pc' = [pc EXCEPT ![t] = "idle"]
    /\ loc' = [loc EXCEPT ![t] = NoCall]
    /\ ret' = [ret EXCEPT ![t] = h]
    /\ held' = [held EXCEPT ![t] = IF h = NoHandle THEN @ ELSE @ \cup {h}]

-----------------------------------------------------------------------------
(* pin                                                                     *)

\* A caller that does not hold file f pins it; num_pins_ is incremented.
PinBegin(t, f) ==
    /\ pc[t] = "idle"
    /\ f \notin held[t]
    /\ num_pins < MaxPins
    /\ num_pins' = num_pins + 1
    /\ loc' = [loc EXCEPT ![t] = [file_name |-> f, file_size |-> 0, new_buf |-> NoBuf]]
    /\ Goto(t, "p_rlock")
    /\ UNCHANGED <<fds, cacheVars, num_hits, num_failed, lockVars, held, ret, fatal>>

\* rwm_.rLock()
PinRLock(t) ==
    /\ pc[t] = "p_rlock"
    /\ writer = NoThread
    /\ readers' = readers \cup {t}
    /\ Goto(t, "p_find")
    /\ UNCHANGED <<fds, cacheVars, counters, writer, loc, held, ret, fatal>>


\* PinHit without the fetch-and-add on stat.
PinHit_NoPin(t) ==
    /\ pc[t] = "p_find"
    /\ loc[t].file_name \in Cached
    /\ num_hits' = num_hits + 1
    /\ readers' = readers \ {t}
    /\ PinReturns(t, loc[t].file_name)
    /\ UNCHANGED <<fds, cacheVars, num_pins, num_failed, writer, fatal>>

\* The file is in the map: count the hit, pin the node, unlock, return.
PinHit(t) ==
    /\ pc[t] = "p_find"
    /\ loc[t].file_name \in Cached
    /\ num_hits' = num_hits + 1
    /\ cache_map' = [cache_map EXCEPT ![loc[t].file_name].stat = @ + 1]
    /\ readers' = readers \ {t}
    /\ PinReturns(t, loc[t].file_name)
    /\ UNCHANGED <<fds, bytes_used, num_pins, num_failed, writer, fatal>>

\* The file is not in the map: unlock.
PinMiss(t) ==
    /\ pc[t] = "p_find"
    /\ loc[t].file_name \notin Cached
    /\ readers' = readers \ {t}
    /\ Goto(t, "p_stat")
    /\ UNCHANGED <<fds, cacheVars, counters, writer, loc, held, ret, fatal>>

\* size_t file_size = getFileSize(file_name);
PinStat(t) ==
    /\ pc[t] = "p_stat"
    /\ loc' = [loc EXCEPT ![t].file_size = getFileSize(loc[t].file_name)]
    /\ fds' = fdsAfterGetFileSize(loc[t].file_name)
    /\ Goto(t, "p_load")
    /\ UNCHANGED <<cacheVars, counters, lockVars, held, ret, fatal>>

\* Buffer* new_buf = loadFileToBuffer(file_name); it is not NULL.
PinLoad(t) ==
    /\ pc[t] = "p_load"
    /\ CanOpen(loc[t].file_name)
    /\ loc' = [loc EXCEPT ![t].new_buf = loadFileToBuffer(loc[t].file_name)]
    /\ Goto(t, "p_wlock")
    /\ UNCHANGED <<fds, cacheVars, counters, lockVars, held, ret, fatal>>

\* new_buf is NULL: pin returns the null handle.
PinLoadFails(t) ==
    /\ pc[t] = "p_load"
    /\ ~CanOpen(loc[t].file_name)
    /\ PinReturns(t, NoHandle)
    /\ UNCHANGED <<fds, cacheVars, counters, lockVars, fatal>>

\* ScopedWLock wLock(&rwm_);
PinWLock(t) ==
    /\ pc[t] = "p_wlock"
    /\ writer = NoThread /\ readers = {}
    /\ writer' = t
    /\ Goto(t, "p_evict")
    /\ UNCHANGED <<fds, cacheVars, counters, readers, loc, held, ret, fatal>>



\* The loop has ended, with room or with nothing left to evict.
LoopDone(t) == pc[t] = "p_evict" /\ (NoRoom(t) => Unpinned = {})

\* Evict that takes the first node of the map, pinned or not.
Evict_AnyNode(t, g) ==
    /\ pc[t] = "p_evict"
    /\ NoRoom(t)
    /\ g \in Cached
    /\ bytes_used' = Minus(bytes_used, getFileSize(g))
    /\ fds' = fdsAfterGetFileSize(g)
    /\ cache_map' = Without(g)
    /\ UNCHANGED <<counters, lockVars, pc, loc, held, ret, fatal>>

\* One turn of the while loop: there is no room, and g is the first node
\* of the map with stat == 0 (the order of an unordered_map is arbitrary).
\* bytes_used_ goes down by the size the file has on disk now.
Evict(t, g) ==
    /\ pc[t] = "p_evict"
    /\ NoRoom(t)
    /\ g \in Unpinned
    /\ bytes_used' = Minus(bytes_used, getFileSize(g))
    /\ fds' = fdsAfterGetFileSize(g)
    /\ cache_map' = Without(g)
    /\ UNCHANGED <<counters, lockVars, pc, loc, held, ret, fatal>>



\* There is room and the map takes the node: the file is pinned.
PinInsert(t) ==
    /\ LoopDone(t) /\ ~NoRoom(t)
    /\ loc[t].file_name \notin Cached
    /\ cache_map' = With(loc[t].file_name, [buf |-> loc[t].new_buf, stat |-> 1])
    /\ bytes_used' = Plus(bytes_used, loc[t].file_size)
    /\ writer' = NoThread
    /\ PinReturns(t, loc[t].file_name)
    /\ UNCHANGED <<fds, counters, readers, fatal>>

\* PinDuplicate with bytes_used_ += file_size outside the test of it.second.
PinDuplicate_Charges(t) ==
    /\ LoopDone(t) /\ ~NoRoom(t)
    /\ loc[t].file_name \in Cached
    /\ bytes_used' = Plus(bytes_used, loc[t].file_size)
    /\ writer' = NoThread
    /\ PinReturns(t, NoHandle)
    /\ UNCHANGED <<fds, cache_map, counters, readers, fatal>>

\* There is room but the map holds the file already: another thread has
\* inserted it since the miss.  An error is logged; h is still 0.
PinDuplicate(t) ==
    /\ LoopDone(t) /\ ~NoRoom(t)
    /\ loc[t].file_name \in Cached
    /\ writer' = NoThread
    /\ PinReturns(t, NoHandle)
    /\ UNCHANGED <<fds, cacheVars, counters, readers, fatal>>

\* There is no room: the failure is counted.
PinNoSpace(t) ==
    /\ LoopDone(t) /\ NoRoom(t)
    /\ num_failed' = num_failed + 1
    /\ writer' = NoThread
    /\ PinReturns(t, NoHandle)
    /\ UNCHANGED <<fds, cacheVars, num_pins, num_hits, readers, fatal>>

-----------------------------------------------------------------------------
(* unpin                                                                   *)

\* A caller gives a handle it holds back.
UnpinBegin(t, f) ==
    /\ pc[t] = "idle"
    /\ f \in held[t]
    /\ held' = [held EXCEPT ![t] = @ \ {f}]
    /\ loc' = [loc EXCEPT ![t] = [file_name |-> f, file_size |-> 0, new_buf |-> NoBuf]]
    /\ Goto(t, "u_rlock")
    /\ UNCHANGED <<fds, cacheVars, counters, lockVars, ret, fatal>>

\* ScopedRLock rLock(&rwm_);
UnpinRLock(t) ==
    /\ pc[t] = "u_rlock"
    /\ writer = NoThread
    /\ readers' = readers \cup {t}
    /\ Goto(t, "u_find")
    /\ UNCHANGED <<fds, cacheVars, counters, writer, loc, held, ret, fatal>>


\* find(file_ptr) and the test of stat.
UnpinFind(t) ==
    /\ pc[t] = "u_find"
    /\ LET f == loc[t].file_name
       IN  \/ /\ f \in Cached /\ cache_map[f].stat # 0
              /\ Goto(t, "u_sub")
              /\ UNCHANGED <<loc, readers, fatal>>
           \/ /\ f \in Cached /\ cache_map[f].stat = 0
              /\ fatal' = TRUE
              /\ readers' = readers \ {t}
              /\ loc' = [loc EXCEPT ![t] = NoCall]
              /\ Goto(t, "idle")
           \/ /\ f \notin Cached
              /\ readers' = readers \ {t}
              /\ loc' = [loc EXCEPT ![t] = NoCall]
              /\ Goto(t, "idle")
              /\ UNCHANGED fatal
    /\ UNCHANGED <<fds, cacheVars, counters, writer, held, ret>>

\* __sync_fetch_and_sub(&it->second->stat, 1); and the unlock.
UnpinSub(t) ==
    /\ pc[t] = "u_sub"
    /\ cache_map' = [cache_map EXCEPT ![loc[t].file_name].stat = @ - 1]
    /\ readers' = readers \ {t}
    /\ loc' = [loc EXCEPT ![t] = NoCall]
    /\ Goto(t, "idle")
    /\ UNCHANGED <<fds, bytes_used, counters, writer, held, ret, fatal>>

-----------------------------------------------------------------------------

\* A step of thread t inside pin, after the call.
PinStep(t) ==
    \/ \E f \in Files : Evict(t, f)
    \/ PinRLock(t) \/ PinHit(t) \/ PinMiss(t) \/ PinStat(t)
    \/ PinLoad(t) \/ PinLoadFails(t) \/ PinWLock(t)
    \/ PinInsert(t) \/ PinDuplicate(t) \/ PinNoSpace(t)

\* A step of thread t inside unpin, after the call.
UnpinStep(t) == UnpinRLock(t) \/ UnpinFind(t) \/ UnpinSub(t)

Step(t) ==
    \/ \E f \in Files : PinBegin(t, f) \/ UnpinBegin(t, f)
    \/ PinStep(t) \/ UnpinStep(t)

\* Any caller takes a step; the files on disk do not change.
Next == \E t \in Threads : Step(t)

Spec == Init /\ [][Next]_vars

-----------------------------------------------------------------------------
(* Properties.                                                             *)

\* The threads that are giving file f back: unpin has taken the handle and
\* not yet decremented the pin count.
Unpinning(f) == {t \in Threads : pc[t] \in {"u_rlock", "u_find", "u_sub"}
                                  /\ loc[t].file_name = f}
Holders(f)   == {t \in Threads : f \in held[t]}

\* The bytes of all buffers in the map.
BufferBytes == MapThenSumSet(LAMBDA f : cache_map[f].buf, Cached)

\* The pin count of a cached file is the number of handles to it that are
\* out: pin on a hit (under the read lock, by fetch-and-add) and unpin
\* (test, then fetch-and-sub) of several threads never lose a count,
\* whatever their order.
PinCountExact ==
    \A f \in Cached :
        cache_map[f].stat = Cardinality(Holders(f)) + Cardinality(Unpinning(f))

\* "A node with pin_count > 0 is never evicted": no step removes a file
\* from the map while a caller holds a handle to it, so the buffer a caller
\* got from pin stays valid until its unpin.
PinnedNeverEvicted ==
    [][\A f \in Cached \ Cached' : Holders(f) = {} /\ Unpinning(f) = {}]_vars

\* "The sum of all Buffers stored in the map never exceeds the size
\* determined for the cache", and bytes_used_ is that sum, after any
\* sequence of concurrent misses, evictions and insertions.
SizeBound == bytes_used = BufferBytes /\ BufferBytes <= MaxSize

\* The failure model of pin: a null handle for a file that was read means
\* that there was no room for it ("no space on cache").
NullHandleMeansNoSpace ==
    [][\A t \in Threads :
          pc[t] = "p_evict" /\ pc'[t] = "idle" /\ ret'[t] = NoHandle => NoRoom(t)]_vars

=============================================================================
