# TLA+ models of the Multicore-Programming-Lab servers

This directory holds the TLA+ specifications of the concurrent parts of the
repository, the TLC configurations that check them, and `PROJECT.json`, which
records for every definition the source lines it models, for every run what it
checks, and for every hazard of the code the property that watches it.

Run a configuration with `tlc -workers 2 -config <file>.cfg <module>`; the
module of each configuration is listed in the table of runs below.

## 1. The system

The repository is a small multi-threaded network server and the data
structures under it. An HTTP server answers `GET` requests from a file cache, a
key-value server answers them from a lock-free hash table; both are built on an
event loop with a pool of worker threads.

| Part | Source | State | Operations | Talks to |
|---|---|---|---|---|
| Lock-free list | `lock_free_list.hpp` | `head_`, the nodes' `next` (pointer and mark) and `data` | `insert`, `remove`, `lookup`, private `lookupInternal`; variants that start at a given node | hazard pointers, markable pointer |
| Hazard pointers | `hazard_pointers.hpp` | two hazard slots and one retired list per thread, `MAX_RETIRED_NODES_PER_THREAD` | `getHPRec`, `retireNode`, `maybeFreeNodes` | the list that calls it |
| Markable pointer | `markable_pointer.hpp` | none | `mark`, `unmark`, `isMarked` | |
| Lock-free hash table | `lock_free_hash_table.hpp/.cpp` | segment table, `buckets_size_`, `table_size_`, `counter_`, one list | `insert`, `remove`, `lookup`, `initialize_bucket`, `get_bucket`, `set_bucket`, key reversal | lock-free list |
| File cache | `file_cache.hpp/.cpp` | map of file name to node (buffer, pin count), `bytes_used_`, counters, a reader-writer lock | `pin`, `unpin`, `getFileSize`, `loadFileToBuffer` | the file system |
| Service manager | `service_manager.hpp/.cpp` | `stop_requested_`, `stopped_`, mutex and condition variable, acceptors | `run`, `stop`, `stopped`, `registerAcceptor` | io manager, acceptors |
| HTTP service and connection | `http_service.*`, `http_connection.*` | per connection: request parser state, response callbacks queue | `acceptConnection`, `asyncConnect`, `connect`, `readDone`, `handleRequest`, `handleResponse`, `asyncSend`, `send` | file cache, request stats, service manager |
| KV service and connection | `kv_service.*`, `kv_connection.*` | as HTTP | as HTTP; `handleRequest` looks a key up | lock-free hash table |
| Request stats | `request_stats.hpp/.cpp` | per thread a ring of 20 slots (`num_req`, `last_update`) | `finishedRequest`, `getStats` | ticks clock |
| Thread pool | `thread_pool_normal.hpp/.cpp` | task queue, `beStop`, mutex and condition variable, workers | `addTask`, `stop`, `count`, `workerFunction` | callbacks |
| MCS spin lock | `spinlock_mcs.hpp` | `tail_`, per thread a queue node (`next`, `locked`) | `lock`, `unlock` | |
| Circular buffer | `circular_buffer.cpp` | `elements`, `readPtr`, `writePtr`, `bufferSlots` | `write`, `read`, `clear` | |
| List-based set | `list_set.cpp` | sorted singly linked list, one global mutex | `insert`, `remove`, `lookup`, `clear`, `checkIntegrity` | |
| Operation generator | `op_generator.hpp/.cpp` | none: `genOps` fills an array of the caller | `genOps` with `AscPositiveStripe`, `DescNegativeStripe`, `ShufflePositiveStripe`, `ShuffleNegativeStripe` | the tests of the lock-free list |
| Asynchronous clients | `kv_benchmark.cpp`, `client_async.cpp` | per `Client` its connection, the two callbacks and `counter`; the timer of `main`, the tick of `ProgressMeter` | `start`, `doRequest`, `requestDone`, `ProgressMeter::check`, `runBenchmark` | connections, io manager, service manager |
| Other drivers | `server.cpp`, `client_sync.cpp`, `lock_benchmark.cpp`, `thread_pool_benchmark.cpp`, tests | | `main` | everything |

The io manager, the acceptor, the fast thread pool, the connection base class,
the buffers, the locks, the callbacks, the HTTP parser and the ticks clock are
used by the code above but their sources are not part of `src/`.

### What is hard in this code

* **Lock-free list and hazard pointers.** Every call is a sequence of loads,
  stores and CASes on `head_`, on `next` fields and on hazard slots, interleaved
  with those of other threads; a node is deleted by whichever thread retired it
  as soon as a scan of all hazard slots does not find it. The scan reads the
  slots one by one while their owners write them.
* **Hash table.** Buckets are initialised lazily by whichever thread gets
  there first; the list operations take the start node *by value*; the bucket
  index is computed modulo a size that is not a power of two while the split
  ordering assumes one.
* **File cache.** `pin` looks up under the read lock, releases it, loads the
  file with no lock held, and only then takes the write lock to evict and
  insert: two threads can miss on the same file together. `unpin` tests the pin
  count and decrements it in two steps under the *read* lock.
* **Stopping.** `ServiceManager::stop` is called from worker threads (a `/quit`
  request, an accept error, the client's progress meter) and waits for the
  workers; `ThreadPoolNormal::stop` joins the workers and may be called by one.
* **Request stats.** The ring slot is reused every second; `getStats` reads
  slots other threads are writing, and a slot is two words that are written
  one after the other.
* **Connections.** Responses carry no name: the client matches them to
  requests by the order of a queue of callbacks, which several threads fill
  while a reader empties it. `send` blocks until its response comes, and a
  `/quit` is never answered.
* **The exercises.** The counter of the lock benchmark is a plain `int` that
  only the lock protects; the ring moves its read pointer in `write` as well
  as in `read`; the list takes its mutex in every operation but `clear`.

### What the code promises

* The list and the hash table are sets: `insert` returns true exactly when the
  key was absent and is now present, `remove` exactly when it was present and
  is now absent, `lookup` tells whether it is present; the list stays sorted
  (`checkIntegrity`).
* No node is deleted while a thread still reads it.
* A pinned file's buffer stays valid until `unpin`; the cache never holds more
  than `max_size_` bytes; `pin` fails only if the file does not exist or does
  not fit.
* `stop` returns after the service has stopped, to every caller, and may be
  called from any thread and more than once; `run` returns after `stop`.
* Every task given to the pool before `stop` runs once.
* The MCS lock is mutually exclusive and first-come-first-served; the
  benchmark counts every increment (`lock_benchmark.cpp:90`).
* The ring returns the values in the order they were written, the newest
  `bufferSlots` of them, and -1 when it has none.
* The mutex list is a sorted set (`checkIntegrity`).
* The operations generated for two workers of a test have no key in common
  (`op_generator.hpp`).
* `getStats` never reports more requests than were finished in the last
  second.
* The response callbacks of a connection fire in the order of the calls of
  `asyncSend`, each with the response to its own request.

## 2. Modules

Every module models one part; its constants are the sizes and the bounds of
the model, its variables the fields of the class and, per thread, a program
counter and the locals that live across a step. A *step* is stated at the head
of each module; it is always "one access to state that another thread can
read or write, with the local computation up to the next one", or a whole
critical section where a mutex makes it indivisible. A definition named
`X_Something` next to an action `X` is a fault-injection variant of `X`: the
same code with one plausible bug, used to show that the property of the run
notices that bug. The variants are in no `Next`.

| Module | Models | Composed with |
|---|---|---|
| `LockFreeList` | `lock_free_list.hpp` (calls on `head_`), `hazard_pointers.hpp`, `markable_pointer.hpp` | |
| `AtomicSet` | what a set promises: the abstract specification | |
| `LockFreeListLin` | `LockFreeList` with history variables, and the refinement `INSTANCE AtomicSet` | `LockFreeList`, `AtomicSet` |
| `SplitOrder` | `reverse`, `so_regularkey`, `so_dummykey`, `GET_PARENT` of `lock_free_hash_table.cpp`, as operators | |
| `LockFreeHashTable` | `lock_free_hash_table.cpp` and the start-node variants of the list calls | `SplitOrder` |
| `FileCache` | `file_cache.cpp` | |
| `HttpFileServer` | `handleRequest` of `http_connection.cpp` as the caller of the cache | `FileCache` |
| `RequestStats` | `request_stats.cpp` | |
| `Connection` | `http_connection.cpp`, `kv_connection.cpp` | |
| `ServiceManager` | `service_manager.cpp`, `http_service.cpp`, `kv_service.cpp` | |
| `ThreadPoolNormal` | `thread_pool_normal.cpp` | |
| `AsyncClient` | `Client`, `ProgressMeter` and the timers of `kv_benchmark.cpp` and `client_async.cpp` | |
| `MCServer` | the threads of the server and of the lock benchmark side by side, one part per behaviour | `ThreadPoolNormal`, `ServiceManager`, `Connection`, `AsyncClient`, `LockTester` |
| `MCShared` | the objects that threads share side by side, one per behaviour | `FileCache`, `RequestStats`, `CircularBuffer`, `ListBasedSet`, `OpGenerator` |
| `SpinlockMcs` | `spinlock_mcs.hpp` | |
| `LockTester` | `LockTester` and `Increments` of `lock_benchmark.cpp` | `SpinlockMcs` |
| `CircularBuffer` | `circular_buffer.cpp` | |
| `ListBasedSet` | `list_set.cpp` | |
| `OpGenerator` | `op_generator.hpp/.cpp` | |
| `MC*` | the sets of threads, keys, files and the workloads of the runs | the module they extend |

### `LockFreeList`

| Model | Code |
|---|---|
| `cell[HeadLoc]`, `cell[n]` | `head_`, `n->next` with its mark bit |
| `data[n]` | `n->data` |
| `heap[n]` | whether address `n` has never been allocated, is allocated, or has been deleted |
| `hp[t][j]` | `hp_recs_[t].hazard_pointers[j]` |
| `retired[t]` | `retired_lists_[t]` |
| `pc[t]`, `reg[t]` | where thread `t` is in its call, and its locals: the `LookupContext` (`prev`, `cur`, `next`), `new_node`, `cur_key`, `temp`, the snapshot `active` and the slots still `todo` of `maybeFreeNodes` |
| `result[t]` | the value the last call returned |

`prev` is a *location*: `HeadLoc` stands for `&head_`, a node `n` for
`&n->next`; so `*prev` is `cell[reg[t].prev]` and `prev = &cur->next` is
`prev' = cur`.

| Action | Code |
|---|---|
| `CallInsert`, `CallRemove`, `CallLookup` | entry of the call; `insert` allocates `new_node` |
| `TryAgain` | `prev = start; cur = *prev;` and the loop test |
| `SetHazard` | `hp[0] = cur;` and the fence |
| `Validate` | `if (*prev != cur) goto try_again;` |
| `ReadNext` | `next = cur->next;` and the test of the mark |
| `Unlink` | the CAS that unlinks a marked node, `retireNode`, `cur = unmarked_next` |
| `ReadKey` | `cur_key = cur->data;` |
| `Revalidate` | second test of `*prev`, comparison with `key`, `prev = &cur->next` |
| `Rotate1`, `Rotate2` | `temp = hp[0]; hp[0] = hp[1];` and `hp[1] = temp; cur = next;` |
| `InsCas`, `InsDelete` | the CAS of `insert`; `delete new_node` when the key is there |
| `RemMark`, `RemUnlink` | the two CASes of `remove` |
| `retireNode` | insertion in the retired list and the threshold test (part of the step whose CAS unlinked the node: the retired list is the thread's own) |
| `Scan` | one read of another thread's hazard slot in `maybeFreeNodes` |
| `Reclaim` | the loop that deletes the retired nodes the snapshot does not hold |
| `Crashed` | a thread is about to use deleted memory: the behaviour of the process is undefined from there, and the model stops |

Decisions of the model:

* **No reuse of addresses.** `new` returns the lowest address never used; a
  deleted node keeps the status `freed`. Every use of deleted memory is then
  recognisable, and a step that would use it is not taken: the states the
  model explores are the states the program can be in before its first
  undefined access. Reuse of addresses, and with it ABA on a CAS, is outside
  the model.
* **Hazard slots start as `NULL`.** The constructor leaves them uninitialised;
  a garbage value in a slot can only keep a node from being reclaimed.
* **Fences.** Every access is sequentially consistent; the code has a full
  fence after every hazard store and uses `__sync` CASes.

### `AtomicSet` and `LockFreeListLin`

`AtomicSet` is the contract: a set of keys, calls with a beginning and an end,
a call that changes the set changing it in one step, and a call that changes
nothing answering with a membership of its key that held at some instant of
the call (`seen[t]`). `LockFreeListLin` adds the history variables `seen` and
`applied` to `LockFreeList` and instantiates `AtomicSet` with
`set <- Members` (the keys of the unmarked nodes reachable from `head_`) and
`call <- [t |-> Call(t)]`. The property `Linearizable == Abs!Spec` is the
refinement: every step of the list is a step of the atomic set or leaves it
unchanged.

### `SplitOrder` and `LockFreeHashTable`

`SplitOrder` has the arithmetic, over words of `W` bits instead of 32:
`reverse` is the loop of the code (`ReverseLoop`, one turn per bit),
`so_regularkey` sets the highest bit before it reverses, `GET_PARENT` clears
the highest bit that is set (`ShiftCount` is its loop).

| Model | Code |
|---|---|
| `data[n]`, `next[n]` | the list nodes; the domain of `data` is the set of nodes that are linked or held by a thread |
| `segments`, `bucket[i]` | the segments of `segment_table_` that are allocated, and entry `i` of its segment |
| `counter`, `buckets_size` | `counter_` (a word of `CounterBits` bits), `buckets_size_` |
| `op[t]`, `index[t]`, `csize[t]` | the call of thread `t`, its bucket, and the `csize` it read |
| `stack[t]` | the calls of `initialize_bucket` that are open, the innermost first (the recursion on the parent) |
| `start[t]`, `node[t]` | the node the next list call starts at; the dummy node `set_bucket` is given |
| `contents` | history: the keys whose `insert` returned true and whose `remove` has not |

| Action | Code |
|---|---|
| `Call`, `Check` | entry of `insert`, `remove`, `lookup`: the bucket of the key and the test `get_bucket(index) == NULL` |
| `InitParent`, `ReadStart`, `InsertDummy` | `initialize_bucket`: the recursion on the parent, the read of the parent's dummy, the insert of the new dummy from there |
| `SetSegment`, `SetBucket` | `set_bucket`: the CAS that allocates the segment, the store of the entry |
| `ListCall` | `list_.insert / remove / lookup(start, key)` with the regular key |
| `ReadSize`, `Count`, `Grow` | `csize = buckets_size_`, the fetch-and-add of `counter_` with the load test, the CAS that doubles |
| `Sub` | the fetch-and-sub of `remove` |

Decisions of the model:

* **A list call is one step.** `LockFreeList` shows the calls on `head_`
  linearizable; the start-node variants are the same loops. What the table adds
  is *where* a call starts: the list takes the start node by value, so a CAS on
  `prev == &start` changes the caller's copy and nothing in the list
  (`Local` in `ListCall`).
* **Addresses are chosen by key.** The code compares node addresses for
  equality only; the model gives the nodes of a key fixed addresses, so that
  states that differ only in addresses are one state.
* **`FirstCallAlone`.** With `TRUE` the first call of the table ends before
  any other begins, as in `kv_benchmark.cpp`, which fills the table before it
  serves. With `FALSE` two first calls race on bucket 0 (section 5).

### `FileCache`

| Model | Code |
|---|---|
| `cache_map[f]` = `[buf, stat]` | the node of `f` in `cache_map_`: the bytes of its buffer and the pin count |
| `bytes_used`, `num_pins`, `num_hits`, `num_failed` | the counters, `bytes_used` a word of `SizeBits` bits |
| `readers`, `writer` | who holds `rwm_` |
| `loc[t]`, `held[t]`, `ret[t]` | the locals of the call of `t`, the handles `t` holds, the handle its last `pin` returned |
| `fds` | the descriptors the process has open (`getFileSize` never closes its own) |
| `fatal` | `LOG(FATAL)` of `unpin` was written |

| Action | Code |
|---|---|
| `PinBegin`, `PinRLock`, `PinHit`, `PinMiss` | entry, `rwm_.rLock()`, the lookup with the fetch-and-add of the pin count, the unlock on a miss |
| `PinStat`, `PinLoad`, `PinLoadFails` | `getFileSize`, `loadFileToBuffer`, with no lock held |
| `PinWLock`, `Evict`, `PinInsert`, `PinDuplicate`, `PinNoSpace` | `rwm_.wLock()`, one turn of the eviction loop, and the three ways the critical section ends |
| `UnpinBegin`, `UnpinRLock`, `UnpinFind`, `UnpinSub` | `unpin`: the test of the pin count and the fetch-and-sub are two steps |

The callers pin any file and unpin what they hold, in any order. The files on
disk do not change while the cache runs.

### `HttpFileServer`

`FileCache` with the caller the server has: a worker in
`HTTPServerConnection::handleRequest`. `handleRequest(t, f)` is the call of
`file_cache_->pin` for the document of the request, the steps of `pin` are
those of `FileCache` (`PinStep`), and `Respond(t)` is the rest of the
function: the 200 or the 503 by the handle, and the return, with which the
handle, a local variable, is gone. `status[t]` is `"pending"` while worker `t`
handles a request, then the status line it wrote. No action calls `unpin`,
because the server does not.

### `RequestStats`

| Model | Code |
|---|---|
| `num_req[i][j]`, `last_update[i][j]` | `req_counter_[i][j]` |
| `clock` | `TicksClock::getTicks()`, which the callers read before they call |
| `now[c]`, `at[r]`, `req_counter[r]` | the argument `now`; for `getStats` the place `i * num_slots_ + j` of its loops and its local sum |
| `counted[t]`, `built`, `quiet[r]` | history: the requests that called with `now = t`; the time of the construction; no worker wrote since reader `r` called |

| Action | Code |
|---|---|
| `FinishCall`, `FinishCount`, `FinishStamp` | `finishedRequest`: the call, the test of the slot with the write of `num_req`, the write of `last_update` (the reset of a slot is two writes, and a reader can come between them) |
| `StatsCall`, `StatsTest`, `StatsAdd`, `StatsReturn` | `getStats`: for every slot the read of `last_update` and then the read of `num_req` |
| `Tick` | time passes |

Ticks are unsigned words of `TickBits` bits (`Age`), `ticks_per_second` is
`num_slots * TicksPerSlot`, and `current_slot` is the integer part of the
code's floating-point quotient. A row has one writer, which is what the header
asks of the callers ("the thread calling this should use its identifier").

### `Connection`

One server with HTTP and KV connections, as `server.cpp` sets it up: both
services share one service manager. A connection is the client object and the
server object with the socket between them.

| Model | Code |
|---|---|
| `response_cbs[c]`, `m_response[c]` | `response_cbs_` and the holder of `m_response_` of the client connection |
| `requests[c]`, `responses[c]` | the bytes on their way: `out_` of the writer, the socket and `in_` of the reader are one FIFO of messages |
| `ok[c]` | the client connection is open |
| `pc[s]`, `conn[s]`, `address[s]`, `user_response[s]` | client thread `s` inside `send`: where it is, the connection and the request, and `*user_response` |
| `stopped` | `my_service_->stop()` was called |
| `finished`, `pinned` | the calls of `RequestStats::finishedRequest`, and the handles that `FileCache::pin` gave and no code gives back |

| Action | Code |
|---|---|
| `AsyncSendPush` | `send` makes the callback, `asyncSend` locks `m_response_` and enqueues it |
| `AsyncSendWrite` | `request->toBuffer(&out_)` under `m_write_`, the unlock of `m_response_`, `startWrite` |
| `SendReturn` | `n->wait()` returns |
| `ServerReadDone` | one turn of the server's `readDone`: a request is parsed, consumed and handled by `HTTPServerConnection_handleRequest` or `KVServerConnection_handleRequest` (`HandleQuit`, `HandleStats`, `HttpServe`, `KvServe`) |
| `ClientReadDone` | one turn of the client's `readDone`: `handleResponse` takes the front callback, if any, and calls it (`receiveInternal`); or `ParseError` |

A message is abstracted to what the code branches on: the address of a
request (`quit`, `stats`, anything else), the kind of body of a response, and,
as history, the client whose request it answers. The outcome of `pin` and of
`lookup` is a choice of the step. The one conversion that is kept is the
framing: for a key that is not found `KVServerConnection::handleRequest`
writes `Content-Length: 0` and then a line of text, so the client gets a
complete response and after it bytes that are no response (`"junk"`).

### `ServiceManager`

`run`, `stop`, `stopped` and the destructor of `service_manager.cpp`, with
their callers: the callbacks of the io manager's workers (`acceptConnection`,
its error branch and the `quit` branch of `handleRequest`), user threads that
call `connect`, `asyncConnect` or `stop`, and the thread that calls `run()` and
then destroys the manager (`RunThenDelete` of `MCServiceManager` is that
order of `main` in `server.cpp`). A critical section of `m_stop_` is one step. The io
manager is not in `src/`: `PollReturn`, `IoJoin`, `Arrive` and `SignalAll` are
modelled from what the comments of `service_manager.cpp` say of it ("waits
until all previously enqueued callbacks were served; after which, the worker
threads are joined").

### `ThreadPoolNormal`

The queue, `beStop`, the mutex and the condition variable of
`thread_pool_normal.cpp`; `addTask`, `workerFunction`, `stop` with its join
loop, and the destructor. Everything between `m.lock()` and `m.unlock()` (or
the `cv.wait` that releases `m`) is one step. A task is plain work, a call of
`addTask` or a call of `stop`, the three workloads of `thread_pool_test.cpp`.
`pthread_join` and the condition variable follow POSIX (`JoinFails`, `Woken`,
`SpuriousWake`).

### `AsyncClient`

The two programs that drive a server with asynchronous clients. `main` opens
a connection per `Client` (`asyncConnect`), sets a timer and enters `run()`
(`run`). The chain of a `Client`:

| `pc[c]` | Code |
|---|---|
| `unconnected`, `connecting` | before and after `asyncConnect` |
| `doRequest` | `start` has called `acquire()` and calls `doRequest()` |
| `sent` | `doRequest` has sent a request and called `release()` |
| `rd_add` | `requestDone` of `kv_benchmark.cpp` has read `stopped()` as false and has not yet called `addTask` |
| `scheduled` | `request_cb_` is a task in the queue (`kv_benchmark.cpp`) or a timer of 5 ms (`client_async.cpp`) |
| `ended` | no callback of the chain will run |

`driver` says which of the two programs runs; they differ in `requestDone`
(`kv_requestDone` and `addTask`, `async_requestDone`) and in the timer of
`main` (`terminate`, `check`). `refs[c]` is the reference count of the
connection, `open[c]` says that the reactor has its socket, `timer` that the
timer of `main` is pending, `ticks` is the static `i` of
`ProgressMeter::check`; the 10 of the code is `MeterLimit`. `counter[c]` is
the `counter` of the `Client` of `kv_benchmark.cpp`; it also bounds the
responses a `Client` receives (`MaxResponses`).

The connection base class and the io manager are not in `src/`. What the model
takes from the specification of the system: a connection is deleted when its
count drops to zero, the io manager holds one reference while the socket is
open and gives it up on EOF or error (`Eof`); `stop()` serves the callbacks
that are queued and joins the workers, a timer that is pending never fires
(`Fires`, `runReturns`), and `addTask` after a stop does nothing (`addTask`).

### `MCServer` and `MCShared`

The modules of the server share no variable. `MCServer` instantiates
`ThreadPoolNormal`, `ServiceManager`, `Connection`, `AsyncClient` and
`LockTester`; `part` is chosen in the initial state and never changes, a
behaviour is a behaviour of that part, and the variables of the others stay
at their initial values. One run of TLC so checks each part with the states
it has alone. The fairness of a part is restated with the part as a conjunct
of the action (`WF_poolAll(part = "pool" /\ Pool!WorkerStep(w))`), so that it
asks nothing of a behaviour of another part. `MCShared` does the same with
`object` for `FileCache`, `RequestStats`, `CircularBuffer`, `ListBasedSet`
and `OpGenerator`. An invariant of one object is stated as
`object = "stats" => Stats!StatsNeverOvercount`: in the behaviours of the
other objects the variables it reads never leave their initial values, and
the premise spares TLC the evaluation there.

### `SpinlockMcs`

`tail`, and per thread `next`, `locked` and the local `pred`. `LockSwap` is
the store of `locked` and the swap of `tail_`, `Link` the store into the
predecessor's `next`, `Spin` the wait; `UnlockRead`, `UnlockCas`, `UnlockWait`,
`UnlockRelease` are the four accesses of `unlock`. `order` is a history
variable: the threads in the order of their swaps.

### `LockTester`

The benchmark of `lock_benchmark.cpp` with `Spinlock_mcs` as its lock, and
the caller of `SpinlockMcs` in the runs. Every thread runs `test()`: while
its local `increments` (`left`) is positive it locks (`LoopLock`, the
`LockSwap` of the lock), adds one to `requests_` `increments_step` times and
unlocks (`LoopUnlock`, the `UnlockRead` of the lock). `requests_ += 1` on a
plain `int` is a load (`Load`, into `reg`) and a store (`Store`), two steps
that only the lock keeps together. `join` is the `pthread_join` of every
thread: it is enabled when every `test()` has returned. After `join` nothing
happens; the test of line 90 is the property `AllCounted`.

### `CircularBuffer`

`elements` (a value and a read status per slot), `readPtr` and `writePtr` as
indices, and `bufferSlots`, which the constructor takes from its argument or
sets to 10 (`DefaultSlots`) for one that is not positive. `write`, `read`
and `clear` are one step each; the class is sequential. The constructor
leaves `value` uninitialised and nothing reads it before a write: the model
starts it at -1. The k-th `write` writes k, so that the values tell the
order they were written in. `ideal`, `underrun` and `written` are history
variables: the queue of the `bufferSlots` newest values that are not read,
whether a `read` has found that queue empty since the last `clear`, and the
number of writes.

### `ListBasedSet`

`head` (the code's `Head`), `value` and `next` per node, and `live`, the
nodes that are allocated. `insert`, `remove`, `lookup` and `checkIntegrity`
construct a `ScopedLock` on the mutex `m` in their first line: `Lock` is the
wait for it, and the rest of the body, with the unlock of its `return`, is
one step. The loops over the list are `Walk`, with the test that ends them
as its argument. `insert` allocates its node before it looks at the list and
deletes it again when the value is there: the model takes the node only when
it is linked, and `Nodes` has one address more than there are values.
`clear` takes no mutex, so it is a step per access:
`ClearRead` (`currentNode = Head`), `ClearDelete` for every node, and
`ClearReset` (`Head = NULL`). The constant `ClearAlone` states the
discipline of the callers: `clear` runs only while no other call does.
The only caller of `clear` in the repository is a test with one thread
(`list_set_test.cpp:58`).
`m` is a global of `list_set.cpp`, one mutex for every set of the program;
the model has one set. The destructor is the loop of `clear`.

### `OpGenerator`

`genOps(me)` fills `ops[me]`, the array a worker of `lock_free_list_test.cpp`
then works through: a positive number is an insert or a lookup of that key,
a negative one a remove. The four methods are operators. `AscPositiveStripe`
and `DescNegativeStripe` are the loops of the code, `num_workers * i + me + 1`
for `i` from 0 and its negation. The two shuffles call `random_shuffle` on
such a series: the model takes every permutation (`SetToSeqs`). `Generated`
is the choice of the method, which the code takes from its argument.

## 3. Runs

`tlc -workers 2 -config <cfg> <module>`; the times are of a run with two
workers.

| Run | Module, configuration | Properties | Result | Distinct states | Time |
|---|---|---|---|---|---|
| `list` | `MCLockFreeList`, `LockFreeList.cfg` | `TypeOK`, `ListIntegrity`, `RetiredOnce`, `CurProtected`, `Linearizable`, `LockFree` | holds | 2,142,999 | 3 min |
| `list_use_after_free` | `MCLockFreeList`, `LockFreeList_uaf.cfg` | `NoUseAfterFree` | **violated** | | 45 s |
| `hash` | `MCLockFreeHashTable`, `LockFreeHashTable.cfg` | `TypeOK`, `SplitOrdered`, `HoldsWhatItSaid`, `CounterTracksKeys`, `BucketsNestInSplitOrder` | holds | 444,618 | 75 s |
| `hash_lost_key` | `MCLockFreeHashTable`, `LockFreeHashTable_lost_key.cfg` | `HoldsWhatItSaid` | **violated** | | 1 s |
| `hash_first_calls` | `MCLockFreeHashTable`, `LockFreeHashTable_first_calls.cfg` | `HoldsWhatItSaid` | **violated** | | 2 s |
| `shared` | `MCShared`, `Shared.cfg` | `SharedTypeOK`, `PinCountExact`, `SizeBound`, `PinnedNeverEvicted`, `StatsNeverOvercount`, `StatsCountRecent`, `FifoUntilUnderrun`, `HeapIsChain`, `ActsAsSet`, `StripesExclusive` | holds | 3,427,942 | 2 min |
| `http_pin_leak` | `MCHttpFileServer`, `HttpFileServer_pins.cfg` | `PinnedWhileServed` | **violated** | | 1 s |
| `server` | `MCServer`, `Server.cfg` | `ServerTypeOK`, `TasksAccountedFor`, `QuietAfterStop`, `StopTerminates`, `QueuedTaskIsTaken`, `OneTeardown`, `RunReturnsAfterStop`, `NoHandlerOutlivesManager`, `StopCompletes`, `RunReturns`, `OwnResponse`, `SendReturns`, `AliveWhileUsed`, `BenchmarkEnds`, `MutualExclusion`, `FirstComeFirstServed`, `AllCounted`, `EveryWaiterEnters`, `UnlockReturns` | holds | 237,229 | 2 min |
| `sm_two_quits` | `MCServiceManager`, `ServiceManager_two_quits.cfg` | `StopCompletes` | **violated** | | 1 s |
| `connect_after_stop` | `MCServiceManager`, `ServiceManager_connect.cfg` | `ConnectReturns` | **violated** | | 4 s |
| `pool_stop_as_task` | `MCThreadPoolNormal`, `ThreadPoolNormal_stop_as_task.cfg` | `NoWorkerOutlivesPool` | **violated** | | 1 s |
| `stop_outlives_manager` | `MCServiceManager`, `ServiceManager_stop_waiter.cfg` | `StopCallsEndBeforeDelete` | **violated** | | 2 s |

Every property of a run that holds has a fault-injection variant listed under
`mutants` in `PROJECT.json`: with the action replaced by its variant, TLC
reports that property violated under the same configuration.

### What the properties say

* **`list`.** `ListIntegrity`: the chain from `head_` is sorted, free of
  duplicates and made of allocated nodes. `RetiredOnce`: a node is in at most
  one retired list, once, and only after it was unlinked. `CurProtected`: the
  node a thread holds as `cur` behind a validated hazard is not deleted.
  `Linearizable`: the list implements `AtomicSet`. `LockFree`: in a behaviour in which the
  threads take steps for ever, calls return for ever. No thread is promised
  anything: a thread may be starved or stop inside a call, and the retries
  of the others (`try_again` after a failed validation or CAS) must still
  end in a return.
* **`hash`.** `SplitOrdered`: the list is sorted by split-order key and every
  published bucket points at the dummy node of its index. `HoldsWhatItSaid`: a
  lookup from the bucket of a key finds it exactly if its `insert` returned
  true and no `remove` has since, with `insert` taking the bucket from
  `buckets_size_` and the others from `table_size_`. `CounterTracksKeys`:
  `counter_` is the number of keys, also in the moments a `remove` has
  subtracted before the `insert` of the key has added.
  `BucketsNestInSplitOrder`: the arithmetic of `SplitOrder` is what the
  table needs of it at every size the table grows to; the dummy key of a
  key's bucket is the last dummy key before the key's own
  (`DummyBeforeItsKeys`), and the parent of a bucket is the bucket its keys
  were in when the table had half the size (`ParentIsCoarserBucket`).
* **`shared`.** Of the cache, `PinCountExact`: the pin count is the number of handles
  out. `PinnedNeverEvicted`: no step removes a file somebody holds.
  `SizeBound`: `bytes_used_` is the sum of the buffers and at most
  `max_size_`, also when two callers load one file and the second finds the
  entry made. Of the statistics, `StatsNeverOvercount`: however the reads of `getStats` fall
  between the two writes of a worker that reuses a slot, the sum never
  exceeds the requests finished in the second that ends at `now`, or later.
  `StatsCountRecent`: with no worker writing during the call, every request of
  the last second but its first twentieth is in the sum. Of the ring,
  `FifoUntilUnderrun`: the unread slots from the read pointer on are the
  newest `bufferSlots` values written and not read, oldest first, and no
  other slot is unread, as long as no `read` was called on an empty ring.
  Of the list, `HeapIsChain`: the allocated nodes are the nodes of the list,
  each once, with strictly ascending values; and `ActsAsSet`, an action
  property: every call changes the values of the list and returns as the
  operation on a set of integers does. Of the generator,
  `StripesExclusive`: whatever method filled it, the series of worker `me`
  names exactly the keys `k` of `1 .. num_workers * size` with
  `(k - 1) % num_workers = me`, each once, all to insert or all to remove;
  so two workers never meet on a key, which is what the tests of the
  lock-free list count on when they compare the list with the sum of what
  the workers did.
* **`server`.** Of the connections, `OwnResponse`: `send` returns the response to its own request.
  `SendReturns`: a `send` that waits returns, unless the service was stopped
  or the connection closed. Of the manager, `OneTeardown`, `RunReturnsAfterStop`, `NoHandlerOutlivesManager`,
  and under fairness `StopCompletes` and `RunReturns`. Of the pool,
  `TasksAccountedFor`: every task is in the queue, in the hands of
  one worker, or has run. `QuietAfterStop`; and under fairness
  `StopTerminates` and `QueuedTaskIsTaken`: no wake-up is lost. Of the
  asynchronous clients, `AliveWhileUsed`: a connection whose socket the
  reactor has, or whose callback is running or scheduled, has a reference,
  whatever the order of EOF, response, timer and stop; and under fairness
  `BenchmarkEnds`: `main` returns from `run()`, which takes
  `ProgressMeter::check` to set its timer again until it stops the service.
  Of the lock: `MutualExclusion`, `FirstComeFirstServed` (by `order`), and
  under fairness `EveryWaiterEnters` and `UnlockReturns`. The two are stated
  as "again and again, thread `t` is not waiting": a thread leaves its spin
  only as the holder and the wait of `unlock` only towards its return, so
  this is the same as "a thread that waits gets on", and TLC checks it
  without a tableau per thread. Of the benchmark, `AllCounted`: `requests_`
  is at every moment the sum of what the threads have counted down of their
  `increments`, and `increments * num_threads` once they are joined.
  `ServerTypeOK` and `SharedTypeOK` are the type invariants of the modules
  of the run.
* **`stop_outlives_manager`.** `StopCallsEndBeforeDelete`: when the
  destructor has deleted the manager, no caller of `stop()` is still in its
  wait for `stopped_`.

### Bounds, and why they are enough

| Run | Bounds | What they let happen |
|---|---|---|
| `list` | 2 threads, 2 keys, 2 nodes, `MaxRetired = 1` | a node is inserted, marked by one thread and unlinked by the other, retired, queued and reclaimed while the other thread holds or has just dropped its hazard; both outcomes of every CAS; a traversal restarted by a failed validation. The nodes are what caps `new`: an `insert` with no node left is not enabled |
| `list_use_after_free` | the same with `MaxRetired = 0` | `retireNode` scans at once, as `maybeFreeNodes` does at its threshold; the counterexample has one reader and one remover |
| `hash` | 2 threads, words of 3 bits, keys 0..3, 2 buckets growing to 4, `MAX_LOAD = 1`, a counter of 3 bits | buckets initialised through their parent by two threads at once, the table doubling while an operation is under way, `remove` of a key whose `insert` has linked and not yet counted |
| `hash_lost_key` | 1 thread, words of 4 bits, 3 buckets, keys 1 and 4 | a number of buckets that is no power of two, as the 10000 of the code |
| `hash_first_calls` | the constants of `hash` with `FirstCallAlone = FALSE` | two threads that both find bucket 0 uninitialised |
| `shared` | cache: 3 threads, files of 1, 1 and 2 bytes and a missing one, `max_size_` 2, `MaxPins = 4`, 9 descriptors. Statistics: 2 workers, 1 reader, 2 slots of 2 ticks, ticks of 5 bits, time up to 7, 3 requests. Ring: constructor arguments -1, 1, 2, 3, 4, `MaxWrites = 10`. List: 3 threads, values 1..4, 5 node addresses. Generator: 3 workers, series of 3 | cache: hit, miss, a load that needs an eviction, an eviction that finds everything pinned, two loads of one file at a time, a file too large to cache. `MaxPins` caps the handles out at once. Statistics: a slot reused after a full turn, a reader between the two writes of the reuse, a table built on a slot boundary and off it. Ring: rings of 1, 2, 3, 4 and 10 slots, written round more than once, overwritten when full (three slots and the writes of 0 to 9, after which the reads return 7 and 8), read when empty, cleared. `MaxWrites` caps the calls of `write`. List: every order of the values, insert at the head, in the middle and at the end, of a value that is there, remove of each position, two threads waiting for the mutex of a third; `Nodes` caps `new` one above what the values can use. Generator: every method for every worker, every order of a shuffle, a series replaced by a later call |
| `http_pin_leak` | 2 workers, the files of `shared`, `max_size_` 2 | two requests, the second for a file that needs the room of the first |
| `server` | pool: 3 workers, 4 tasks of every kind, 2 stops. Manager: 2 workers, 2 users, 1 runner; `stop` from one callback or from the users. Connections: 2 client threads, an HTTP and a KV connection, 5 sends. Clients: 2 `Client`s of either program, 2 responses each, `MeterLimit = 2`. Lock: 3 threads, `increments` 6, `increments_step` 2 | pool: tasks that add tasks, a task added while every worker sleeps, `stop` twice, a spurious wake-up, a join that fails. Manager: `stop` from two threads at once, `stop` before and during `run`, a connection accepted while the manager stops. Connections: two requests in flight on one connection, responses in and out of the order of the callbacks, a `quit` ahead of a request, a KV miss ahead of a request. Clients: a connect that fails, an EOF before, between and after the callbacks, the stop between `stopped()` and `addTask`, a timer pending at the stop, a tick that sets the timer again and one that stops. Lock: a waiter with a predecessor and a successor, `unlock` racing the `Link` of the next thread, each thread taking the lock three times with two additions per hold |
| `sm_two_quits` | 2 workers, 1 user, two callbacks that call `stop` | the second `stop` called from a worker the first one joins |
| `connect_after_stop` | the manager of `server` | a user in `connect()` when `stop()` has stopped the io manager |
| `pool_stop_as_task` | the pool of `server` with 1 stop | `stop` as a task, then the destructor |
| `stop_outlives_manager` | the manager of `server` with `stop` from the users, and `run()` before the destructor | two users in `stop()`, one tearing down and one waiting, and the thread of `main` |

The runs `shared`, `server`, `http_pin_leak`, `sm_two_quits`,
`connect_after_stop` and `stop_outlives_manager` do not check deadlock: a cache whose callers hold
`MaxPins` handles, a benchmark whose threads are joined or whose `main` has
returned (the program ends there), a manager that was destroyed and clients
that have sent `MaxSends` requests are ends of the model, not of the program.

## 4. Findings

Each of these is a run in which TLC reports the property violated; the trace
is a schedule of the code.

1. **`list_use_after_free`, `lock_free_list.hpp:248`.** `lookupInternal`
   advances with `temp = hp[0]; hp[0] = hp[1]; hp[1] = temp;`. Between the
   second and the third store the node `prev` points into is in neither
   hazard slot; a thread that has retired it and scans in that window deletes
   it, and the traversal goes on in deleted memory.
2. **`hash_lost_key`, `lock_free_hash_table.cpp:30`.** `insert` takes the
   bucket from `buckets_size_`, which is 10000, and `lookup` and `remove` from
   `table_size_`. With a number of buckets that is no power of two, the dummy
   node of `key % buckets_size_` can sort after the key: the key is inserted
   before its dummy and a search from the dummy never meets it.
3. **`pool_stop_as_task`, `thread_pool_normal.cpp:19`.** The destructor calls
   `stop()` only `if (!beStop)`. After a `stop()` that ran as a task, as in
   `thread_pool_test.cpp`, `beStop` is set and the destructor deletes the
   threads and the queue while workers still run.
4. **`sm_two_quits`, `service_manager.cpp:72`.** A callback that calls
   `stop()` while another thread tears the manager down waits for `stopped_`
   on the worker that the tearing thread is joining: neither returns.
5. **`hash_first_calls`, `lock_free_hash_table.cpp:109`.** `initialize_bucket`
   of bucket 0 tests `buckets_[0]` and, when it is empty, links a dummy node
   behind its own start pointer and stores it. Two threads whose first calls
   overlap both find it empty and each builds a list of its own; the second
   store wins, and a key inserted in the list of the other is lost to every
   later call.
6. **`connect_after_stop`, `http_service.cpp:67`.** `asyncConnect` returns
   at once when the manager is stopped, without calling the callback
   (`http_service.cpp:49-52`), although `http_service.hpp:54-61` has it issue
   the callback with the result of the attempt. `connect()` waits on a
   `Notification` that only its callback signals: a `connect()` that begins
   after `stop()` was requested never returns, and its thread is still
   blocked when the manager is deleted.
7. **`http_pin_leak`, `http_connection.cpp:102`.** `handleRequest` pins the
   document and returns without `unpin` (`file_cache.hpp:67-68` declares it
   for the caller). The pin count of a file is then above the number of
   requests that use its buffer, `evict` (`file_cache.cpp:52`) takes only
   files with count 0, and once the served files fill `max_size_` every
   other file is answered with 503 for good.
8. **`stop_outlives_manager`, `service_manager.cpp:74`.**
   `service_manager.hpp:26-28` declares `stop()` safe to call from any
   thread and more than once. The first caller tears down and sets
   `stopped_`; `signalAll` wakes the second caller, who sleeps in
   `cv_stopped_.wait(&m_stop_)`, and the thread in `run()`. `run()` returns
   and `main` deletes the manager while the second caller has yet to take
   `m_stop_` again inside `wait`: it locks a mutex that is destroyed.
   `run()` holds until `stop()` has completed for the caller that tears
   down, not for the others.

## 5. Observations

Behaviour the modules show that no run is kept for.

* **A miss that loses the race reads as "no space"**
  (`file_cache.cpp:39`). Two callers miss on one file; both load; the second
  finds the entry made, frees its buffer and returns a null handle with no
  error set, which the header gives as the sign of a full cache.
  `NullHandleMeansNoSpace` of `FileCache`, checked alone under the constants
  of the cache in `Shared.cfg`, is violated after two pins. The accounting is
  not touched by it (`SizeBound`).
* **Requests counted under the stamp of the construction**
  (`request_stats.hpp:54`). The constructor stamps every slot with its own
  time. A request in the same twentieth of a second, one turn of the table
  later, adds to the slot without resetting it, and the next request in that
  slot resets it as stale: requests of the first twentieth after the
  construction can be missing from `getStats`. `StatsCountRecent` is stated
  from the twentieth after `built` on; from `built` on, TLC reports it
  violated.
* **A KV miss closes the connection** (`kv_connection.cpp:118`). The response
  says `Content-Length: 0` and is followed by a line of text. The client
  takes the text for the start of the next response, fails to parse it and
  closes; sends that wait on that connection do not return (`SendReturns`
  excepts a connection that closed).
* **Sends after `quit`** (`http_connection.cpp:59`). `quit` is not answered
  and the server stops reading: the sender of `quit`, and every sender behind
  it, waits for good (`SendReturns` excepts a stopped service).
* **A reference kept by a stop between `stopped()` and `addTask`**
  (`kv_benchmark.cpp:95`). `requestDone` reads `stopped()` as false, calls
  `acquire()` and then `addTask(request_cb_)`; with the stop in between,
  `addTask` does nothing, `doRequest` never runs and its `release()` is
  never called. The connection outlives the run by one reference, which the
  program, about to exit, does not notice. `AliveWhileUsed` states the
  other direction only.
* **A timer that is pending at the stop** (`client_async.cpp:123`). The
  `Client`s of `client_async.cpp` hold a reference for a timer of 5 ms;
  a timer that has not fired when `ProgressMeter::check` stops the service
  never does, and its reference stays.
* **A read of an empty ring** (`circular_buffer.cpp:40`). `read()` returns
  -1 for a slot that is read and moves the read pointer all the same, past
  the write pointer. With three slots: a read of the empty ring, then the
  writes of a, b and c; the reads return b, c and a. After a read of the
  empty ring and one write, the next read returns -1 although a value
  waits. `FifoUntilUnderrun` without its premise is violated after a read
  and a write. The unit test reads an empty ring only as its last call.
* **`clear()` beside another call** (`list_set.cpp:104`). With
  `ClearAlone = FALSE` in `MCShared`, `HeapIsChain` is violated after
  three steps: `clear` reads `Head` as NULL and an `insert` links a node;
  the `Head = NULL` that follows loses the node, which is leaked. With a list
  that is not empty the `insert` walks nodes that `clear` has deleted.
* **One mutex for every set** (`list_set.cpp:7`). `m` is a global of the
  file, not a member: two sets of one program exclude each other's calls.
  Nothing goes wrong by it; the model has one set.
* **`increments` that is no multiple of `increments_step`**
  (`lock_benchmark.cpp:55`). The inner loop does not test `increments`, so
  every thread adds a whole number of batches: `requests_` ends above
  `incs * num_threads` and `Increments` prints that the tasks are not
  finished. `main` calls it with 100000 and steps of 1, 10 and 200, which
  divide it; `AllCounted` is stated for such values.
* **Tasks deleted before the pool that holds them**
  (`thread_pool_benchmark.cpp:72`). The benchmark adds 1000 tasks, calls
  `stop()`, deletes the tasks and then the pool. `stop()` lets the workers
  leave with tasks in the queue (`workerFunction` tests `beStop` before the
  queue): with `Kinds <- {"work"}` in `MCThreadPoolNormal`, "the queue is
  empty when `stop` has returned" is violated after one `addTask`. The
  destructor of the pool calls `once()` on every task left
  (`thread_pool_normal.cpp:23`), here on tasks that are deleted.
* **The test `request_stats_test.cpp:62-64`** calls `finishedRequest` for one
  row from several threads, which the model's one writer per row excludes.

### Known limits

* The files on disk are fixed. With a file rewritten between `getFileSize`
  and `loadFileToBuffer`, or between load and eviction, the byte accounting of
  `FileCache` is wrong by construction (`file_cache.cpp:58`).
* `getFileSize` opens the file and never closes the descriptor
  (`file_cache.cpp:114`): after enough misses every open fails and every
  pin returns null. The model counts the descriptors, and the runs give the
  cache more of them than their calls can use.
* A list node's address is never reused, so a CAS that meets a recycled node
  is outside the model; the hazard pointers are what excludes it in the code.
* The model stops when the destructor has deleted the service manager: what
  a thread that is still inside `stop()` does with the deleted mutex is
  undefined, and not followed (finding 8).

## 6. Fairness

| Module | Assumed | Why the code justifies it |
|---|---|---|
| `LockTester` with `SpinlockMcs` | weak fairness of `test(t)` for every thread, and of `join` | a thread of the benchmark is running code from its start to the return of `test()`: it is scheduled inside `lock` and `unlock`, and between them; the main thread sits in `pthread_join` |
| `ThreadPoolNormal` | weak fairness of the steps of every worker | a worker is a thread in a loop; it takes the mutex when it is free, and a notified waiter wakes. The clients owe nothing |
| `ServiceManager` | weak fairness of the steps of `stop`, of the workers, of the connect steps of the users, and of `PollReturn` or `RunWait` | as above; the workers of the io manager serve what is enqueued |
| `AsyncClient` | weak fairness of the steps of `main` (`asyncConnect`, `run`, `runReturns`), of the timer of `main` (`terminate`, `check`) and of `doRequest` and `addTask` of every `Client` | `main` is a thread that runs to its end; the io manager fires a timer that is due and serves a task that is queued while it polls. Nothing is assumed of the server: a response may never come, an EOF may |
| `Connection` | weak fairness of `ServerReadDone` and `ClientReadDone` of every connection, and of `AsyncSendWrite` and `SendReturn` of every client | the io manager calls `readDone` when bytes have arrived; a thread that holds `m_response_` goes on to write |

`MCServer` restates the fairness of its modules with the part of the
behaviour as a conjunct of each action.
`LockFreeListLin` assumes no fairness: lock-freedom is stated of the
behaviours that do not end, as its definition has it. `LockFreeHashTable`,
`FileCache`, `HttpFileServer`, `RequestStats`, `CircularBuffer`,
`ListBasedSet` and `OpGenerator` are checked for safety only, with no
fairness.

## 7. What is not modelled

| Part | Why |
|---|---|
| The variants of the list operations that start at a given node | `LockFreeHashTable` uses them as single steps on a sorted list; the search itself is that of `lookupInternal` |
| Destructors of the list, the table and the hazard pointers | declared not thread safe; they run when no other thread does |
| The text of requests and responses, headers, status codes | a message is its address or the kind of its body |
| The io manager, the connection base class, descriptors, buffers, the parsers, the clocks, `Callback`, `Notification` | not in `src/`; modelled from their use and from the specification of the system where an action depends on them (the definitions `PROJECT.json` marks `spec_modelled`) |
| `cpu_arch` | constants of the machine |
| `server.cpp`, `client_sync.cpp`, `thread_pool_benchmark.cpp`, the benchmark of the table, `main` of `lock_benchmark.cpp`, the argument parsing and the printing of `kv_benchmark.cpp` and `client_async.cpp` | they wire components, draw workloads and measure time: the environments of the modules. What they do to shared state is one call of a modelled component after another from one thread (`server.cpp`: `run()` then the destructors, the order `RunThenDelete` states; `client_sync.cpp`: `connect` and `send`, which `ServiceManager` and `Connection` have; `thread_pool_benchmark.cpp`: `addTask` and `stop`, which `ThreadPoolNormal` has). `LockTester` of `lock_benchmark.cpp` and the `Client`s of the two asynchronous programs are modelled |
| The destructors of `CircularBuffer` and `ListBasedSet` | they free the memory when no caller is left |
| The unit tests | read for what they expect |

## 8. Plan

The project has twelve runs, which is as many as it keeps; a new question
takes the place of a run or joins one. The hash table stays a run of its
own: beside the objects of `shared` its states take that run past five
minutes.

1. `ListBasedSet` with `clear()` beside the other calls as a run of its
   own (`list_set.cpp:104`), in place of the observation.
2. The operations of the list inside `LockFreeHashTable` step by step
   instead of as one step.
3. `RequestStats` with several writers of one row, as the test uses it.
4. The pool of `thread_pool_benchmark.cpp` with the lifetime of its tasks,
   in place of the observation.
5. `AsyncClient` composed with `Connection`: the responses of the server as
   the `requestDone` of the clients, in place of the free choice between a
   response and an EOF.
