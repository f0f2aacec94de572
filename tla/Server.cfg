\* The thread pool, the service manager, the connections and the
\* asynchronous clients, one part in a behaviour.  Pool: three workers and
\* a client that adds up to four tasks, stops and destroys the pool; a task may add a task or call stop(), and at
\* most two tasks call stop(), since three can join one another in a cycle.
\* Manager: two workers, two users and the thread that runs and destroys
\* the manager; stop() is called by the destructor and, besides, either by
\* one callback or by the two users.  Connection: two clients that call send
\* five times between them, on the HTTP and on the KV connection of one
\* server.
\* Lock: the benchmark with three threads that each add six to the counter,
\* two under one hold of the lock.
\* Clients: two Clients of kv_benchmark.cpp or of client_async.cpp, each
\* with up to two responses; ProgressMeter stops on its second tick.
CONSTANTS
    w1 = w1
    w2 = w2
    u1 = u1
    u2 = u2
    runner = runner
    c1 = c1
    c2 = c2
    http = http
    kv = kv
    NumWorkers = 3
    MaxTasks = 4
    MaxStops = 2
    MaxStopCallbacks = 1
    MaxSends = 5
    MeterLimit = 2
    MaxResponses = 2
    t1 = t1
    t2 = t2
    t3 = t3
    NULL = NULL
    increments = 6
    increments_step = 2
SPECIFICATION ServerFairSpec
INVARIANTS
    ServerTypeOK
    TasksAccountedFor
    QuietAfterStop
    OneTeardown
    RunReturnsAfterStop
    NoHandlerOutlivesManager
    OwnResponse
    AliveWhileUsed
    MutualExclusion
    FirstComeFirstServed
    AllCounted
PROPERTIES
    StopTerminates
    QueuedTaskIsTaken
    StopCompletes
    RunReturns
    SendReturns
    BenchmarkEnds
    EveryWaiterEnters
    UnlockReturns
\* The clients stop when they have sent MaxSends requests, the benchmarks
\* when main has returned or has joined its threads.
CHECK_DEADLOCK FALSE
