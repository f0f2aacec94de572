------------------------------ MODULE MCServer ------------------------------
(***************************************************************************)
(* The threads of the repository for TLC: the thread pool                  *)
(* (ThreadPoolNormal), the service manager with the callbacks of the       *)
(* services (ServiceManager), the request pipeline of the connections      *)
(* (Connection), the asynchronous clients (AsyncClient) and the lock       *)
(* benchmark on the MCS lock (LockTester).  The modules share no           *)
(* variable.  A behaviour is a behaviour of one of them, chosen by `part`  *)
(* in the initial state, so that one run of TLC checks each of them with   *)
(* the state space it has alone, under the fairness of its own threads.    *)
(***************************************************************************)
EXTENDS Integers, Sequences, FiniteSets

CONSTANTS
    w1, w2, u1, u2, runner,   \* the threads of the service manager
    c1, c2, http, kv,         \* the clients and the connections
    NumWorkers, MaxTasks, MaxStops,    \* ThreadPoolNormal
    MaxStopCallbacks,                  \* ServiceManager
    MaxSends,                          \* Connection
    MeterLimit, MaxResponses,          \* AsyncClient
    t1, t2, t3, NULL, increments, increments_step      \* LockTester

VARIABLES
    part,
    \* ThreadPoolNormal
    TaskQueue, beStop, pool_pc, cur, jdx, joiner, inDtor, stopCalled,
    stopReturned, pool_destroyed, added, ran,
    \* ServiceManager
    stop_requested, stopped, accepting, ioStopped, pending, arrived,
    connecting, notified, conns, destroyed, sm_pc, ret,
    \* Connection
    conn_pc, conn, address, user_response, m_response, response_cbs,
    requests, responses, ok, conn_stopped, sends, finished, pinned,
    \* AsyncClient
    driver, main, client_pc, refs, open, client_ok, counter, timer, ticks,
    client_stop,
    \* LockTester on SpinlockMcs
    tail, next, locked, pred, lock_pc, order, lock_requests, left, i, reg,
    joined

\* The workloads of thread_pool_test.cpp: a task may add a task or call
\* stop().
AllTasks == {"work", "add", "stop"}

\* Two connections, one accept error and one "quit" request.
MCMaxOf == [accept |-> 2, accept_error |-> 1, quit |-> 1]

Pool == INSTANCE ThreadPoolNormal
            WITH Kinds <- AllTasks, pc <- pool_pc, destroyed <- pool_destroyed

SM == INSTANCE ServiceManager
          WITH Workers <- {w1, w2}, Users <- {u1, u2}, Runner <- runner,
               MaxOf <- MCMaxOf, UsersStop <- TRUE, pc <- sm_pc

Conn == INSTANCE Connection
            WITH Clients <- {c1, c2}, HttpConns <- {http}, KvConns <- {kv},
                 pc <- conn_pc, stopped <- conn_stopped

\* Two of the Clients of clients[], on the connections c1 and c2.
AC == INSTANCE AsyncClient
          WITH Clients <- {c1, c2}, pc <- client_pc, ok <- client_ok,
               stop_requested <- client_stop

\* Three threads of the benchmark, and the main thread that joins them.
Lock == INSTANCE LockTester
            WITH Threads <- {t1, t2, t3}, pc <- lock_pc,
                 requests <- lock_requests

poolAll       == <<TaskQueue, beStop, pool_pc, cur, jdx, joiner, inDtor,
                   stopCalled, stopReturned, pool_destroyed, added, ran>>
managerAll    == <<stop_requested, stopped, accepting, ioStopped, pending,
                   arrived, connecting, notified, conns, destroyed, sm_pc, ret>>
connectionAll == <<conn_pc, conn, address, user_response, m_response,
                   response_cbs, requests, responses, ok, conn_stopped, sends,
                   finished, pinned>>
clientAll     == <<driver, main, client_pc, refs, open, client_ok, counter,
                   timer, ticks, client_stop>>
lockAll       == <<tail, next, locked, pred, lock_pc, order, lock_requests,
                   left, i, reg, joined>>
serverVars == <<part, poolAll, managerAll, connectionAll, clientAll, lockAll>>

ServerInit ==
    /\ part \in {"pool", "manager", "connection", "client", "lock"}
    /\ Pool!Init /\ SM!Init /\ Conn!Init /\ AC!Init /\ Lock!TesterInit
    /\ part # "client" => driver = "kv_benchmark"

ServerNext ==
    /\ UNCHANGED part
    /\ \/ part = "pool" /\ Pool!Next
             /\ UNCHANGED <<managerAll, connectionAll, clientAll, lockAll>>
       \/ part = "manager" /\ SM!Next
             /\ UNCHANGED <<poolAll, connectionAll, clientAll, lockAll>>
       \/ part = "connection" /\ Conn!Next
             /\ UNCHANGED <<poolAll, managerAll, clientAll, lockAll>>
       \/ part = "client" /\ AC!Next
             /\ UNCHANGED <<poolAll, managerAll, connectionAll, lockAll>>
       \/ part = "lock" /\ Lock!TesterNext
             /\ UNCHANGED <<poolAll, managerAll, connectionAll, clientAll>>

ServerSpec == ServerInit /\ [][ServerNext]_serverVars

\* The fairness of each module (its Fairness), for the behaviours of its
\* part: the workers of the pool; the threads inside stop(), the workers of
\* the io manager, a user inside connect() and the runner inside run(); the
\* readDone of every connection and a client inside send; main, the timers
\* and the tasks of the asynchronous clients; the threads of the lock
\* benchmark and the join of its main thread.
PoolFairness ==
    \A w \in Pool!Workers : WF_poolAll(part = "pool" /\ Pool!WorkerStep(w))

ManagerFairness ==
    /\ \A t \in SM!Threads : WF_managerAll(part = "manager" /\ SM!StopStep(t))
    /\ \A w \in {w1, w2} : WF_managerAll(part = "manager" /\ SM!WorkerStep(w))
    /\ \A u \in {u1, u2} :
           WF_managerAll(part = "manager" /\ (SM!AsyncConnect(u) \/ SM!StartConnect(u)
                                                \/ SM!ConnectReturn(u)))
    /\ WF_managerAll(part = "manager" /\ (SM!PollReturn \/ SM!RunWait))

ConnectionFairness ==
    /\ \A c \in {http, kv} :
           /\ WF_connectionAll(part = "connection" /\ Conn!ServerReadDone(c))
           /\ WF_connectionAll(part = "connection" /\ Conn!ClientReadDone(c))
    /\ \A s \in {c1, c2} :
           /\ WF_connectionAll(part = "connection" /\ Conn!AsyncSendWrite(s))
           /\ WF_connectionAll(part = "connection" /\ Conn!SendReturn(s))

ClientFairness ==
    /\ WF_clientAll(part = "client" /\ AC!run)
    /\ WF_clientAll(part = "client" /\ AC!terminate)
    /\ WF_clientAll(part = "client" /\ AC!check)
    /\ WF_clientAll(part = "client" /\ AC!runReturns)
    /\ \A c \in {c1, c2} :
           /\ WF_clientAll(part = "client" /\ AC!asyncConnect(c))
           /\ WF_clientAll(part = "client" /\ AC!doRequest(c))
           /\ WF_clientAll(part = "client" /\ AC!addTask(c))

LockFairness ==
    /\ WF_lockAll(part = "lock" /\ Lock!join)
    /\ \A t \in {t1, t2, t3} : WF_lockAll(part = "lock" /\ Lock!test(t))

ServerFairSpec ==
    ServerSpec /\ PoolFairness /\ ManagerFairness /\ ConnectionFairness
               /\ ClientFairness /\ LockFairness

-----------------------------------------------------------------------------
\* Every variable of the modules has a value of its type.
ServerTypeOK ==
    Pool!TypeOK /\ SM!TypeOK /\ Conn!TypeOK /\ AC!TypeOK /\ Lock!TesterTypeOK

\* The properties of ThreadPoolNormal, ServiceManager, Connection,
\* AsyncClient, SpinlockMcs and LockTester, each stated and explained in
\* its module.
TasksAccountedFor        == Pool!TasksAccountedFor
QuietAfterStop           == Pool!QuietAfterStop
StopTerminates           == Pool!StopTerminates
QueuedTaskIsTaken        == Pool!QueuedTaskIsTaken
OneTeardown              == SM!OneTeardown
RunReturnsAfterStop      == SM!RunReturnsAfterStop
NoHandlerOutlivesManager == SM!NoHandlerOutlivesManager
StopCompletes            == SM!StopCompletes
RunReturns               == SM!RunReturns
OwnResponse              == Conn!OwnResponse
SendReturns              == Conn!SendReturns
AliveWhileUsed           == AC!AliveWhileUsed
MutualExclusion          == Lock!MutualExclusion
FirstComeFirstServed     == Lock!FirstComeFirstServed
AllCounted               == Lock!AllCounted
EveryWaiterEnters        == Lock!EveryWaiterEnters
UnlockReturns            == Lock!UnlockReturns
\* The property of AsyncClient, for the behaviours of the clients.
BenchmarkEnds            == part = "client" => AC!BenchmarkEnds

=============================================================================
