--------------------------- MODULE ServiceManager ---------------------------
(***************************************************************************)
(* Starting and stopping the services: ServiceManager::run, stop and       *)
(* stopped (src/service_manager.cpp) and the code of the HTTP and KV       *)
(* services that calls them from worker threads and from the user's        *)
(* threads (src/http_service.cpp, src/kv_service.cpp, the "quit" branch of *)
(* handleRequest).                                                         *)
(*                                                                         *)
(* The io manager and the acceptors are not part of src/; they are         *)
(* modelled from service_manager.cpp's comments: poll() blocks until the   *)
(* io manager is stopped, and IOManager::stop() "waits until all           *)
(* previously enqueued callbacks were served.  After which, the worker     *)
(* threads are joined."  A critical section of m_stop_ is one step.        *)
(***************************************************************************)
EXTENDS Integers, FiniteSets

CONSTANTS
    Workers,     \* the worker threads of the io manager
    Users,       \* threads of the program that are not workers
    Runner,      \* the thread that calls run() and then destroys the manager
    MaxOf,       \* bound of the model: MaxOf[k] callbacks of kind k arrive
    MaxStopCallbacks, \* bound of the model: the callbacks that call stop()
    UsersStop    \* whether the users call stop()

Threads == Workers \cup Users \cup {Runner}

\* The callbacks the io manager hands to a worker: a connection was accepted,
\* accept failed, a "quit" request was read.
Kinds == {"accept", "accept_error", "quit"}

VARIABLES
    stop_requested,  \* stop_requested_
    stopped,         \* stopped_
    accepting,       \* the acceptors: "no", "yes", "closed"
    ioStopped,       \* IOManager::stop() has been called
    pending,         \* pending[k]: the callbacks of kind k not yet taken
    arrived,         \* arrived[k]: the callbacks of kind k enqueued so far
    connecting,      \* the users whose connect callback is enqueued
    notified,        \* the users whose Notification has fired
    conns,           \* the number of server connections created
    destroyed,       \* the destructor has deleted the io manager
    pc,              \* where each thread is
    ret              \* ret[t]: where t goes on when its stop() returns

vars == <<stop_requested, stopped, accepting, ioStopped, pending, arrived,
          connecting, notified, conns, destroyed, pc, ret>>

stopVars == <<stop_requested, stopped>>
ioVars   == <<accepting, ioStopped, pending, arrived>>
connVars == <<connecting, notified, conns>>

PCs == {"idle", "a_check", "e_check", "a_new", "exited",
        "user", "c_check", "c_start", "c_wait",
        "init", "poll", "r_lock", "r_sleep", "ran", "dtor", "gone",
        "stop", "s_sleep", "s_retest", "s_close", "s_io", "s_join", "s_finish"}

TypeOK ==
    /\ stop_requested \in BOOLEAN /\ stopped \in BOOLEAN
    /\ accepting \in {"no", "yes", "closed"}
    /\ ioStopped \in BOOLEAN /\ destroyed \in BOOLEAN
    /\ pending \in [Kinds -> Nat] /\ arrived \in [Kinds -> Nat]
    /\ \A k \in Kinds : pending[k] <= arrived[k] /\ arrived[k] <= MaxOf[k]
    /\ connecting \subseteq Users /\ notified \subseteq Users
    /\ conns \in 0 .. MaxOf["accept"]
    /\ pc \in [Threads -> PCs] /\ ret \in [Threads -> PCs]

\* ServiceManager(num_workers): the workers wait for callbacks, nothing is
\* stopped.
Init ==
    /\ stop_requested = FALSE /\ stopped = FALSE
    /\ accepting = "no" /\ ioStopped = FALSE /\ destroyed = FALSE
    /\ pending = [k \in Kinds |-> 0] /\ arrived = [k \in Kinds |-> 0]
    /\ connecting = {} /\ notified = {} /\ conns = 0
    /\ pc = [t \in Threads |-> IF t \in Workers THEN "idle"
                               ELSE IF t \in Users THEN "user" ELSE "init"]
    /\ ret = [t \in Threads |-> "idle"]

Goto(t, label) == pc' = [pc EXCEPT ![t] = label]

\* ServiceManager::stopped(): "Returns true if stop() was issued."
Stopped == stop_requested

\* Thread t calls stop() and goes on at label when it returns.
CallStop(t, label) ==
    /\ pc' = [pc EXCEPT ![t] = "stop"]
    /\ ret' = [ret EXCEPT ![t] = label]

\* pc once cv_stopped_.signalAll() has woken the sleepers and t is at label.
SignalAll(t, label) ==
    [u \in Threads |-> IF u = t THEN label
                       ELSE IF pc[u] = "s_sleep" THEN "s_retest"
                       ELSE IF pc[u] = "r_sleep" THEN "r_lock" ELSE pc[u]]

---------------------------------------------------------------------------
\* ServiceManager::stop()

\* A fault-injection variant of StopEnter: stop_requested_ is not tested.
StopEnter_NoTest(t) ==
    /\ ~destroyed
    /\ pc[t] = "stop"
    /\ stop_requested' = TRUE
    /\ Goto(t, "s_close")
    /\ UNCHANGED <<stopped, ioVars, connVars, destroyed, ret>>

\* A fault-injection variant of StopEnter: stop_requested_ is set before it
\* is tested.
StopEnter_SetsFirst(t) ==
    /\ ~destroyed
    /\ pc[t] = "stop"
    /\ stop_requested' = TRUE
    /\ Goto(t, IF stopped THEN ret[t] ELSE "s_sleep")
    /\ UNCHANGED <<stopped, ioVars, connVars, destroyed, ret>>

\* The first block of stop(): a call that finds stop_requested_ waits for
\* stopped_ and returns, the first call goes on to tear down.
StopEnter(t) ==
    /\ ~destroyed
    /\ pc[t] = "stop"
    /\ \/ /\ stop_requested /\ stopped
          /\ Goto(t, ret[t])
          /\ UNCHANGED stop_requested
       \/ /\ stop_requested /\ ~stopped
          /\ Goto(t, "s_sleep")
          /\ UNCHANGED stop_requested
       \/ /\ ~stop_requested
          /\ stop_requested' = TRUE
          /\ Goto(t, "s_close")
    /\ UNCHANGED <<stopped, ioVars, connVars, destroyed, ret>>

\* cv_stopped_.wait returns: while (!stopped_) tests again.
StopRetest(t) ==
    /\ ~destroyed
    /\ pc[t] = "s_retest"
    /\ Goto(t, IF stopped THEN ret[t] ELSE "s_sleep")
    /\ UNCHANGED <<stopVars, ioVars, connVars, destroyed, ret>>

\* The acceptors are closed.
StopClose(t) ==
    /\ ~destroyed
    /\ pc[t] = "s_close"
    /\ accepting' = "closed"
    /\ Goto(t, "s_io")
    /\ UNCHANGED <<stopVars, ioStopped, pending, arrived, connVars, destroyed, ret>>

\* io_manager_->stop() begins: poll() is broken and nothing more is
\* enqueued.
IoStop(t) ==
    /\ ~destroyed
    /\ pc[t] = "s_io"
    /\ ioStopped' = TRUE
    /\ Goto(t, "s_join")
    /\ UNCHANGED <<stopVars, accepting, pending, arrived, connVars, destroyed, ret>>

\* io_manager_->stop() returns: every enqueued callback has been served and
\* every worker but the caller has finished and is joined.
IoJoin(t) ==
    /\ ~destroyed
    /\ pc[t] = "s_join"
    /\ \A k \in Kinds : pending[k] = 0
    /\ connecting = {}
    /\ \A w \in Workers \ {t} : pc[w] = "idle"
    /\ pc' = [u \in Threads |-> IF u = t THEN "s_finish"
                                ELSE IF u \in Workers THEN "exited" ELSE pc[u]]
    /\ UNCHANGED <<stopVars, ioVars, connVars, destroyed, ret>>

\* A fault-injection variant of StopFinish: the waiting threads are not
\* signalled.
StopFinish_NoSignal(t) ==
    /\ ~destroyed
    /\ pc[t] = "s_finish"
    /\ stopped' = TRUE
    /\ Goto(t, ret[t])
    /\ UNCHANGED <<stop_requested, ioVars, connVars, destroyed, ret>>

\* stopped_ = true; cv_stopped_.signalAll();
StopFinish(t) ==
    /\ ~destroyed
    /\ pc[t] = "s_finish"
    /\ stopped' = TRUE
    /\ pc' = SignalAll(t, ret[t])
    /\ UNCHANGED <<stop_requested, ioVars, connVars, destroyed, ret>>

StopStep(t) ==
    \/ StopEnter(t) \/ StopRetest(t) \/ StopClose(t)
    \/ IoStop(t) \/ IoJoin(t) \/ StopFinish(t)

---------------------------------------------------------------------------
\* ServiceManager::run() and the destructor, in thread Runner

\* The acceptors start and the thread enters poll().
RunStart ==
    /\ ~destroyed
    /\ pc[Runner] = "init"
    /\ accepting' = "yes"
    /\ Goto(Runner, "poll")
    /\ UNCHANGED <<stopVars, ioStopped, pending, arrived, connVars, destroyed, ret>>

\* poll() returns once the io manager is stopped.
PollReturn ==
    /\ ~destroyed
    /\ pc[Runner] = "poll"
    /\ ioStopped
    /\ Goto(Runner, "r_lock")
    /\ UNCHANGED <<stopVars, ioVars, connVars, destroyed, ret>>

\* A fault-injection variant of RunWait: run() returns when poll() does.
RunWait_NoWait ==
    /\ ~destroyed
    /\ pc[Runner] = "r_lock"
    /\ Goto(Runner, "ran")
    /\ UNCHANGED <<stopVars, ioVars, connVars, destroyed, ret>>

\* while (!stopped_) cv_stopped_.wait(&m_stop_);
RunWait ==
    /\ ~destroyed
    /\ pc[Runner] = "r_lock"
    /\ Goto(Runner, IF stopped THEN "ran" ELSE "r_sleep")
    /\ UNCHANGED <<stopVars, ioVars, connVars, destroyed, ret>>

\* A fault-injection variant of DtorStop: the destructor does not stop.
DtorStop_NoStop ==
    /\ ~destroyed
    /\ pc[Runner] \in {"init", "ran"}
    /\ Goto(Runner, "dtor")
    /\ UNCHANGED <<stopVars, ioVars, connVars, destroyed, ret>>

\* ~ServiceManager() begins with stop(), whether run() was called or not.
DtorStop ==
    /\ ~destroyed
    /\ pc[Runner] \in {"init", "ran"}
    /\ CallStop(Runner, "dtor")
    /\ UNCHANGED <<stopVars, ioVars, connVars, destroyed>>

\* The acceptors and the io manager are deleted.
DtorDelete ==
    /\ ~destroyed
    /\ pc[Runner] = "dtor"
    /\ destroyed' = TRUE
    /\ Goto(Runner, "gone")
    /\ UNCHANGED <<stopVars, ioVars, connVars, ret>>

RunnerStep == RunStart \/ PollReturn \/ RunWait \/ DtorStop \/ DtorDelete

---------------------------------------------------------------------------
\* The callbacks, in the workers

\* The callbacks enqueued so far that call stop(), and the users that have
\* called it.  Bound of the model: a behaviour has stop() called from
\* callbacks or from users, not from both.
StopCallbacks == arrived["accept_error"] + arrived["quit"]
StoppingUsers == {u \in Users : ret[u] = "gone"}

\* The poll loop enqueues a callback: a connection or an accept error while
\* the acceptors listen, a "quit" request read from a connection.
Arrive(k) ==
    /\ ~destroyed
    /\ pc[Runner] = "poll" /\ ~ioStopped
    /\ arrived[k] < MaxOf[k]
    /\ k # "accept" => StopCallbacks < MaxStopCallbacks /\ StoppingUsers = {}
    /\ k # "quit" => accepting = "yes"
    /\ pending' = [pending EXCEPT ![k] = @ + 1]
    /\ arrived' = [arrived EXCEPT ![k] = @ + 1]
    /\ UNCHANGED <<stopVars, accepting, ioStopped, connVars, destroyed, pc, ret>>

\* A fault-injection variant of Take: a callback is taken from an empty
\* queue.
Take_NoGuard(w, k) ==
    /\ ~destroyed
    /\ pc[w] = "idle"
    /\ pending' = [pending EXCEPT ![k] = @ - 1]
    /\ CASE k = "quit"         -> CallStop(w, "idle")
         [] k = "accept"       -> Goto(w, "a_check") /\ UNCHANGED ret
         [] k = "accept_error" -> Goto(w, "e_check") /\ UNCHANGED ret
    /\ UNCHANGED <<stopVars, accepting, ioStopped, arrived, connVars, destroyed>>

\* A worker takes a callback: handleRequest of a "quit" request calls
\* stop(); acceptConnection begins with stopped().
Take(w, k) ==
    /\ ~destroyed
    /\ pc[w] = "idle" /\ pending[k] > 0
    /\ pending' = [pending EXCEPT ![k] = @ - 1]
    /\ CASE k = "quit"         -> CallStop(w, "idle")
         [] k = "accept"       -> Goto(w, "a_check") /\ UNCHANGED ret
         [] k = "accept_error" -> Goto(w, "e_check") /\ UNCHANGED ret
    /\ UNCHANGED <<stopVars, accepting, ioStopped, arrived, connVars, destroyed>>

\* acceptConnection: if (stopped()) return; and, with a bad descriptor,
\* stop().
AcceptCheck(w) ==
    /\ ~destroyed
    /\ pc[w] \in {"a_check", "e_check"}
    /\ \/ /\ Stopped
          /\ Goto(w, "idle") /\ UNCHANGED ret
       \/ /\ ~Stopped /\ pc[w] = "a_check"
          /\ Goto(w, "a_new") /\ UNCHANGED ret
       \/ /\ ~Stopped /\ pc[w] = "e_check"
          /\ CallStop(w, "idle")
    /\ UNCHANGED <<stopVars, ioVars, connVars, destroyed>>

\* new HTTPServerConnection(this, client_fd);
AcceptNew(w) ==
    /\ ~destroyed
    /\ pc[w] = "a_new"
    /\ conns' = conns + 1
    /\ Goto(w, "idle")
    /\ UNCHANGED <<stopVars, ioVars, connecting, notified, destroyed, ret>>

\* connectInternal: the connection is handed to the user and its
\* Notification fires.
ConnectInternal(w) ==
    /\ ~destroyed
    /\ pc[w] = "idle"
    /\ \E u \in connecting :
        /\ connecting' = connecting \ {u}
        /\ notified' = notified \cup {u}
    /\ UNCHANGED <<stopVars, ioVars, conns, destroyed, pc, ret>>

WorkerStep(w) ==
    \/ \E k \in Kinds : Take(w, k)
    \/ AcceptCheck(w) \/ AcceptNew(w) \/ ConnectInternal(w)

---------------------------------------------------------------------------
\* The users: HTTPService::connect and stop

\* connect() is called; asyncConnect reads stopped().
ConnectCall(u) ==
    /\ ~destroyed
    /\ pc[u] = "user" /\ u \notin notified
    /\ Goto(u, "c_check")
    /\ UNCHANGED <<stopVars, ioVars, connVars, destroyed, ret>>

\* asyncConnect: if (stopped()) return; after which connect() waits for a
\* notification nobody sends.
AsyncConnect(u) ==
    /\ ~destroyed
    /\ pc[u] = "c_check"
    /\ Goto(u, IF Stopped THEN "c_wait" ELSE "c_start")
    /\ UNCHANGED <<stopVars, ioVars, connVars, destroyed, ret>>

\* conn->connect(host, port, cb): the io manager will run cb when the
\* attempt ends, unless it has been stopped.
StartConnect(u) ==
    /\ ~destroyed
    /\ pc[u] = "c_start"
    /\ connecting' = IF ioStopped THEN connecting ELSE connecting \cup {u}
    /\ Goto(u, "c_wait")
    /\ UNCHANGED <<stopVars, ioVars, notified, conns, destroyed, ret>>

\* n.wait() returns.
ConnectReturn(u) ==
    /\ ~destroyed
    /\ pc[u] = "c_wait" /\ u \in notified
    /\ Goto(u, "user")
    /\ UNCHANGED <<stopVars, ioVars, connVars, destroyed, ret>>

UserStop(u) ==
    /\ ~destroyed
    /\ UsersStop /\ StopCallbacks = 0
    /\ pc[u] = "user"
    /\ CallStop(u, "gone")
    /\ UNCHANGED <<stopVars, ioVars, connVars, destroyed>>

UserStep(u) ==
    \/ ConnectCall(u) \/ AsyncConnect(u) \/ StartConnect(u)
    \/ ConnectReturn(u) \/ UserStop(u)

---------------------------------------------------------------------------
\* The manager is gone and every thread with it.
Terminated == destroyed /\ UNCHANGED vars

Next ==
    \/ \E t \in Threads : StopStep(t)
    \/ RunnerStep
    \/ \E k \in Kinds : Arrive(k)
    \/ \E w \in Workers : WorkerStep(w)
    \/ \E u \in Users : UserStep(u)
    \/ Terminated

Spec == Init /\ [][Next]_vars

\* Every thread that is inside a call keeps running; whether callbacks
\* arrive, whether a user calls, and when the runner starts, is not assumed.
Fairness ==
    /\ \A t \in Threads : WF_vars(StopStep(t))
    /\ \A w \in Workers : WF_vars(WorkerStep(w))
    /\ \A u \in Users : WF_vars(AsyncConnect(u) \/ StartConnect(u) \/ ConnectReturn(u))
    /\ WF_vars(PollReturn \/ RunWait)

FairSpec == Spec /\ Fairness

---------------------------------------------------------------------------
\* The threads that are tearing the manager down.
Stoppers == {t \in Threads : pc[t] \in {"s_close", "s_io", "s_join", "s_finish"}}

InRun == pc[Runner] \in {"poll", "r_lock", "r_sleep"}

\* Only one thread executes the teardown of stop(), however many call it,
\* and none begins once the manager is stopped (the test of stop_requested_
\* under m_stop_).
OneTeardown == Cardinality(Stoppers) <= 1 /\ (stopped => Stoppers = {})

\* run() returns only after stop() has finished, not when poll() is broken
\* in the middle of stop() (the wait for stopped_ at the end of run()).
RunReturnsAfterStop == pc[Runner] = "ran" => stopped

\* The destructor deletes the io manager only when the manager is stopped
\* and no worker is inside a callback (~ServiceManager calls stop() first).
NoHandlerOutlivesManager ==
    destroyed => stopped /\ \A w \in Workers : pc[w] \in {"idle", "exited"}

\* "It is safe to call stop() from any thread. It is also safe to call it
\* more than once, even if from different threads" (service_manager.hpp),
\* and run() holds "until stop() completed running" so that the destructor
\* issued after run() does not interfere with stop(): when the destructor
\* has deleted the manager, no caller of stop() is still inside its wait for
\* stopped_, where it has yet to take m_stop_ again (cv_stopped_.wait in
\* stop()).
StopCallsEndBeforeDelete ==
    destroyed => \A t \in Threads : pc[t] \notin {"s_sleep", "s_retest"}

\* A stop() that was requested completes: the teardown is not kept waiting
\* by the threads it waits for.
StopCompletes == stop_requested ~> stopped

\* run() returns once a stop was requested: poll() is broken and the wait
\* for stopped_ is woken by the signalAll of stop().
RunReturns == stop_requested ~> ~InRun

\* connect() returns: asyncConnect "tries to connect to 'host:port' and
\* issues 'cb' with the resulting attempt" (http_service.hpp), and connect,
\* its "synchronous dual", waits for that callback, whenever it is called
\* while the manager exists.
ConnectReturns ==
    \A u \in Users : pc[u] = "c_check" ~> (pc[u] = "user" \/ destroyed)

=============================================================================
