----------------------------- MODULE AsyncClient -----------------------------
(***************************************************************************)
(* The asynchronous clients of src/kv_benchmark.cpp and                    *)
(* src/client_async.cpp.  main opens a connection for every Client and     *)
(* enters run().  A Client is a chain of callbacks on its connection:      *)
(* start sends the first request, requestDone is called with every         *)
(* response and schedules doRequest, as a task (kv_benchmark) or by a      *)
(* timer of 5 ms (client_async), and doRequest sends the next request.     *)
(* The connection is reference counted; the chain holds a reference from   *)
(* requestDone to the end of doRequest.  A timer stops the service: after  *)
(* one second in kv_benchmark, at the tenth tick of the ProgressMeter in   *)
(* client_async.                                                           *)
(*                                                                         *)
(* A step is one callback, or one call of main.  The reference count, the  *)
(* io manager and the reactor are not in src/: acquire, release, Eof and   *)
(* what stop() does to tasks and timers are modelled from the              *)
(* specification of the system.                                            *)
(***************************************************************************)
EXTENDS Integers, FiniteSets

CONSTANTS
    Clients,        \* the elements of clients[]
    MeterLimit,     \* the tick at which ProgressMeter::check stops: 10
    MaxResponses    \* bound on the responses a Client receives

ASSUME MeterLimit \in Nat \ {0} /\ MaxResponses \in Nat

VARIABLES
    driver,          \* the program that runs
    main,            \* where main is: "setup", "run", "returned"
    pc,              \* pc[c]: where the chain of Client c is
    refs,            \* the reference count of the connection of c
    open,            \* the reactor has the socket of c registered
    ok,              \* conn_->ok()
    counter,         \* the responses c has received: counter of the
                     \* Client of kv_benchmark, a count of the model for
                     \* the Client of client_async
    timer,           \* the timer of main is pending
    ticks,           \* the static i of ProgressMeter::check
    stop_requested   \* io_manager->stopped()

vars == <<driver, main, pc, refs, open, ok, counter, timer, ticks,
          stop_requested>>

connVars == <<refs, open, ok>>
mainVars == <<main, timer, ticks, stop_requested>>

Drivers == {"kv_benchmark", "client_async"}

\* The chain of a Client: no connection asked for; the connection being
\* set up; doRequest called by start; a request sent; requestDone between
\* stopped() and addTask; request_cb_ scheduled, as a task or by a timer;
\* the chain has ended.
PCs == {"unconnected", "connecting", "doRequest", "sent", "rd_add",
        "scheduled", "ended"}

\* A callback of the chain is running, or running or scheduled, with conn_
\* in its hands.
Running == {"doRequest", "rd_add"}
Holding == Running \cup {"scheduled"}

TypeOK ==
    /\ driver \in Drivers
    /\ main \in {"setup", "run", "returned"}
    /\ pc \in [Clients -> PCs]
    /\ refs \in [Clients -> Nat]
    /\ open \in [Clients -> BOOLEAN] /\ ok \in [Clients -> BOOLEAN]
    /\ counter \in [Clients -> 0 .. MaxResponses]
    /\ timer \in BOOLEAN /\ ticks \in 0 .. MeterLimit
    /\ stop_requested \in BOOLEAN

\* ServiceManager service(num_workers); Client clients[num_clients];
Init ==
    /\ driver \in Drivers
    /\ main = "setup"
    /\ pc = [c \in Clients |-> "unconnected"]
    /\ refs = [c \in Clients |-> 0]
    /\ open = [c \in Clients |-> FALSE] /\ ok = [c \in Clients |-> FALSE]
    /\ counter = [c \in Clients |-> 0]
    /\ timer = FALSE /\ ticks = 0
    /\ stop_requested = FALSE

Goto(c, label) == pc' = [pc EXCEPT ![c] = label]

\* The reactor serves sockets and timers while main is in poll().
Polling == main = "run" /\ ~stop_requested

-----------------------------------------------------------------------------
(* The connection, as the specification describes it.                      *)

\* conn_->acquire() and conn_->release(): "callbacks may keep it alive
\* across timer-delayed continuations".
acquire(c) == refs' = [refs EXCEPT ![c] = @ + 1]
release(c) == refs' = [refs EXCEPT ![c] = @ - 1]

\* The reactor observes EOF or an error on the socket of c and gives up its
\* reference: the connection is "destroyed when refcount drops to zero".
Eof(c) ==
    /\ Polling /\ open[c]
    /\ pc[c] # "connecting"
    /\ open' = [open EXCEPT ![c] = FALSE]
    /\ ok' = [ok EXCEPT ![c] = FALSE]
    /\ release(c)
    /\ UNCHANGED <<driver, pc, counter, mainVars>>

-----------------------------------------------------------------------------
(* class Client                                                            *)

\* A fault-injection variant of start: the first request is issued without
\* acquire().
start_NoAcquire(c, connected) ==
    /\ Polling /\ pc[c] = "connecting"
    /\ ok' = [ok EXCEPT ![c] = connected]
    /\ Goto(c, IF connected THEN "doRequest" ELSE "ended")
    /\ UNCHANGED <<driver, refs, open, counter, mainVars>>

\* Client::start, the connect callback: nothing is sent on a connection
\* that failed; otherwise acquire() and the call of doRequest().
start(c, connected) ==
    /\ Polling /\ pc[c] = "connecting"
    /\ ok' = [ok EXCEPT ![c] = connected]
    /\ IF connected THEN acquire(c) /\ Goto(c, "doRequest")
                    ELSE Goto(c, "ended") /\ UNCHANGED refs
    /\ UNCHANGED <<driver, open, counter, mainVars>>

\* request_cb_ is called: the task of kv_benchmark by a worker, also while
\* stop() drains the queue; the timer of client_async while the reactor
\* runs.
Fires(c) ==
    /\ pc[c] = "scheduled"
    /\ IF driver = "kv_benchmark" THEN main # "returned" ELSE Polling

\* Client::doRequest, called by start or as request_cb_: asyncSend on a
\* connection that is ok, and release() in any case.
doRequest(c) ==
    /\ pc[c] = "doRequest" \/ Fires(c)
    /\ release(c)
    /\ Goto(c, IF ok[c] THEN "sent" ELSE "ended")
    /\ UNCHANGED <<driver, open, ok, counter, mainVars>>

\* The response to the request of c arrives and response_cb_ is called.
Responds(c) == Polling /\ pc[c] = "sent" /\ open[c] /\ counter[c] < MaxResponses

\* Client::requestDone of kv_benchmark.cpp: acquire(), counter++ and the
\* test of stopped().
kv_requestDone(c) ==
    /\ driver = "kv_benchmark" /\ Responds(c)
    /\ IF ok[c]
          THEN /\ acquire(c)
               /\ counter' = [counter EXCEPT ![c] = @ + 1]
               /\ Goto(c, IF stop_requested THEN "ended" ELSE "rd_add")
          ELSE Goto(c, "ended") /\ UNCHANGED <<refs, counter>>
    /\ UNCHANGED <<driver, open, ok, mainVars>>

\* io_manager->addTask(request_cb_): "subsequent addTask is a no-op" once
\* the service was stopped.
addTask(c) ==
    /\ pc[c] = "rd_add"
    /\ Goto(c, IF stop_requested THEN "ended" ELSE "scheduled")
    /\ UNCHANGED <<driver, connVars, counter, mainVars>>

\* Client::requestDone of client_async.cpp: acquire() and
\* addTimer(0.005, request_cb_).  The Client of this program has no
\* counter: here it counts the responses for the bound MaxResponses.
async_requestDone(c) ==
    /\ driver = "client_async" /\ Responds(c)
    /\ counter' = [counter EXCEPT ![c] = @ + 1]
    /\ IF ok[c] THEN acquire(c) /\ Goto(c, "scheduled")
                ELSE Goto(c, "ended") /\ UNCHANGED refs
    /\ UNCHANGED <<driver, open, ok, mainVars>>

-----------------------------------------------------------------------------
(* main and its timer                                                      *)

\* asyncConnect with Client::start as callback: a connection is made, with
\* the reference of the io manager.
asyncConnect(c) ==
    /\ main = "setup" /\ pc[c] = "unconnected"
    /\ refs' = [refs EXCEPT ![c] = 1]
    /\ open' = [open EXCEPT ![c] = TRUE]
    /\ Goto(c, "connecting")
    /\ UNCHANGED <<driver, ok, counter, mainVars>>

\* addTimer(1.0, ...) and service.run(), when every Client is connecting.
run ==
    /\ main = "setup" /\ \A c \in Clients : pc[c] # "unconnected"
    /\ main' = "run" /\ timer' = TRUE
    /\ UNCHANGED <<driver, pc, connVars, counter, ticks, stop_requested>>

\* The timer of kv_benchmark: ServiceManager::stop.
terminate ==
    /\ driver = "kv_benchmark" /\ Polling /\ timer
    /\ stop_requested' = TRUE /\ timer' = FALSE
    /\ UNCHANGED <<driver, main, pc, connVars, counter, ticks>>

\* A fault-injection variant of check: the timer is not set again.
check_NoReschedule ==
    /\ driver = "client_async" /\ Polling /\ timer
    /\ ticks' = ticks + 1
    /\ stop_requested' = (ticks' = MeterLimit)
    /\ timer' = FALSE
    /\ UNCHANGED <<driver, main, pc, connVars, counter>>

\* ProgressMeter::check: at the tenth call stop(), before that
\* addTimer(1.0, check) again.
check ==
    /\ driver = "client_async" /\ Polling /\ timer
    /\ ticks' = ticks + 1
    /\ stop_requested' = (ticks' = MeterLimit)
    /\ timer' = ~stop_requested'
    /\ UNCHANGED <<driver, main, pc, connVars, counter>>

\* run() returns to main: stop() "waits until all previously enqueued
\* callbacks were served", the running ones and the tasks, and has joined
\* the workers.  A timer that is pending never fires.
runReturns ==
    /\ main = "run" /\ stop_requested
    /\ \A c \in Clients :
           pc[c] \notin (IF driver = "kv_benchmark" THEN Holding ELSE Running)
    /\ main' = "returned"
    /\ UNCHANGED <<driver, pc, connVars, counter, timer, ticks, stop_requested>>

-----------------------------------------------------------------------------

ClientStep(c) ==
    \/ asyncConnect(c) \/ \E connected \in BOOLEAN : start(c, connected)
    \/ doRequest(c) \/ kv_requestDone(c) \/ addTask(c) \/ async_requestDone(c)
    \/ Eof(c)

Next ==
    \/ \E c \in Clients : ClientStep(c)
    \/ run \/ terminate \/ check \/ runReturns

Spec == Init /\ [][Next]_vars

\* main runs, the timers fire, and the workers run the tasks they are
\* given.  Nothing is assumed of the server: a response may never come.
Fairness ==
    /\ WF_vars(run) /\ WF_vars(terminate) /\ WF_vars(check) /\ WF_vars(runReturns)
    /\ \A c \in Clients :
           /\ WF_vars(asyncConnect(c))
           /\ WF_vars(doRequest(c)) /\ WF_vars(addTask(c))

FairSpec == Spec /\ Fairness

-----------------------------------------------------------------------------
(* Properties.                                                             *)

\* The connection of a Client is not destroyed under its callbacks: from
\* the acquire() of start or requestDone to the release() of doRequest,
\* with the task or the timer pending in between, and while the reactor
\* has its socket, the reference count is above zero, whenever the peer
\* closes the socket and whenever the service is stopped.
AliveWhileUsed ==
    \A c \in Clients : open[c] \/ pc[c] \in Holding => refs[c] > 0

\* The benchmark ends: the timer of main stops the service, stop() finds
\* the tasks of the clients drained, and run() returns to main, however
\* many requests the clients have in flight and whatever the server does.
BenchmarkEnds == <>(main = "returned")

=============================================================================
