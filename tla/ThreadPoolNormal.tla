-------------------------- MODULE ThreadPoolNormal --------------------------
(***************************************************************************)
(* The worker pool of src/thread_pool_normal.cpp: a queue of tasks behind  *)
(* one mutex and one condition variable, workers that take and run tasks,  *)
(* stop() that raises beStop and joins the workers, and the destructor.    *)
(*                                                                         *)
(* Everything a thread does between m.lock() and m.unlock() (or the        *)
(* cv.wait that releases m) is one step: no other thread can observe the   *)
(* states in between.  A task is run in a step of its own; a task may be   *)
(* plain work, a call of addTask or a call of stop, as in                  *)
(* thread_pool_test.cpp.  The pool's user is one more thread, Client.      *)
(***************************************************************************)
EXTENDS Integers, FiniteSets, Sequences, SequencesExt

CONSTANTS
    NumWorkers,   \* NumofWorkers
    MaxTasks,     \* bound of the model: addTask is called at most MaxTasks times
    Kinds,        \* the kinds of task the client adds: "work", "add", "stop"
    MaxStops      \* bound of the model: the stop() tasks pending at a time

Workers == 0 .. NumWorkers - 1
Client  == NumWorkers
Threads == Workers \cup {Client}
NoThread == -1

Tasks  == [id : 1 .. MaxTasks, kind : {"work", "add", "stop"}]
NoTask == [id |-> 0, kind |-> "none"]

VARIABLES
    TaskQueue,    \* the queue of tasks
    beStop,       \* beStop
    pc,           \* where each thread is
    cur,          \* cur[w]: the task worker w has taken
    jdx,          \* jdx[s]: the index i of the join loop of stop() in thread s
    joiner,       \* joiner[w]: the thread that joins or has joined worker w
    inDtor,       \* stop() was called by the destructor
    stopCalled,   \* the client has called stop()
    stopReturned, \* that call has returned
    destroyed,    \* the destructor has deleted the queue and the thread table
    added,        \* history: the number of tasks added so far
    ran           \* history: the ids of the tasks that have run to their end

vars == <<TaskQueue, beStop, pc, cur, jdx, joiner, inDtor, stopCalled,
          stopReturned, destroyed, added, ran>>

poolVars == <<TaskQueue, beStop, cur, added, ran>>
stopVars == <<jdx, joiner, inDtor, stopCalled, stopReturned, destroyed>>

PCs == {"lock", "wait", "run", "join", "exited", "client", "gone"}

TypeOK ==
    /\ TaskQueue \in Seq(Tasks)
    /\ beStop \in BOOLEAN
    /\ pc \in [Threads -> PCs]
    /\ cur \in [Workers -> Tasks \cup {NoTask}]
    /\ jdx \in [Threads -> 0 .. NumWorkers]
    /\ joiner \in [Workers -> Threads \cup {NoThread}]
    /\ inDtor \in BOOLEAN /\ stopCalled \in BOOLEAN
    /\ stopReturned \in BOOLEAN /\ destroyed \in BOOLEAN
    /\ added \in 0 .. MaxTasks
    /\ ran \subseteq 1 .. MaxTasks

\* The constructor: an empty queue and NumofWorkers threads at the top of
\* workerFunction.
Init ==
    /\ TaskQueue = <<>>
    /\ beStop = FALSE
    /\ pc = [t \in Threads |-> IF t = Client THEN "client" ELSE "lock"]
    /\ cur = [w \in Workers |-> NoTask]
    /\ jdx = [t \in Threads |-> 0]
    /\ joiner = [w \in Workers |-> NoThread]
    /\ inDtor = FALSE /\ stopCalled = FALSE
    /\ stopReturned = FALSE /\ destroyed = FALSE
    /\ added = 0 /\ ran = {}

Sleepers == {w \in Workers : pc[w] = "wait"}

\* pc once the threads of S have been woken and thread t has gone to label.
Woken(S, t, label) ==
    [u \in Threads |-> IF u = t THEN label
                       ELSE IF u \in S THEN "lock" ELSE pc[u]]

\* The calls of addTask that are still to come from tasks taken or queued.
PendingAdds ==
    Cardinality({w \in Workers : cur[w].kind = "add"})
        + Len(SelectSeq(TaskQueue, LAMBDA x : x.kind = "add"))

\* The calls of stop() that are still to come or are running in a task.
PendingStops ==
    Cardinality({w \in Workers : cur[w].kind = "stop"})
        + Len(SelectSeq(TaskQueue, LAMBDA x : x.kind = "stop"))

---------------------------------------------------------------------------
\* addTask and stop, called by thread t, which goes on at label.

\* A fault-injection variant of addTask: the condition variable is not
\* signalled.
addTask_NoSignal(t, k, label) ==
    /\ TaskQueue' = Append(TaskQueue, [id |-> added + 1, kind |-> k])
    /\ added' = added + 1
    /\ pc' = Woken({}, t, label)

\* push under the mutex, then cv.signal(): one sleeping worker, if there is
\* one, is woken.
addTask(t, k, label) ==
    /\ TaskQueue' = Append(TaskQueue, [id |-> added + 1, kind |-> k])
    /\ added' = added + 1
    /\ \/ \E w \in Sleepers : pc' = Woken({w}, t, label)
       \/ Sleepers = {} /\ pc' = Woken({}, t, label)

\* A fault-injection variant of stopBegin: the sleeping workers are not
\* woken.
stopBegin_NoSignal(t) ==
    /\ beStop' = TRUE
    /\ pc' = Woken({}, t, "join")
    /\ jdx' = [jdx EXCEPT ![t] = 0]

\* The block of stop(): beStop = true; cv.signalAll(); and the start of the
\* join loop.
stopBegin(t) ==
    /\ beStop' = TRUE
    /\ pc' = Woken(Sleepers, t, "join")
    /\ jdx' = [jdx EXCEPT ![t] = 0]

\* pthread_join(threads[i]) returns at once with an error when i is the
\* caller, when i is joining the caller, or when another thread joins or has
\* joined i.
JoinFails(s, i) ==
    \/ i = s
    \/ s \in Workers /\ joiner[s] = i
    \/ joiner[i] \notin {NoThread, s}

\* A fault-injection variant of StopJoin: the loop runs to i <= NumofWorkers.
StopJoin_OneMore(s) ==
    /\ pc[s] = "join" /\ jdx[s] <= NumWorkers /\ ~destroyed
    /\ LET i == jdx[s] IN
        \/ /\ JoinFails(s, i)
           /\ jdx' = [jdx EXCEPT ![s] = i + 1]
           /\ UNCHANGED joiner
        \/ /\ ~JoinFails(s, i) /\ pc[i] = "exited"
           /\ joiner' = [joiner EXCEPT ![i] = s]
           /\ jdx' = [jdx EXCEPT ![s] = i + 1]
    /\ UNCHANGED <<poolVars, pc, inDtor, stopCalled, stopReturned, destroyed>>

\* One turn of the join loop of stop().
StopJoin(s) ==
    /\ pc[s] = "join" /\ jdx[s] < NumWorkers /\ ~destroyed
    /\ LET i == jdx[s] IN
        \/ /\ JoinFails(s, i)
           /\ jdx' = [jdx EXCEPT ![s] = i + 1]
           /\ UNCHANGED joiner
        \/ /\ ~JoinFails(s, i) /\ joiner[i] = NoThread /\ pc[i] # "exited"
           /\ joiner' = [joiner EXCEPT ![i] = s]
           /\ UNCHANGED jdx
        \/ /\ ~JoinFails(s, i) /\ pc[i] = "exited"
           /\ joiner' = [joiner EXCEPT ![i] = s]
           /\ jdx' = [jdx EXCEPT ![s] = i + 1]
    /\ UNCHANGED <<poolVars, pc, inDtor, stopCalled, stopReturned, destroyed>>

\* The rest of the destructor: the thread table and the queue are deleted.
Delete ==
    /\ destroyed' = TRUE
    /\ TaskQueue' = <<>>

\* A fault-injection variant of StopReturn: the join loop leaves out the
\* last worker.
StopReturn_SkipsLast(s) ==
    /\ pc[s] = "join" /\ jdx[s] >= NumWorkers - 1 /\ ~destroyed
    /\ s = Client /\ ~inDtor
    /\ pc' = [pc EXCEPT ![s] = "client"]
    /\ stopReturned' = TRUE
    /\ UNCHANGED <<poolVars, jdx, joiner, inDtor, stopCalled, destroyed>>

\* stop() returns: to the task that called it, to the client, or to the
\* destructor, which goes on to delete.
StopReturn(s) ==
    /\ pc[s] = "join" /\ jdx[s] = NumWorkers /\ ~destroyed
    /\ \/ /\ s \in Workers
          /\ pc' = [pc EXCEPT ![s] = "lock"]
          /\ ran' = ran \cup {cur[s].id}
          /\ cur' = [cur EXCEPT ![s] = NoTask]
          /\ UNCHANGED <<TaskQueue, stopReturned, destroyed>>
       \/ /\ s = Client /\ ~inDtor
          /\ pc' = [pc EXCEPT ![s] = "client"]
          /\ stopReturned' = TRUE
          /\ UNCHANGED <<TaskQueue, cur, ran, destroyed>>
       \/ /\ s = Client /\ inDtor
          /\ pc' = [pc EXCEPT ![s] = "gone"]
          /\ Delete
          /\ UNCHANGED <<cur, ran, stopReturned>>
    /\ UNCHANGED <<beStop, added, jdx, joiner, inDtor, stopCalled>>

---------------------------------------------------------------------------
\* workerFunction

\* A fault-injection variant of WorkerLock: the task is read and not popped.
WorkerLock_NoPop(w) ==
    /\ pc[w] = "lock" /\ ~destroyed /\ TaskQueue # <<>> /\ ~beStop
    /\ pc' = [pc EXCEPT ![w] = "run"]
    /\ cur' = [cur EXCEPT ![w] = Head(TaskQueue)]
    /\ UNCHANGED <<TaskQueue, beStop, added, ran, stopVars>>

\* m.lock() (or the return of cv.wait, which holds m again), the test of the
\* queue and of beStop, and what follows up to the release of m: the worker
\* waits, leaves, or pops a task.
WorkerLock(w) ==
    /\ pc[w] = "lock" /\ ~destroyed
    /\ \/ /\ TaskQueue = <<>> /\ ~beStop
          /\ pc' = [pc EXCEPT ![w] = "wait"]
          /\ UNCHANGED <<TaskQueue, cur>>
       \/ /\ beStop
          /\ pc' = [pc EXCEPT ![w] = "exited"]
          /\ UNCHANGED <<TaskQueue, cur>>
       \/ /\ TaskQueue # <<>> /\ ~beStop
          /\ pc' = [pc EXCEPT ![w] = "run"]
          /\ cur' = [cur EXCEPT ![w] = Head(TaskQueue)]
          /\ TaskQueue' = Tail(TaskQueue)
    /\ UNCHANGED <<beStop, added, ran, stopVars>>

\* cv.wait may return without a signal; the loop around it tests again.
SpuriousWake(w) ==
    /\ pc[w] = "wait" /\ ~destroyed
    /\ pc' = [pc EXCEPT ![w] = "lock"]
    /\ UNCHANGED <<poolVars, stopVars>>

\* (*task)(): the task runs, and the worker goes back to the top of its
\* loop, unless the task is a stop(), which has its join loop before it.
Run(w) ==
    /\ pc[w] = "run" /\ ~destroyed
    /\ \/ /\ cur[w].kind = "work"
          /\ pc' = [pc EXCEPT ![w] = "lock"]
          /\ UNCHANGED <<TaskQueue, beStop, added, jdx>>
       \/ /\ cur[w].kind = "add"
          /\ addTask(w, "work", "lock")
          /\ UNCHANGED <<beStop, jdx>>
       \/ /\ cur[w].kind = "stop"
          /\ stopBegin(w)
          /\ UNCHANGED <<TaskQueue, added>>
    /\ IF cur[w].kind = "stop"
         THEN UNCHANGED <<cur, ran>>
         ELSE cur' = [cur EXCEPT ![w] = NoTask] /\ ran' = ran \cup {cur[w].id}
    /\ UNCHANGED <<joiner, inDtor, stopCalled, stopReturned, destroyed>>

---------------------------------------------------------------------------
\* The client

ClientAdd(k) ==
    /\ pc[Client] = "client" /\ ~destroyed
    /\ added + PendingAdds + (IF k = "add" THEN 2 ELSE 1) <= MaxTasks
    /\ k = "stop" => ~beStop /\ PendingStops < MaxStops
    /\ addTask(Client, k, "client")
    /\ UNCHANGED <<beStop, cur, ran, stopVars>>

ClientStop ==
    /\ pc[Client] = "client" /\ ~stopCalled
    /\ stopBegin(Client)
    /\ stopCalled' = TRUE
    /\ UNCHANGED <<TaskQueue, cur, added, ran, joiner, inDtor,
                   stopReturned, destroyed>>

\* ~ThreadPoolNormal(): if (!beStop) stop(); and then the deletes.
Destroy ==
    /\ pc[Client] = "client"
    /\ \/ /\ ~beStop
          /\ stopBegin(Client)
          /\ inDtor' = TRUE
          /\ UNCHANGED <<TaskQueue, destroyed>>
       \/ /\ beStop
          /\ pc' = [pc EXCEPT ![Client] = "gone"]
          /\ Delete
          /\ UNCHANGED <<beStop, jdx, inDtor>>
    /\ UNCHANGED <<cur, added, ran, joiner, stopCalled, stopReturned>>

\* The pool is gone; what its threads do from here is not a behaviour of
\* the pool.
Terminated == destroyed /\ UNCHANGED vars

---------------------------------------------------------------------------
WorkerStep(w) == WorkerLock(w) \/ Run(w) \/ StopJoin(w) \/ StopReturn(w)

ClientStep ==
    \/ \E k \in Kinds : ClientAdd(k)
    \/ ClientStop \/ Destroy
    \/ StopJoin(Client) \/ StopReturn(Client)

Next ==
    \/ \E w \in Workers : WorkerStep(w) \/ SpuriousWake(w)
    \/ ClientStep
    \/ Terminated

Spec == Init /\ [][Next]_vars

\* Every worker thread keeps running; a wait ends only by a signal.
Fairness == \A w \in Workers : WF_vars(WorkerStep(w))

FairSpec == Spec /\ Fairness

---------------------------------------------------------------------------
AllExited == \A w \in Workers : pc[w] = "exited"

\* The places task id is in: the queue, the hands of a worker, the tasks
\* that have run.
Places(id) ==
    Cardinality({i \in DOMAIN TaskQueue : TaskQueue[i].id = id})
        + Cardinality({w \in Workers : cur[w].id = id})
        + (IF id \in ran THEN 1 ELSE 0)

\* No task is lost and none is handed out twice: until the destructor
\* deletes the queue, every task given to addTask is waiting in the queue,
\* in the hands of exactly one worker, or has run (workerFunction's pop
\* under the mutex, and the tasks stop() leaves queued).
TasksAccountedFor ==
    ~destroyed => \A id \in 1 .. added : Places(id) = 1

\* When a stop() called by the pool's user has returned, every worker has
\* left workerFunction: the join loop of stop() waits for all of them.
QuietAfterStop == stopReturned => AllExited

\* The destructor deletes the queue and the thread table only when no worker
\* can use them any more: ~ThreadPoolNormal() stops the pool first.
NoWorkerOutlivesPool == destroyed => AllExited

\* Once beStop is raised every worker leaves workerFunction, the sleeping
\* ones included: stop() wakes them with signalAll().
StopTerminates == beStop ~> (AllExited \/ destroyed)

\* A queued task does not stay queued while the pool runs: addTask wakes a
\* sleeping worker, and a worker sleeps only when it found the queue empty.
QueuedTaskIsTaken == (TaskQueue # <<>>) ~> (TaskQueue = <<>> \/ beStop)

=============================================================================
