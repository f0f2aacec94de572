----------------------------- MODULE LockTester -----------------------------
(***************************************************************************)
(* LockTester<Spinlock_mcs> of src/lock_benchmark.cpp: num_threads threads *)
(* that each add `increments` to the shared counter requests_, a batch of  *)
(* increments_step under one hold of the lock, and the main thread that    *)
(* joins them and compares the counter with increments * num_threads.      *)
(* The lock is SpinlockMcs; requests_ += 1 is a load and a store.          *)
(***************************************************************************)
EXTENDS SpinlockMcs, Functions

CONSTANTS
    increments,        \* the argument of test(): what each thread adds
    increments_step    \* the additions under one hold of the lock

\* main() calls Increments with an `increments` that its steps divide.
ASSUME
    /\ increments \in Nat /\ increments_step \in Nat \ {0}
    /\ increments % increments_step = 0

VARIABLES
    requests,   \* requests_
    left,       \* left[t]: the local `increments` of test() in thread t
    i,          \* i[t]: the counter of the inner loop
    reg,        \* reg[t]: requests_ as loaded by t, or None between additions
    joined      \* join() has returned

testerVars == <<requests, left, i, reg, joined>>
allVars == <<vars, testerVars>>

None == -1

TesterTypeOK ==
    /\ TypeOK
    /\ requests \in 0 .. increments * Cardinality(Threads)
    /\ left \in [Threads -> -increments_step .. increments]
    /\ i \in [Threads -> 0 .. increments_step]
    /\ reg \in [Threads -> {None} \cup Nat]
    /\ joined \in BOOLEAN

TesterInit ==
    /\ Init
    /\ requests = 0
    /\ left = [t \in Threads |-> increments]
    /\ i = [t \in Threads |-> 0]
    /\ reg = [t \in Threads |-> None]
    /\ joined = FALSE

\* while (increments > 0) { lock_.lock();
LoopLock(t) ==
    /\ left[t] > 0
    /\ LockSwap(t)
    /\ UNCHANGED testerVars

\* A fault-injection variant of Load: the addition is not under the lock.
Load_Unlocked(t) ==
    /\ pc[t] \in {"link", "spin", "held"} /\ i[t] < increments_step /\ reg[t] = None
    /\ reg' = [reg EXCEPT ![t] = requests]
    /\ UNCHANGED <<vars, requests, left, i, joined>>

\* for (i < increments_step) { increments -= 1; requests_ += 1: the load
Load(t) ==
    /\ pc[t] = "held" /\ i[t] < increments_step /\ reg[t] = None
    /\ reg' = [reg EXCEPT ![t] = requests]
    /\ UNCHANGED <<vars, requests, left, i, joined>>

\* ... and the store, and i++
Store(t) ==
    /\ reg[t] # None
    /\ requests' = reg[t] + 1
    /\ left' = [left EXCEPT ![t] = @ - 1]
    /\ i' = [i EXCEPT ![t] = @ + 1]
    /\ reg' = [reg EXCEPT ![t] = None]
    /\ UNCHANGED <<vars, joined>>

\* lock_.unlock(); }
LoopUnlock(t) ==
    /\ i[t] = increments_step
    /\ UnlockRead(t)
    /\ i' = [i EXCEPT ![t] = 0]
    /\ UNCHANGED <<requests, left, reg, joined>>

\* test() has returned in thread t.
Exited(t) == pc[t] = "idle" /\ left[t] <= 0

\* pthread_join of every thread
join ==
    /\ ~joined
    /\ \A t \in Threads : Exited(t)
    /\ joined' = TRUE
    /\ UNCHANGED <<vars, requests, left, i, reg>>

test(t) ==
    \/ LoopLock(t) \/ Load(t) \/ Store(t) \/ LoopUnlock(t)
    \/ (Link(t) \/ Spin(t) \/ UnlockCas(t) \/ UnlockWait(t) \/ UnlockRelease(t))
          /\ UNCHANGED testerVars

TesterNext == (\E t \in Threads : test(t)) \/ join

TesterSpec == TesterInit /\ [][TesterNext]_allVars

\* A started thread runs until test() returns, and the main thread joins.
TesterFairness == WF_allVars(join) /\ \A t \in Threads : WF_allVars(test(t))

TesterFairSpec == TesterSpec /\ TesterFairness

---------------------------------------------------------------------------
\* What the threads have added so far, by their own count.
Added == FoldFunction(+, 0, [t \in Threads |-> increments - left[t]])

\* No addition of one thread is lost under the load and store of another:
\* requests_ is at every moment what the threads have counted down of
\* their `increments`, the lock being all that keeps a load and its store
\* together; and what Increments() tests before it prints holds, once the
\* threads are joined requests_ is increments * num_threads (increments is
\* a multiple of increments_step, as in main()).
AllCounted ==
    /\ requests = Added
    /\ joined => requests = increments * Cardinality(Threads)

=============================================================================
