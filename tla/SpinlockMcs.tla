---------------------------- MODULE SpinlockMcs ----------------------------
(***************************************************************************)
(* The MCS queue lock of src/spinlock_mcs.hpp.  Every thread owns one      *)
(* queue node (next, locked); tail_ points to the node of the last thread  *)
(* that asked for the lock.  A step is one access to tail_ or to a field   *)
(* of a node that another thread reads or writes.                          *)
(***************************************************************************)
EXTENDS Integers, FiniteSets, Sequences, TLC

CONSTANTS
    Threads,   \* the threads; a thread's node is named by the thread
    NULL       \* no node

VARIABLES
    tail,      \* tail_
    next,      \* next[t]: local_(t).next
    locked,    \* locked[t]: local_(t).locked
    pred,      \* pred[t]: the local pred of lock()
    pc,        \* where thread t is
    order      \* history: the threads in the order of their swap of tail_

vars == <<tail, next, locked, pred, pc, order>>

Node == Threads \cup {NULL}

PCs == {"idle", "link", "spin", "held", "u_cas", "u_wait", "u_release"}

TypeOK ==
    /\ tail \in Node
    /\ next \in [Threads -> Node]
    /\ locked \in [Threads -> BOOLEAN]
    /\ pred \in [Threads -> Node]
    /\ pc \in [Threads -> PCs]
    /\ order \in Seq(Threads)

Init ==
    /\ tail = NULL
    /\ next = [t \in Threads |-> NULL]
    /\ locked = [t \in Threads |-> FALSE]
    /\ pred = [t \in Threads |-> NULL]
    /\ pc = [t \in Threads |-> "idle"]
    /\ order = <<>>

Goto(t, label) == pc' = [pc EXCEPT ![t] = label]

---------------------------------------------------------------------------
\* lock()

\* A fault-injection variant of LockSwap: locked is not set before the node
\* is linked.
LockSwap_NotLocked(t) ==
    /\ pc[t] = "idle"
    /\ next' = [next EXCEPT ![t] = NULL]
    /\ tail' = t
    /\ pred' = [pred EXCEPT ![t] = tail]
    /\ order' = Append(order, t)
    /\ Goto(t, IF tail = NULL THEN "held" ELSE "link")
    /\ UNCHANGED locked

\* newnode->next = NULL; pred = swap(&tail_, newnode); and, with a
\* predecessor, newnode->locked = true: nobody reads locked before the link.
LockSwap(t) ==
    /\ pc[t] = "idle"
    /\ next' = [next EXCEPT ![t] = NULL]
    /\ tail' = t
    /\ pred' = [pred EXCEPT ![t] = tail]
    /\ order' = Append(order, t)
    /\ \/ /\ tail = NULL
          /\ Goto(t, "held")
          /\ UNCHANGED locked
       \/ /\ tail # NULL
          /\ locked' = [locked EXCEPT ![t] = TRUE]
          /\ Goto(t, "link")

\* A fault-injection variant of Link: the node is never linked behind its
\* predecessor.
Link_Forgets(t) ==
    /\ pc[t] = "link"
    /\ pred' = [pred EXCEPT ![t] = NULL]
    /\ Goto(t, "spin")
    /\ UNCHANGED <<tail, next, locked, order>>

\* pred->next = newnode;
Link(t) ==
    /\ pc[t] = "link"
    /\ next' = [next EXCEPT ![pred[t]] = t]
    /\ pred' = [pred EXCEPT ![t] = NULL]
    /\ Goto(t, "spin")
    /\ UNCHANGED <<tail, locked, order>>

\* while (newnode->locked) {}
Spin(t) ==
    /\ pc[t] = "spin"
    /\ ~locked[t]
    /\ Goto(t, "held")
    /\ UNCHANGED <<tail, next, locked, pred, order>>

---------------------------------------------------------------------------
\* unlock()

\* if (newnode->next == NULL)
UnlockRead(t) ==
    /\ pc[t] = "held"
    /\ Goto(t, IF next[t] = NULL THEN "u_cas" ELSE "u_release")
    /\ UNCHANGED <<tail, next, locked, pred, order>>

\* A fault-injection variant of UnlockCas: tail_ is reset without comparing.
UnlockCas_PlainStore(t) ==
    /\ pc[t] = "u_cas"
    /\ tail' = NULL
    /\ order' = Tail(order)
    /\ Goto(t, "idle")
    /\ UNCHANGED <<next, locked, pred>>

\* if (CAS(&tail_, newnode, NULL)) return;
UnlockCas(t) ==
    /\ pc[t] = "u_cas"
    /\ \/ /\ tail = t
          /\ tail' = NULL
          /\ order' = Tail(order)
          /\ Goto(t, "idle")
       \/ /\ tail # t
          /\ Goto(t, "u_wait")
          /\ UNCHANGED <<tail, order>>
    /\ UNCHANGED <<next, locked, pred>>

\* A fault-injection variant of UnlockWait: the unlocker does not wait for
\* its successor to link itself.
UnlockWait_NoWait(t) ==
    /\ pc[t] = "u_wait"
    /\ \/ next[t] # NULL /\ Goto(t, "u_release") /\ UNCHANGED order
       \/ next[t] = NULL /\ Goto(t, "idle") /\ order' = Tail(order)
    /\ UNCHANGED <<tail, next, locked, pred>>

\* while (newnode->next == NULL) {}
UnlockWait(t) ==
    /\ pc[t] = "u_wait"
    /\ next[t] # NULL
    /\ Goto(t, "u_release")
    /\ UNCHANGED <<tail, next, locked, pred, order>>

\* newnode->next->locked = false;
UnlockRelease(t) ==
    /\ pc[t] = "u_release"
    /\ locked' = (next[t] :> FALSE) @@ locked
    /\ order' = Tail(order)
    /\ Goto(t, "idle")
    /\ UNCHANGED <<tail, next, pred>>

---------------------------------------------------------------------------
Acquire(t) == LockSwap(t) \/ Link(t) \/ Spin(t)

Release(t) == UnlockRead(t) \/ UnlockCas(t) \/ UnlockWait(t) \/ UnlockRelease(t)

Next == \E t \in Threads : Acquire(t) \/ Release(t)

Spec == Init /\ [][Next]_vars

\* Every thread keeps running: a spinning thread reads again, a holder
\* unlocks.  Whether an idle thread asks for the lock is its own choice.
Fairness == \A t \in Threads : WF_vars(Link(t) \/ Spin(t) \/ Release(t))

FairSpec == Spec /\ Fairness

---------------------------------------------------------------------------
\* The threads between the return of lock() and the return of unlock().
Holders == {t \in Threads : pc[t] \in {"held", "u_cas", "u_wait", "u_release"}}

Waiting(t) == pc[t] \in {"link", "spin"}

\* lock() returns to one thread at a time: between the return of lock() and
\* the end of unlock() of one thread no other thread is past its lock().
MutualExclusion == Cardinality(Holders) <= 1

\* The lock is handed over in the order of the swaps of tail_ in lock(): the
\* holder is the thread whose swap is the oldest not yet unlocked.
FirstComeFirstServed == \A t \in Holders : order # <<>> /\ Head(order) = t

\* A thread that has swapped itself into the queue gets the lock: the spin
\* of lock() ends, whatever the interleaving with the unlock() before it.
\* No thread waits for ever, and a thread leaves its wait only as the holder.
EveryWaiterEnters == \A t \in Threads : []<>(~Waiting(t))

\* unlock() returns: its wait for the successor's link ends, and from there
\* unlock() only hands the lock over and returns.
UnlockReturns == \A t \in Threads : []<>(pc[t] # "u_wait")

=============================================================================
