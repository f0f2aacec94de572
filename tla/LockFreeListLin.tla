--------------------------- MODULE LockFreeListLin ---------------------------
(***************************************************************************)
(* LockFreeList with the two history variables that relate it to           *)
(* AtomicSet: what every call in progress has seen of its key, and whether *)
(* it has changed the set.  The history variables record; they never       *)
(* restrict a step of the list.                                            *)
(***************************************************************************)
EXTENDS LockFreeList

VARIABLES
    seen,      \* seen[t]: the memberships of t's key since its call began
    applied    \* applied[t]: a step of t's call has changed Members

linVars == <<vars, seen, applied>>

\* The call thread t is in, as AtomicSet names it.
Call(t) == [op |-> reg[t].op, key |-> reg[t].key]

LinInit ==
    /\ Init
    /\ seen = [t \in Threads |-> {}]
    /\ applied = [t \in Threads |-> FALSE]

\* What the history variables record of a step of thread t.
Record(t) ==
    /\ seen' = [u \in Threads |->
                  CASE pc'[u] = "idle" -> {}
                    [] pc[u] = "idle" -> {reg'[u].key \in Members'}
                    [] OTHER -> seen[u] \cup {reg[u].key \in Members'}]
    /\ applied' = [applied EXCEPT
                     ![t] = pc'[t] # "idle" /\ (@ \/ Members' # Members)]

LinNext ==
    \/ \E t \in Threads : Step(t) /\ Record(t)
    \/ Crashed /\ UNCHANGED <<seen, applied>>

LinSpec == LinInit /\ [][LinNext]_linVars

Abs == INSTANCE AtomicSet
           WITH set <- Members, call <- [t \in Threads |-> Call(t)]

\* Linearizability: the calls of insert, remove and lookup, running
\* concurrently and helping each other unlink marked nodes, return what
\* some order of atomic set operations, each between its call and its
\* return, would have returned; every successful insert and remove changes
\* the set in exactly one step, and by exactly its key.
Linearizable == Abs!Spec

\* A call of insert, remove or lookup returns.
Returns == \E t \in Threads : pc[t] # "idle" /\ pc'[t] = "idle"

\* Lock-freedom: in a behaviour in which the threads take steps for ever,
\* calls return for ever, however the steps interleave.  lookupInternal
\* goes back to try_again when *prev has changed under it and when its CAS
\* fails, and so do insert and remove; every such restart is paid for by a
\* step of another thread that brings a call nearer to its return, so the
\* threads never keep each other restarting for ever.  Nothing is assumed
\* of any single thread, which may stop inside a call or be starved.
LockFree == []<><<TRUE>>_linVars => []<><<Returns>>_linVars

=============================================================================
