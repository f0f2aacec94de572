---------------------------- MODULE ListBasedSet ----------------------------
(***************************************************************************)
(* The sorted list behind one mutex of src/list_set.cpp.  insert, remove,  *)
(* lookup and checkIntegrity take the mutex m for their whole body, which  *)
(* is one step here; clear() takes no mutex and is a step for the read of  *)
(* Head, one for every node it deletes and one for the reset of head.      *)
(***************************************************************************)
EXTENDS Integers, FiniteSets, Sequences

CONSTANTS
    Threads,
    Keys,          \* the values the callers use
    Nodes,         \* the addresses `new` can return
    NULL,
    ClearAlone     \* the callers call clear() only while no other call runs

VARIABLES
    head,      \* Head (a name the module Sequences has taken)
    value,     \* value[n]: n->value
    next,      \* next[n]: n->next
    live,      \* the nodes that are allocated
    m,         \* the thread that holds the mutex m, or NULL
    pc,        \* pc[t]: "idle", "body" (t holds m) or "clear"
    call,      \* call[t]: the operation t is in and its argument
    cur,       \* cur[t]: currentNode of clear()
    result     \* result[t]: what the last call of t returned

setVars == <<head, value, next, live, m, pc, call, cur, result>>

Ptr   == Nodes \cup {NULL}
Calls == [op : {"insert", "remove", "lookup", "checkIntegrity"}, value : Keys]
NoCall == CHOOSE c \in Calls : TRUE
NoValue == CHOOSE k \in Keys : TRUE

TypeOK ==
    /\ head \in Ptr
    /\ value \in [Nodes -> Keys]
    /\ next \in [Nodes -> Ptr]
    /\ live \subseteq Nodes
    /\ m \in Threads \cup {NULL}
    /\ pc \in [Threads -> {"idle", "body", "clear"}]
    /\ call \in [Threads -> Calls]
    /\ cur \in [Threads -> Ptr]
    /\ result \in [Threads -> BOOLEAN]

Init ==
    /\ head = NULL
    /\ value = [n \in Nodes |-> NoValue]
    /\ next = [n \in Nodes |-> NULL]
    /\ live = {}
    /\ m = NULL
    /\ pc = [t \in Threads |-> "idle"]
    /\ call = [t \in Threads |-> NoCall]
    /\ cur = [t \in Threads |-> NULL]
    /\ result = [t \in Threads |-> FALSE]

Clearing == {t \in Threads : pc[t] = "clear"}

\* ScopedLock lock(&m): the call waits for the mutex.
Lock(t, c) ==
    /\ pc[t] = "idle" /\ m = NULL
    /\ ClearAlone => Clearing = {}
    /\ m' = t
    /\ pc' = [pc EXCEPT ![t] = "body"]
    /\ call' = [call EXCEPT ![t] = c]
    /\ UNCHANGED <<head, value, next, live, cur, result>>

\* The return of a body: the ScopedLock unlocks.
Return(t, r) ==
    /\ m' = NULL
    /\ pc' = [pc EXCEPT ![t] = "idle"]
    /\ result' = [result EXCEPT ![t] = r]
    /\ call' = [call EXCEPT ![t] = NoCall]
    /\ UNCHANGED cur

\* The nodes from n on, in the order of the list.
RECURSIVE Chain(_)
Chain(n) == IF n = NULL THEN <<>> ELSE <<n>> \o Chain(next[n])

\* while (currentNode != NULL && !Stops(currentNode)) { prevNode =
\* currentNode; currentNode = currentNode->next; } from Head: the two
\* pointers when the loop ends.
Walk(Stops(_)) ==
    LET list == Chain(head)
        stop == {j \in DOMAIN list : Stops(list[j])} \cup {Len(list) + 1}
        k    == CHOOSE j \in stop : \A i \in stop : j <= i
    IN  [prevNode    |-> IF k = 1 THEN NULL ELSE list[k - 1],
         currentNode |-> IF k > Len(list) THEN NULL ELSE list[k]]

\* `to` is stored where the walk came from: in Head or in prevNode->next.
StoreBehind(prevNode, to, others) ==
    IF prevNode = NULL
    THEN head' = to /\ next' = others
    ELSE head' = head /\ next' = [others EXCEPT ![prevNode] = to]

\* delete n: what the memory of n holds from then on is nobody's business.
Delete(n) ==
    /\ live' = live \ {n}
    /\ value' = [value EXCEPT ![n] = NoValue]
    /\ next' = [next EXCEPT ![n] = NULL]

Unchanged(t, r) == Return(t, r) /\ UNCHANGED <<head, value, next, live>>

\* insert(): the new node goes in front of the first node that is not
\* smaller, as Head when there is none before it; it is deleted again when
\* that node holds the value.
insert(t) ==
    /\ pc[t] = "body" /\ call[t].op = "insert"
    /\ Nodes \ live # {}
    /\ LET newNode == CHOOSE n \in Nodes \ live : TRUE
           at == Walk(LAMBDA n : value[n] >= call[t].value)
       IN  IF at.currentNode # NULL /\ value[at.currentNode] = call[t].value
           THEN Unchanged(t, FALSE)
           ELSE /\ live' = live \cup {newNode}
                /\ value' = [value EXCEPT ![newNode] = call[t].value]
                /\ StoreBehind(at.prevNode, newNode,
                               [next EXCEPT ![newNode] = at.currentNode])
                /\ Return(t, TRUE)

\* The body of remove() with the test that ends its walk.
Remove(t, Stops(_)) ==
    /\ pc[t] = "body" /\ call[t].op = "remove"
    /\ LET at == Walk(Stops)
       IN  IF at.currentNode = NULL
           THEN Unchanged(t, FALSE)
           ELSE /\ StoreBehind(at.prevNode, next[at.currentNode],
                               [next EXCEPT ![at.currentNode] = NULL])
                /\ value' = [value EXCEPT ![at.currentNode] = NoValue]
                /\ live' = live \ {at.currentNode}
                /\ Return(t, TRUE)

\* A fault-injection variant of remove: the walk stops as that of lookup.
remove_WalksLess(t) == Remove(t, LAMBDA n : value[n] >= call[t].value)

\* remove(): the first node that holds the value is unlinked, from Head when
\* it is the first, and deleted.
remove(t) == Remove(t, LAMBDA n : value[n] = call[t].value)

lookup(t) ==
    /\ pc[t] = "body" /\ call[t].op = "lookup"
    /\ LET at == Walk(LAMBDA n : value[n] >= call[t].value)
       IN  Unchanged(t, at.currentNode # NULL /\ value[at.currentNode] = call[t].value)

\* checkIntegrity(): true when the walk over ascending neighbours ends at NULL.
checkIntegrity(t) ==
    /\ pc[t] = "body" /\ call[t].op = "checkIntegrity"
    /\ LET at == Walk(LAMBDA n : next[n] # NULL /\ value[n] >= value[next[n]])
       IN  Unchanged(t, at.currentNode = NULL)

\* clear(): currentNode = head, with no mutex taken.
ClearRead(t) ==
    /\ pc[t] = "idle"
    /\ ClearAlone => \A u \in Threads : pc[u] = "idle"
    /\ pc' = [pc EXCEPT ![t] = "clear"]
    /\ cur' = [cur EXCEPT ![t] = head]
    /\ UNCHANGED <<head, value, next, live, m, call, result>>

\* tempNode = currentNode; currentNode = currentNode->next; delete tempNode;
ClearDelete(t) ==
    /\ pc[t] = "clear" /\ cur[t] # NULL
    /\ cur' = [cur EXCEPT ![t] = next[cur[t]]]
    /\ Delete(cur[t])
    /\ UNCHANGED <<head, m, pc, call, result>>

\* A fault-injection variant of ClearReset: head keeps the deleted list.
ClearReset_KeepsHead(t) ==
    /\ pc[t] = "clear" /\ cur[t] = NULL
    /\ pc' = [pc EXCEPT ![t] = "idle"]
    /\ UNCHANGED <<head, value, next, live, m, cur, call, result>>

\* head = NULL;
ClearReset(t) ==
    /\ pc[t] = "clear" /\ cur[t] = NULL
    /\ head' = NULL
    /\ pc' = [pc EXCEPT ![t] = "idle"]
    /\ UNCHANGED <<value, next, live, m, cur, call, result>>

Body(t) == insert(t) \/ remove(t) \/ lookup(t) \/ checkIntegrity(t)

clear(t) == ClearRead(t) \/ ClearDelete(t) \/ ClearReset(t)

Next == \E t \in Threads : (\E c \in Calls : Lock(t, c)) \/ Body(t) \/ clear(t)

Spec == Init /\ [][Next]_setVars

---------------------------------------------------------------------------
\* Where the list that is still allocated begins: at head, or where a
\* clear() in progress has got to.
Rest == IF Clearing = {} THEN head ELSE cur[CHOOSE t \in Clearing : TRUE]

Members == {value[Chain(head)[j]] : j \in DOMAIN Chain(head)}

\* The heap is the list: every allocated node is on the list once (nothing
\* leaks, not the node insert() allocates before it knows the value is
\* there), every node on the list is allocated (remove() and clear() delete
\* what they have unlinked, or are about to), and the values ascend
\* strictly, on which the early stop of lookup() and insert() relies.
HeapIsChain ==
    LET rest == Chain(Rest)
    IN  /\ live = {rest[j] : j \in DOMAIN rest}
        /\ \A j \in 1 .. Len(rest) - 1 : value[rest[j]] < value[rest[j + 1]]

\* What the set is after the call c, and what the call returns.
After(c, set) ==
    CASE c.op = "insert" -> set \cup {c.value}
      [] c.op = "remove" -> set \ {c.value}
      [] OTHER -> set

Answer(c, set) ==
    CASE c.op = "insert" -> c.value \notin set
      [] c.op \in {"remove", "lookup"} -> c.value \in set
      [] OTHER -> TRUE

\* The list is a set of values: every call, whatever the list looks like
\* when it gets the mutex, leaves the values of the list as the operation on
\* a set of integers would and returns what that operation returns;
\* checkIntegrity() returns true, and clear() leaves no value.
ActsAsSet ==
    [][/\ \A t \in Threads : pc[t] = "body" /\ pc'[t] = "idle" =>
              /\ Members' = After(call[t], Members)
              /\ result'[t] = Answer(call[t], Members)
       /\ \A t \in Threads : pc[t] = "clear" /\ pc'[t] = "idle" => Members' = {}
      ]_setVars

=============================================================================
