-------------------------- MODULE LockFreeHashTable --------------------------
(***************************************************************************)
(* The split-ordered hash table of src/lock_free_hash_table.cpp: one       *)
(* lock-free list that holds every key in bit-reversed order, and a table  *)
(* of buckets that point at dummy nodes inside it.                         *)
(*                                                                         *)
(* A step is one access to the segment table, to counter_ or to            *)
(* buckets_size_, or one call of the list.  A call of the list is atomic   *)
(* here: module LockFreeList shows that its calls are linearizable, and    *)
(* this module is about what the table builds from them.                   *)
(***************************************************************************)
EXTENDS SplitOrder, Sequences, FiniteSets, TLC

CONSTANTS
    Threads,       \* the threads that call the table
    Keys,          \* the keys they use
    InitialSize,   \* segment_size_, table_size_ and buckets_size_ (10000)
    MAX_LOAD,      \* MAX_LOAD (10)
    CounterBits,   \* the width of size_t, for counter_
    FirstCallAlone \* the first call ends before others begin
                   \* (kv_benchmark.cpp fills the table before it serves)

ASSUME
    /\ Keys \subseteq Word
    /\ InitialSize \in Nat \ {0} /\ MAX_LOAD \in Nat
    /\ CounterBits \in Nat /\ FirstCallAlone \in BOOLEAN

NULL  == 0
Local == -1     \* &start, the parameter of the list's calls

segment_size == InitialSize
table_size   == InitialSize
Buckets      == 0 .. table_size * segment_size - 1

VARIABLES
    data,          \* data[n]: the key of list node n
    next,          \* next[n]: the node after n, or NULL
    segments,      \* the segments of segment_table_ that are allocated
    bucket,        \* bucket[i]: entry i of its segment
    counter,       \* counter_
    buckets_size,  \* buckets_size_
    pc,            \* where each thread is
    op,            \* op[t]: the call thread t is in
    index,         \* index[t]: the bucket of the call
    stack,         \* stack[t]: the buckets initialize_bucket is called for,
                   \* the innermost call first
    start,         \* start[t]: the node the next call of the list starts at
    node,          \* node[t]: the dummy node set_bucket is given
    csize,         \* csize[t]
    contents       \* history: the keys the table has said it holds

vars == <<data, next, segments, bucket, counter, buckets_size, pc, op, index,
          stack, start, node, csize, contents>>

listVars  == <<data, next>>
tableVars == <<segments, bucket>>
sizeVars  == <<counter, buckets_size>>
frameVars == <<index, stack, start, node, csize>>
initVars  == <<stack, start, node>>

\* The addresses of list nodes, and the nodes that are allocated.  The code
\* compares addresses for equality only, so that which address new returns
\* is free to choose: the model gives the nodes of one key the addresses
\* key + 1, key + 1 + 2^W, ..., and states that differ in nothing but
\* addresses are one state.  A node that is removed is not kept.
Addresses == 1 .. 2^W * (Cardinality(Threads) + 1)
Nodes     == DOMAIN data

Ops  == [name : {"insert", "remove", "lookup"}, key : Keys]
NoOp == [name |-> "none", key |-> 0]

TypeOK ==
    /\ Nodes \subseteq Addresses
    /\ data \in [Nodes -> Word] /\ next \in [Nodes -> Nodes \cup {NULL}]
    /\ segments \subseteq 0 .. table_size - 1
    /\ bucket \in [Buckets -> Nodes \cup {NULL}]
    /\ counter \in 0 .. 2^CounterBits - 1
    /\ buckets_size \in 1 .. table_size * segment_size
    /\ pc \in [Threads -> {"idle", "check", "init", "start", "dummy", "seg",
                           "store", "bucket", "list", "csize", "count",
                           "grow", "sub"}]
    /\ op \in [Threads -> Ops \cup {NoOp}]
    /\ index \in [Threads -> Buckets]
    /\ stack \in [Threads -> Seq(Buckets)]
    /\ start \in [Threads -> Nodes \cup {NULL}]
    /\ node \in [Threads -> Nodes \cup {NULL}]
    /\ csize \in [Threads -> Nat]
    /\ contents \subseteq Keys

\* LockFreeHashTable(num_threads): no segment, an empty list.
Init ==
    /\ data = <<>> /\ next = <<>>
    /\ segments = {} /\ bucket = [i \in Buckets |-> NULL]
    /\ counter = 0 /\ buckets_size = InitialSize
    /\ pc = [t \in Threads |-> "idle"]
    /\ op = [t \in Threads |-> NoOp]
    /\ index = [t \in Threads |-> 0]
    /\ stack = [t \in Threads |-> <<>>]
    /\ start = [t \in Threads |-> NULL]
    /\ node = [t \in Threads |-> NULL]
    /\ csize = [t \in Threads |-> 0]
    /\ contents = {}

Goto(t, label) == pc' = [pc EXCEPT ![t] = label]

get_bucket(i) == IF i \div segment_size \in segments THEN bucket[i] ELSE NULL

-----------------------------------------------------------------------------
(* The calls of the list that start at a node, on a list that no other     *)
(* call is changing.                                                       *)

\* lookupInternal(&start, key, &ctx): ctx.prev and ctx.cur when it returns.
\* It walks from the start node, that node included, to the first node
\* whose key is not below 'key'.
RECURSIVE lookupInternal(_, _, _)
lookupInternal(prev, cur, key) ==
    IF cur = NULL \/ data[cur] >= key THEN [prev |-> prev, cur |-> cur]
    ELSE lookupInternal(cur, next[cur], key)

Found(ctx, key) == ctx.cur # NULL /\ data[ctx.cur] = key

\* The list after CAS(ctx.prev, ctx.cur, n): a CAS on &start changes the
\* caller's parameter and nothing of the list.
Cas(nxt, ctx, n) == IF ctx.prev = Local THEN nxt ELSE [nxt EXCEPT ![ctx.prev] = n]

\* new Node with this key: the lowest address of the key that is free.
NewNode(key) ==
    LET free == {n \in Addresses \ Nodes : n % 2^W = (key + 1) % 2^W}
    IN  CHOOSE n \in free : \A m \in free : n <= m

\* insert(start, key, value, flag) links a new node between ctx.prev and
\* ctx.cur.
Linked(ctx, key) ==
    /\ data' = data @@ (NewNode(key) :> key)
    /\ next' = Cas(next, ctx, NewNode(key)) @@ (NewNode(key) :> ctx.cur)

\* remove(start, key) marks ctx.cur, unlinks it and retires it.
Unlinked(ctx) ==
    LET rest == Nodes \ {ctx.cur}
    IN  /\ next' = [n \in rest |-> Cas(next, ctx, next[ctx.cur])[n]]
        /\ data' = [n \in rest |-> data[n]]

-----------------------------------------------------------------------------
(* insert, remove and lookup.                                              *)

\* The call returns; its locals are gone.
Return(t) ==
    /\ Goto(t, "idle")
    /\ op' = [op EXCEPT ![t] = NoOp]
    /\ index' = [index EXCEPT ![t] = 0]
    /\ csize' = [csize EXCEPT ![t] = 0]

\* A thread calls insert, remove or lookup and computes the bucket of the
\* key: insert from buckets_size_, remove and lookup from table_size_.
Call(t, o) ==
    /\ pc[t] = "idle"
    /\ FirstCallAlone /\ get_bucket(0) = NULL => \A u \in Threads : pc[u] = "idle"
    /\ op' = [op EXCEPT ![t] = o]
    /\ index' = [index EXCEPT
                   ![t] = o.key % (IF o.name = "insert" THEN buckets_size
                                   ELSE table_size)]
    /\ Goto(t, "check")
    /\ UNCHANGED <<listVars, tableVars, sizeVars, stack, start, node, csize, contents>>

\* if (get_bucket(index) == NULL) initialize_bucket(index); otherwise the
\* list is called with get_bucket(index).
Check(t) ==
    /\ pc[t] = "check"
    /\ \/ /\ get_bucket(index[t]) = NULL
          /\ stack' = [stack EXCEPT ![t] = <<index[t]>>]
          /\ Goto(t, "init")
          /\ UNCHANGED start
       \/ /\ get_bucket(index[t]) # NULL
          /\ start' = [start EXCEPT ![t] = get_bucket(index[t])]
          /\ Goto(t, "list")
          /\ UNCHANGED stack
    /\ UNCHANGED <<listVars, tableVars, sizeVars, op, index, node, csize, contents>>

\* The bucket whose dummy node the list is searched from, for the dummy
\* node of bucket i: its parent, and bucket 0 for bucket 0.
Origin(i) == IF i # 0 THEN GET_PARENT(i) ELSE i

\* initialize_bucket(i), up to the argument get_bucket(...) of the list's
\* insert: a parent that is not initialized is initialized first.
InitParent(t) ==
    /\ pc[t] = "init"
    /\ LET i == Head(stack[t])
       IN  \/ /\ i # 0 /\ get_bucket(GET_PARENT(i)) = NULL
              /\ stack' = [stack EXCEPT ![t] = <<GET_PARENT(i)>> \o @]
              /\ UNCHANGED <<pc, start>>
           \/ /\ i = 0 \/ get_bucket(GET_PARENT(i)) # NULL
              /\ start' = [start EXCEPT ![t] = get_bucket(Origin(i))]
              /\ Goto(t, "dummy")
              /\ UNCHANGED stack
    /\ UNCHANGED <<listVars, tableVars, sizeVars, op, index, node, csize, contents>>

\* The argument get_bucket(...) of the list's call, after initialize_bucket
\* has returned: to initialize_bucket of the child, or to the caller.
ReadStart(t) ==
    /\ \/ /\ pc[t] = "start"
          /\ start' = [start EXCEPT ![t] = get_bucket(Origin(Head(stack[t])))]
          /\ Goto(t, "dummy")
       \/ /\ pc[t] = "bucket"
          /\ start' = [start EXCEPT ![t] = get_bucket(index[t])]
          /\ Goto(t, "list")
    /\ UNCHANGED <<listVars, tableVars, sizeVars, op, index, stack, node,
                   csize, contents>>

\* list_->insert(start, so_dummykey(i), NULL, true): the dummy node of
\* bucket i, new or the one that is there.
InsertDummy(t) ==
    /\ pc[t] = "dummy"
    /\ LET key == so_dummykey(Head(stack[t]))
           ctx == lookupInternal(Local, start[t], key)
       IN  \/ /\ Found(ctx, key)
              /\ node' = [node EXCEPT ![t] = ctx.cur]
              /\ UNCHANGED listVars
           \/ /\ ~Found(ctx, key)
              /\ Linked(ctx, key)
              /\ node' = [node EXCEPT ![t] = NewNode(key)]
    /\ start' = [start EXCEPT ![t] = NULL]
    /\ Goto(t, "seg")
    /\ UNCHANGED <<tableVars, sizeVars, op, index, stack, csize, contents>>

\* set_bucket, the segment: allocated and installed by CAS if there is
\* none.
SetSegment(t) ==
    /\ pc[t] = "seg"
    /\ segments' = segments \cup {Head(stack[t]) \div segment_size}
    /\ Goto(t, "store")
    /\ UNCHANGED <<listVars, bucket, sizeVars, op, frameVars, contents>>

\* A fault-injection variant of SetBucket: the entry of the parent is
\* written.
SetBucket_Parent(t) ==
    /\ pc[t] = "store"
    /\ bucket' = [bucket EXCEPT ![Origin(Head(stack[t]))] = node[t]]
    /\ stack' = [stack EXCEPT ![t] = Tail(@)]
    /\ node' = [node EXCEPT ![t] = NULL]
    /\ Goto(t, IF Tail(stack[t]) = <<>> THEN "bucket" ELSE "start")
    /\ UNCHANGED <<listVars, segments, sizeVars, op, index, start, csize, contents>>

\* set_bucket, the store: segment_table_[segment][index % segment_size_] =
\* node; initialize_bucket returns.
SetBucket(t) ==
    /\ pc[t] = "store"
    /\ bucket' = [bucket EXCEPT ![Head(stack[t])] = node[t]]
    /\ stack' = [stack EXCEPT ![t] = Tail(@)]
    /\ node' = [node EXCEPT ![t] = NULL]
    /\ Goto(t, IF Tail(stack[t]) = <<>> THEN "bucket" ELSE "start")
    /\ UNCHANGED <<listVars, segments, sizeVars, op, index, start, csize, contents>>

\* The call of the list: insert(start, so_regularkey(key), value, false),
\* remove(start, so_regularkey(key)) or lookup(start, so_regularkey(key),
\* value).  insert and remove go on to counter_ when the list was changed.
ListCall(t) ==
    /\ pc[t] = "list"
    /\ LET key == so_regularkey(op[t].key)
           ctx == lookupInternal(Local, start[t], key)
       IN  \/ /\ op[t].name = "insert" /\ ~Found(ctx, key)
              /\ IF ctx.prev = Local THEN UNCHANGED listVars  \* the node is lost
                                     ELSE Linked(ctx, key)
              /\ contents' = contents \cup {op[t].key}
              /\ Goto(t, "csize") /\ UNCHANGED <<op, index, csize>>
           \/ /\ op[t].name = "remove" /\ Found(ctx, key)
              /\ Unlinked(ctx)
              /\ contents' = contents \ {op[t].key}
              /\ Goto(t, "sub") /\ UNCHANGED <<op, index, csize>>
           \/ /\ \/ op[t].name = "lookup"
                 \/ op[t].name = "insert" /\ Found(ctx, key)
                 \/ op[t].name = "remove" /\ ~Found(ctx, key)
              /\ Return(t)
              /\ UNCHANGED <<listVars, contents>>
    /\ start' = [start EXCEPT ![t] = NULL]
    /\ UNCHANGED <<tableVars, sizeVars, stack, node>>

\* size_t csize = buckets_size_;
ReadSize(t) ==
    /\ pc[t] = "csize"
    /\ csize' = [csize EXCEPT ![t] = buckets_size]
    /\ Goto(t, "count")
    /\ UNCHANGED <<listVars, tableVars, sizeVars, op, index, stack, start,
                   node, contents>>

\* A fault-injection variant of Count: counter_ is not divided by csize.
Count_NoDivide(t) ==
    /\ pc[t] = "count"
    /\ counter' = (counter + 1) % 2^CounterBits
    /\ \/ /\ counter' > MAX_LOAD
          /\ Goto(t, "grow") /\ UNCHANGED <<op, index, csize>>
       \/ /\ counter' <= MAX_LOAD
          /\ Return(t)
    /\ UNCHANGED <<listVars, tableVars, buckets_size, initVars, contents>>

\* if (__sync_add_and_fetch(&counter_, 1)/csize > MAX_LOAD)
Count(t) ==
    /\ pc[t] = "count"
    /\ counter' = (counter + 1) % 2^CounterBits
    /\ \/ /\ counter' \div csize[t] > MAX_LOAD
          /\ Goto(t, "grow") /\ UNCHANGED <<op, index, csize>>
       \/ /\ counter' \div csize[t] <= MAX_LOAD
          /\ Return(t)
    /\ UNCHANGED <<listVars, tableVars, buckets_size, initVars, contents>>

\* __sync_bool_compare_and_swap(&buckets_size_, csize, 2*csize)
Grow(t) ==
    /\ pc[t] = "grow"
    /\ buckets_size' = IF buckets_size = csize[t] THEN 2 * csize[t] ELSE buckets_size
    /\ Return(t)
    /\ UNCHANGED <<listVars, tableVars, counter, initVars, contents>>

\* A fault-injection variant of Sub: remove forgets counter_.
Sub_Forgets(t) ==
    /\ pc[t] = "sub"
    /\ Return(t)
    /\ UNCHANGED <<listVars, tableVars, sizeVars, initVars, contents>>

\* __sync_sub_and_fetch(&counter_, 1)
Sub(t) ==
    /\ pc[t] = "sub"
    /\ counter' = (counter - 1) % 2^CounterBits
    /\ Return(t)
    /\ UNCHANGED <<listVars, tableVars, buckets_size, initVars, contents>>

Next ==
    \E t \in Threads :
        \/ \E o \in Ops : Call(t, o)
        \/ Check(t) \/ InitParent(t) \/ ReadStart(t) \/ InsertDummy(t)
        \/ SetSegment(t) \/ SetBucket(t) \/ ListCall(t)
        \/ ReadSize(t) \/ Count(t) \/ Grow(t) \/ Sub(t)

Spec == Init /\ [][Next]_vars

-----------------------------------------------------------------------------
(* Properties.                                                             *)

\* The nodes of the list, from bucket 0's dummy node on.
RECURSIVE ChainFrom(_)
ChainFrom(n) == IF n = NULL THEN <<>> ELSE <<n>> \o ChainFrom(next[n])

Chain == ChainFrom(get_bucket(0))

\* The table is one list in split order: the chain that starts at bucket
\* 0's dummy node is strictly sorted, and every bucket that is initialized
\* points at a node on it that carries the bucket's dummy key
\* (initialize_bucket with set_bucket, by several threads at once).
SplitOrdered ==
    /\ \A i, j \in 1 .. Len(Chain) : i < j => data[Chain[i]] < data[Chain[j]]
    /\ \A b \in Buckets : get_bucket(b) # NULL =>
           /\ \E i \in 1 .. Len(Chain) : Chain[i] = get_bucket(b)
           /\ data[get_bucket(b)] = so_dummykey(b)

\* The closest bucket above b that is initialized, or bucket 0.
RECURSIVE Ancestor(_)
Ancestor(b) == IF b = 0 \/ get_bucket(b) # NULL THEN b ELSE Ancestor(GET_PARENT(b))

\* What lookup(key) answers when it runs alone: it searches from the dummy
\* node of bucket key % table_size_, which it puts in its place behind the
\* closest initialized ancestor if the bucket is not initialized.
Finds(key) ==
    LET b  == key % table_size
        rk == so_regularkey(key)
        dummy == IF Ancestor(b) = b THEN get_bucket(b)
                 ELSE lookupInternal(Local, get_bucket(Ancestor(b)), so_dummykey(b)).cur
    IN  /\ Ancestor(b) # b => so_dummykey(b) < rk
        /\ Found(lookupInternal(Local, dummy, rk), rk)

\* The table holds what it said it holds: a key whose insert returned true
\* is found by lookup until a remove of it returns true, and no other key
\* is found, in whichever bucket insert put the key when buckets_size_ has
\* grown since.
HoldsWhatItSaid == \A key \in Keys : Finds(key) <=> key \in contents

\* Split order, whatever buckets_size_ has grown to: of the dummy keys of
\* the buckets in use, the one of bucket key % buckets_size_ is the last
\* before the regular key of the key, so that insert, which starts at that
\* dummy node, walks over nodes of its own bucket only (reverse,
\* so_regularkey and so_dummykey against the doubling of insert).
DummyBeforeItsKeys ==
    LET InUse == 0 .. buckets_size - 1
    IN  \A key \in Keys :
            /\ so_dummykey(key % buckets_size) < so_regularkey(key)
            /\ \A c \in InUse : so_dummykey(c) < so_regularkey(key)
                                    => so_dummykey(c) <= so_dummykey(key % buckets_size)

\* What initialize_bucket relies on, for every bucket in use: the parent
\* GET_PARENT gives is a smaller bucket (the recursion ends at bucket 0), it
\* is the bucket the keys were in when the table had half the buckets, and
\* its dummy node comes before this bucket's in the list.
ParentIsCoarserBucket ==
    \A i \in 1 .. buckets_size - 1 :
        LET parent == GET_PARENT(i)
        IN  /\ parent < i
            /\ \E n \in 0 .. W - 1 : 2^n <= i /\ i < 2^(n + 1) /\ parent = i % 2^n
            /\ so_dummykey(parent) < so_dummykey(i)

\* The arithmetic of the split order fits the table, whatever buckets_size_
\* has grown to: insert starts at the dummy node of its bucket and meets
\* nodes of that bucket only (DummyBeforeItsKeys), and initialize_bucket
\* finds the dummy node of a new bucket's parent before it and ends its
\* recursion at bucket 0 (ParentIsCoarserBucket).
BucketsNestInSplitOrder == DummyBeforeItsKeys /\ ParentIsCoarserBucket

\* counter_, which decides when the table grows, is the number of keys in
\* the table once the calls in progress have counted theirs: insert and
\* remove change the list first and counter_ in a later step.
CounterTracksKeys ==
    LET counting == {t \in Threads : pc[t] \in {"csize", "count"}}
        removing == {t \in Threads : pc[t] = "sub"}
    IN  counter = (Cardinality(contents) - Cardinality(counting)
                   + Cardinality(removing)) % 2^CounterBits

=============================================================================
