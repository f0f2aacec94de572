---------------------------- MODULE LockFreeList ----------------------------
(***************************************************************************)
(* The lock-free ordered list of src/lock_free_list.hpp together with the  *)
(* hazard pointers of src/hazard_pointers.hpp that reclaim its nodes.      *)
(*                                                                         *)
(* Every thread is a small state machine: pc[t] names the next access to   *)
(* shared memory the thread will make, reg[t] holds its locals (the        *)
(* LookupContext, new_node, the scan state of maybeFreeNodes).  One step   *)
(* of the model is one access to shared memory (a load, a store or a CAS   *)
(* of head_, of a node's next, of a hazard slot) with the local            *)
(* computation that follows it.                                            *)
(*                                                                         *)
(* Memory is modelled without reuse of addresses: a deleted node stays     *)
(* "freed" for ever, so that every later access to it can be recognised.   *)
(* What a deleted node holds is never read, and is cleared.                *)
(***************************************************************************)
EXTENDS Integers, FiniteSets, Sequences

CONSTANTS
    Threads,     \* the ids ThreadPoolFast::ME() returns: 0 .. num_threads-1
    Nodes,       \* the addresses operator new can return, 1 .. n
    Keys,        \* the values of T that are inserted, removed, looked up
    MaxRetired   \* MAX_RETIRED_NODES_PER_THREAD

NULL    == 0     \* the null Node*
HeadLoc == 0     \* the location &head_ ; a location n in Nodes is &n->next
NumPtrs == 2     \* HazardPointers<Node, 2>

ASSUME
    /\ IsFiniteSet(Threads) /\ Threads = 0 .. Cardinality(Threads) - 1
    /\ IsFiniteSet(Nodes)   /\ Nodes = 1 .. Cardinality(Nodes)
    /\ Keys \subseteq Nat \ {0}
    /\ MaxRetired \in Nat

VARIABLES
    cell,      \* cell[HeadLoc] is head_, cell[n] is n->next: pointer and mark
    data,      \* data[n] is n->data
    heap,      \* heap[n]: "unused", "live" (allocated) or "freed" (deleted)
    hp,        \* hp[t][j] is hp_recs_[t].hazard_pointers[j]
    retired,   \* retired[t] is retired_lists_[t]
    pc,        \* pc[t]: where thread t is in its current call
    reg,       \* reg[t]: the locals of thread t
    result     \* result[t]: what the last call of thread t returned

vars == <<cell, data, heap, hp, retired, pc, reg, result>>

Loc  == {HeadLoc} \cup Nodes
Refs == {NULL} \cup Nodes

\* The hazard slots in the order maybeFreeNodes reads them: slot s is
\* hp_recs_[s \div NumPtrs].hazard_pointers[s % NumPtrs].
Slots      == 0 .. NumPtrs * Cardinality(Threads) - 1
SlotsOf(t) == {s \in Slots : s \div NumPtrs = t}

-----------------------------------------------------------------------------
(* MarkablePointer: a pointer whose lowest bit is the deletion mark.       *)

MPtr        == [p : Refs, m : BOOLEAN]
Ptr(n)      == [p |-> n, m |-> FALSE]
mark(q)     == [q EXCEPT !.m = TRUE]
unmark(q)   == [q EXCEPT !.m = FALSE]
isMarked(q) == q.m

-----------------------------------------------------------------------------
(* Thread-local state.                                                     *)

PCs == {"idle", "try_again", "set_hp", "validate", "read_next", "unlink",
        "read_key", "revalidate", "rotate1", "rotate2", "scan",
        "reclaim", "ins_cas", "ins_delete", "rem_mark", "rem_unlink"}

\* ret: who called lookupInternal; after: who called retireNode.
Regs == [op : {"none", "insert", "remove", "lookup"},
         key : Keys \cup {0}, new_node : Refs,
         prev : Loc, cur : Refs, next : MPtr, cur_key : Keys \cup {0},
         temp : Refs, ret : {"none", "insert", "remove", "cleanup", "lookup"},
         after : {"none", "advance", "removed"},
         todo : SUBSET Slots, active : SUBSET Nodes]

IdleReg == [op |-> "none", key |-> 0, new_node |-> NULL,
            prev |-> HeadLoc, cur |-> NULL, next |-> Ptr(NULL), cur_key |-> 0,
            temp |-> NULL, ret |-> "none", after |-> "none",
            todo |-> {}, active |-> {}]

TypeOK ==
    /\ cell \in [Loc -> MPtr]
    /\ data \in [Nodes -> Keys \cup {0}]
    /\ heap \in [Nodes -> {"unused", "live", "freed"}]
    /\ hp \in [Threads -> [0 .. NumPtrs - 1 -> Refs]]
    /\ retired \in [Threads -> SUBSET Nodes]
    /\ pc \in [Threads -> PCs]
    /\ reg \in [Threads -> Regs]
    /\ result \in [Threads -> BOOLEAN]

\* An empty list, no call in progress.  Node() zeroes data and next; the
\* hazard slots are taken to start as NULL.
Init ==
    /\ cell = [l \in Loc |-> Ptr(NULL)]
    /\ data = [n \in Nodes |-> 0]
    /\ heap = [n \in Nodes |-> "unused"]
    /\ hp = [t \in Threads |-> [j \in 0 .. NumPtrs - 1 |-> NULL]]
    /\ retired = [t \in Threads |-> {}]
    /\ pc = [t \in Threads |-> "idle"]
    /\ reg = [t \in Threads |-> IdleReg]
    /\ result = [t \in Threads |-> FALSE]

-----------------------------------------------------------------------------
(* Accesses to deleted memory.                                             *)

\* The node whose memory thread t reads or writes in its next step.
Touched(t) ==
    CASE pc[t] \in {"validate", "unlink", "revalidate", "ins_cas", "rem_unlink"}
           -> {reg[t].prev} \cap Nodes
      [] pc[t] \in {"read_next", "read_key", "rem_mark"} -> {reg[t].cur}
      [] OTHER -> {}

\* The next step of thread t is a use of a node that has been deleted.
Faulting(t) == \E n \in Touched(t) : heap[n] = "freed"

-----------------------------------------------------------------------------
(* Control transfers shared by the steps.                                  *)

Goto(t, label, r) ==
    /\ pc' = [pc EXCEPT ![t] = label]
    /\ reg' = [reg EXCEPT ![t] = r]
    /\ UNCHANGED result

Return(t, value) ==
    /\ pc' = [pc EXCEPT ![t] = "idle"]
    /\ reg' = [reg EXCEPT ![t] = IdleReg]
    /\ result' = [result EXCEPT ![t] = value]

\* lookupInternal returns `found` to its caller with context r.
Resume(t, r, found) ==
    \/ /\ r.ret = "lookup"
       /\ Return(t, found)
    \/ /\ r.ret = "insert"
       /\ Goto(t, IF found THEN "ins_delete" ELSE "ins_cas", r)
    \/ /\ r.ret = "remove" /\ found
       /\ Goto(t, "rem_mark", r)
    \/ /\ r.ret = "remove" /\ ~found
       /\ Return(t, FALSE)
    \/ /\ r.ret = "cleanup"
       /\ Return(t, TRUE)

\* The test of `while (cur != NULL)` and the `return false` behind the loop.
LoopTest(t, r) ==
    IF r.cur = NULL THEN Resume(t, r, FALSE) ELSE Goto(t, "set_hp", r)

-----------------------------------------------------------------------------
(* The three calls.  insert allocates its node before it searches.         *)

CallInsert(t, k) ==
    /\ pc[t] = "idle"
    /\ \E n \in Nodes :
        /\ heap[n] = "unused"
        /\ \A m \in Nodes : heap[m] = "unused" => n <= m
        /\ heap' = [heap EXCEPT ![n] = "live"]
        /\ data' = [data EXCEPT ![n] = k]
        /\ Goto(t, "try_again", [IdleReg EXCEPT !.op = "insert", !.key = k,
                                                !.ret = "insert", !.new_node = n])
    /\ UNCHANGED <<cell, hp, retired>>

CallRemove(t, k) ==
    /\ pc[t] = "idle"
    /\ Goto(t, "try_again", [IdleReg EXCEPT !.op = "remove", !.key = k,
                                            !.ret = "remove"])
    /\ UNCHANGED <<cell, data, heap, hp, retired>>

CallLookup(t, k) ==
    /\ pc[t] = "idle"
    /\ Goto(t, "try_again", [IdleReg EXCEPT !.op = "lookup", !.key = k,
                                            !.ret = "lookup"])
    /\ UNCHANGED <<cell, data, heap, hp, retired>>

-----------------------------------------------------------------------------
(* HazardPointers::retireNode and maybeFreeNodes.                          *)

\* retireNode returns to the statement after its call.
AfterRetire(t, r) ==
    LET done == [r EXCEPT !.after = "none", !.todo = {}, !.active = {}]
    IN  \/ /\ r.after = "advance"
           /\ LoopTest(t, [done EXCEPT !.cur = r.next.p])
        \/ /\ r.after = "removed"
           /\ Return(t, TRUE)

\* retired_lists_[ME].insert(node) and the test of the threshold.  Above
\* it maybeFreeNodes starts; the thread's own slots, which nobody else
\* writes, are in the snapshot from the start.
retireNode(t, r) ==
    /\ retired' = [retired EXCEPT ![t] = @ \cup {r.cur}]
    /\ \/ /\ Cardinality(retired'[t]) > MaxRetired
          /\ Goto(t, "scan",
                  [r EXCEPT !.todo = Slots \ SlotsOf(t),
                            !.active = {hp[t][j] : j \in 0 .. NumPtrs - 1} \ {NULL}])
       \/ /\ Cardinality(retired'[t]) <= MaxRetired
          /\ AfterRetire(t, r)


\* Scan without the test `hazard_pointers[j] != NULL`: empty slots enter
\* the snapshot.
Scan_KeepsNull(t) ==
    /\ pc[t] = "scan"
    /\ reg[t].todo # {}
    /\ LET s == CHOOSE x \in reg[t].todo : \A y \in reg[t].todo : x <= y
       IN  Goto(t, "scan",
                [reg[t] EXCEPT !.todo = @ \ {s},
                               !.active = @ \cup {hp[s \div NumPtrs][s % NumPtrs]}])
    /\ UNCHANGED <<cell, data, heap, hp, retired>>

\* One turn of the loops that copy the hazard slots into active_list: the
\* slots of the other threads are read one at a time, in order, while
\* their owners keep writing them.
Scan(t) ==
    /\ pc[t] = "scan"
    /\ reg[t].todo # {}
    /\ LET s == CHOOSE x \in reg[t].todo : \A y \in reg[t].todo : x <= y
       IN  Goto(t, "scan",
                [reg[t] EXCEPT !.todo = @ \ {s},
                               !.active = @ \cup ({hp[s \div NumPtrs][s % NumPtrs]} \ {NULL})])
    /\ UNCHANGED <<cell, data, heap, hp, retired>>

\* The loop over the retired list: every retired node the snapshot does not
\* hold is deleted; then maybeFreeNodes and retireNode return.
Reclaim(t) ==
    /\ pc[t] = "scan"
    /\ reg[t].todo = {}
    /\ LET garbage == retired[t] \ reg[t].active
       IN  /\ heap' = [n \in Nodes |-> IF n \in garbage THEN "freed" ELSE heap[n]]
           /\ cell' = [l \in Loc |-> IF l \in garbage THEN Ptr(NULL) ELSE cell[l]]
           /\ data' = [n \in Nodes |-> IF n \in garbage THEN 0 ELSE data[n]]
           /\ retired' = [retired EXCEPT ![t] = @ \ garbage]
    /\ AfterRetire(t, reg[t])
    /\ UNCHANGED hp

-----------------------------------------------------------------------------
(* lookupInternal.                                                         *)

\* try_again: prev = start; cur = *prev;
TryAgain(t) ==
    /\ pc[t] = "try_again"
    /\ LoopTest(t, [reg[t] EXCEPT !.prev = HeadLoc, !.cur = cell[HeadLoc].p,
                                  !.next = Ptr(NULL), !.cur_key = 0])
    /\ UNCHANGED <<cell, data, heap, hp, retired>>

\* hp[0] = cur; and the fence.
SetHazard(t) ==
    /\ pc[t] = "set_hp"
    /\ hp' = [hp EXCEPT ![t][0] = reg[t].cur]
    /\ Goto(t, "validate", reg[t])
    /\ UNCHANGED <<cell, data, heap, retired>>


\* Validate without the test of *prev: the hazard pointer is published but
\* never confirmed.
Validate_NoRecheck(t) ==
    /\ pc[t] = "validate"
    /\ Goto(t, "read_next", reg[t])
    /\ UNCHANGED <<cell, data, heap, hp, retired>>

\* Validate with the test inverted: *prev == cur restarts the traversal.
Validate_Inverted(t) ==
    /\ pc[t] = "validate"
    /\ Goto(t, IF cell[reg[t].prev] = Ptr(reg[t].cur) THEN "try_again"
                                                      ELSE "read_next", reg[t])
    /\ UNCHANGED <<cell, data, heap, hp, retired>>

\* if (*prev != cur) goto try_again;
Validate(t) ==
    /\ pc[t] = "validate"
    /\ Goto(t, IF cell[reg[t].prev] # Ptr(reg[t].cur) THEN "try_again"
                                                      ELSE "read_next", reg[t])
    /\ UNCHANGED <<cell, data, heap, hp, retired>>

\* next = cur->next; and the test of its mark.
ReadNext(t) ==
    /\ pc[t] = "read_next"
    /\ LET nxt == cell[reg[t].cur]
       IN  Goto(t, IF isMarked(nxt) THEN "unlink" ELSE "read_key",
                [reg[t] EXCEPT !.next = nxt])
    /\ UNCHANGED <<cell, data, heap, hp, retired>>

\* cur is marked: CAS(prev, cur, unmarked_next), then retireNode(ME, cur).
Unlink(t) ==
    /\ pc[t] = "unlink"
    /\ IF cell[reg[t].prev] = Ptr(reg[t].cur)
          THEN /\ cell' = [cell EXCEPT ![reg[t].prev] = unmark(reg[t].next)]
               /\ retireNode(t, [reg[t] EXCEPT !.after = "advance"])
          ELSE /\ Goto(t, "try_again", reg[t])
               /\ UNCHANGED <<cell, retired>>
    /\ UNCHANGED <<data, heap, hp>>

\* T cur_key = cur->data;
ReadKey(t) ==
    /\ pc[t] = "read_key"
    /\ Goto(t, "revalidate", [reg[t] EXCEPT !.cur_key = data[reg[t].cur]])
    /\ UNCHANGED <<cell, data, heap, hp, retired>>


\* Revalidate that stops at cur_key > key: a node with the key itself is
\* walked past.
Revalidate_StopsLate(t) ==
    /\ pc[t] = "revalidate"
    /\ \/ /\ cell[reg[t].prev] # Ptr(reg[t].cur)
          /\ Goto(t, "try_again", reg[t])
       \/ /\ cell[reg[t].prev] = Ptr(reg[t].cur)
          /\ reg[t].cur_key > reg[t].key
          /\ Resume(t, reg[t], reg[t].cur_key = reg[t].key)
       \/ /\ cell[reg[t].prev] = Ptr(reg[t].cur)
          /\ reg[t].cur_key <= reg[t].key
          /\ Goto(t, "rotate1", [reg[t] EXCEPT !.prev = reg[t].cur])
    /\ UNCHANGED <<cell, data, heap, hp, retired>>

\* The second test of *prev, the comparison with key, prev = &cur->next.
Revalidate(t) ==
    /\ pc[t] = "revalidate"
    /\ \/ /\ cell[reg[t].prev] # Ptr(reg[t].cur)
          /\ Goto(t, "try_again", reg[t])
       \/ /\ cell[reg[t].prev] = Ptr(reg[t].cur)
          /\ reg[t].cur_key >= reg[t].key
          /\ Resume(t, reg[t], reg[t].cur_key = reg[t].key)
       \/ /\ cell[reg[t].prev] = Ptr(reg[t].cur)
          /\ reg[t].cur_key < reg[t].key
          /\ Goto(t, "rotate1", [reg[t] EXCEPT !.prev = reg[t].cur])
    /\ UNCHANGED <<cell, data, heap, hp, retired>>

\* Node* temp = hp[0]; hp[0] = hp[1];
Rotate1(t) ==
    /\ pc[t] = "rotate1"
    /\ hp' = [hp EXCEPT ![t][0] = hp[t][1]]
    /\ Goto(t, "rotate2", [reg[t] EXCEPT !.temp = hp[t][0]])
    /\ UNCHANGED <<cell, data, heap, retired>>

\* hp[1] = temp; the fence; cur = next;
Rotate2(t) ==
    /\ pc[t] = "rotate2"
    /\ hp' = [hp EXCEPT ![t][1] = reg[t].temp]
    /\ LoopTest(t, [reg[t] EXCEPT !.cur = reg[t].next.p, !.temp = NULL])
    /\ UNCHANGED <<cell, data, heap, retired>>

-----------------------------------------------------------------------------
(* insert and remove after lookupInternal has returned.                    *)


\* new_node->next = ctx.cur; CAS(ctx.prev, ctx.cur, new_node)
InsCas(t) ==
    /\ pc[t] = "ins_cas"
    /\ LET r == reg[t]
           linked == [cell EXCEPT ![r.new_node] = Ptr(r.cur)]
       IN  \/ /\ cell[r.prev] = Ptr(r.cur)
              /\ cell' = [linked EXCEPT ![r.prev] = Ptr(r.new_node)]
              /\ Return(t, TRUE)
           \/ /\ cell[r.prev] # Ptr(r.cur)
              /\ cell' = linked
              /\ Goto(t, "try_again", r)
    /\ UNCHANGED <<data, heap, hp, retired>>

\* The key is in the list: delete new_node; return false;
InsDelete(t) ==
    /\ pc[t] = "ins_delete"
    /\ heap' = [heap EXCEPT ![reg[t].new_node] = "freed"]
    /\ cell' = [cell EXCEPT ![reg[t].new_node] = Ptr(NULL)]
    /\ data' = [data EXCEPT ![reg[t].new_node] = 0]
    /\ Return(t, FALSE)
    /\ UNCHANGED <<hp, retired>>


\* RemMark that sets the mark without comparing cur->next with ctx.next.
RemMark_Blind(t) ==
    /\ pc[t] = "rem_mark"
    /\ cell' = [cell EXCEPT ![reg[t].cur] = mark(reg[t].next)]
    /\ Goto(t, "rem_unlink", reg[t])
    /\ UNCHANGED <<data, heap, hp, retired>>

\* The logical deletion: CAS(&ctx.cur->next, ctx.next, mark(ctx.next))
RemMark(t) ==
    /\ pc[t] = "rem_mark"
    /\ LET r == reg[t]
       IN  \/ /\ cell[r.cur] = r.next
              /\ cell' = [cell EXCEPT ![r.cur] = mark(r.next)]
              /\ Goto(t, "rem_unlink", r)
           \/ /\ cell[r.cur] # r.next
              /\ Goto(t, "try_again", r)
              /\ UNCHANGED cell
    /\ UNCHANGED <<data, heap, hp, retired>>


\* RemUnlink that retires the node whether or not its CAS unlinked it.
RemUnlink_AlwaysRetires(t) ==
    /\ pc[t] = "rem_unlink"
    /\ LET r == reg[t]
       IN  /\ cell' = IF cell[r.prev] = Ptr(r.cur)
                         THEN [cell EXCEPT ![r.prev] = r.next] ELSE cell
           /\ retireNode(t, [r EXCEPT !.after = "removed"])
    /\ UNCHANGED <<data, heap, hp>>

\* The physical deletion: CAS(ctx.prev, ctx.cur, ctx.next); on success the
\* node is retired, on failure another lookupInternal cleans the list up.
RemUnlink(t) ==
    /\ pc[t] = "rem_unlink"
    /\ LET r == reg[t]
       IN  \/ /\ cell[r.prev] = Ptr(r.cur)
              /\ cell' = [cell EXCEPT ![r.prev] = r.next]
              /\ retireNode(t, [r EXCEPT !.after = "removed"])
           \/ /\ cell[r.prev] # Ptr(r.cur)
              /\ Goto(t, "try_again", [r EXCEPT !.ret = "cleanup"])
              /\ UNCHANGED <<cell, retired>>
    /\ UNCHANGED <<data, heap, hp>>

-----------------------------------------------------------------------------

\* A step of thread t.  A thread about to use deleted memory takes no step:
\* what it would do is undefined.
Step(t) ==
    /\ ~Faulting(t)
    /\ \/ \E k \in Keys : CallInsert(t, k) \/ CallRemove(t, k) \/ CallLookup(t, k)
       \/ TryAgain(t) \/ SetHazard(t) \/ Validate(t) \/ ReadNext(t)
       \/ Unlink(t) \/ ReadKey(t) \/ Revalidate(t) \/ Rotate1(t) \/ Rotate2(t)
       \/ Scan(t) \/ Reclaim(t)
       \/ InsCas(t) \/ InsDelete(t) \/ RemMark(t) \/ RemUnlink(t)

\* The process has run into a use of deleted memory: nothing is defined
\* from here on.
Crashed == (\E t \in Threads : Faulting(t)) /\ UNCHANGED vars

Next == (\E t \in Threads : Step(t)) \/ Crashed

Spec == Init /\ [][Next]_vars

-----------------------------------------------------------------------------
(* State functions the properties are stated with.                         *)

\* The nodes met by following next from p, at most `fuel` of them.
RECURSIVE Walk(_, _)
Walk(p, fuel) ==
    IF p = NULL \/ fuel = 0 THEN <<>>
    ELSE <<p>> \o Walk(cell[p].p, fuel - 1)

\* The list as checkIntegrity() walks it.
Chain == Walk(cell[HeadLoc].p, Cardinality(Nodes) + 1)

Reachable == {Chain[i] : i \in DOMAIN Chain}

\* The set the list stands for: the keys of its nodes that are not marked.
Members == {data[n] : n \in {m \in Reachable : ~isMarked(cell[m])}}

-----------------------------------------------------------------------------
(* Properties.                                                             *)

\* What checkIntegrity() checks, at every instant and not only at rest: the
\* chain from head_ ends, its keys ascend strictly (so no key is there
\* twice), and, beyond what checkIntegrity() can see, every node of it is
\* allocated memory: no CAS of insert, remove or lookupInternal links a
\* node twice, behind a larger key, or leaves a deleted node linked.
ListIntegrity ==
    /\ Len(Chain) <= Cardinality(Nodes)
    /\ \A i \in DOMAIN Chain : heap[Chain[i]] = "live"
    /\ \A i, j \in DOMAIN Chain : i < j => data[Chain[i]] < data[Chain[j]]

\* "What does [transfer ownership] is unlinking.  Every code site that
\* unlinks a node immediately calls the retiring logic": a node is retired
\* by the one thread whose CAS unlinked it, so it is in one retired list at
\* most, it is marked, it is allocated, and it is no longer in the chain.
\* Two threads that both believe they unlinked a node would delete it twice.
RetiredOnce ==
    /\ \A t, u \in Threads : t # u => retired[t] \cap retired[u] = {}
    /\ \A t \in Threads : \A n \in retired[t] :
          /\ heap[n] = "live"
          /\ isMarked(cell[n])
          /\ n \notin Reachable

\* The hazard pointer promise for cur: from the moment lookupInternal has
\* published cur in hp[0] and found *prev still pointing at it, until it
\* moves on, no scan of maybeFreeNodes by any thread deletes cur, so the
\* reads of cur->next and cur->data and the CAS of remove on cur->next are
\* reads and writes of allocated memory.
CurProtected ==
    \A t \in Threads :
        pc[t] \in {"read_next", "read_key", "revalidate", "unlink",
                   "rem_mark", "rem_unlink"}
            => heap[reg[t].cur] = "live"

\* No thread ever reads or writes a node that has been deleted: neither
\* through cur nor through prev, which after `prev = &cur->next` points into
\* the node that was cur.
NoUseAfterFree == \A t \in Threads : ~Faulting(t)

=============================================================================
