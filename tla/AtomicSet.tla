----------------------------- MODULE AtomicSet -----------------------------
(***************************************************************************)
(* What a concurrent set of keys promises its callers: insert, remove and  *)
(* lookup behave as if each took effect at one instant between its call    *)
(* and its return.  src/lock_free_list.hpp states the three contracts:     *)
(* insert "returns true if 'data' does not yet exist on the set and        *)
(* inserts it", remove "returns true if 'data' exists on the set and       *)
(* remove it", lookup "returns true if 'data' exists on the set".          *)
(*                                                                         *)
(* A call that changes the set takes effect in the one step that changes   *)
(* it.  A call that changes nothing (a lookup, an insert of a key that is  *)
(* present, a remove of one that is absent) may answer with any membership *)
(* of its key that held at some instant since the call began; seen[t]      *)
(* collects them.                                                          *)
(***************************************************************************)
CONSTANTS Threads, Keys

VARIABLES
    set,       \* the keys in the set
    call,      \* call[t]: the call thread t is in, or NoCall
    seen,      \* seen[t]: the memberships of call[t].key since the call began
    applied,   \* applied[t]: the call of t has changed the set
    result     \* result[t]: what the last call of t returned

absVars == <<set, call, seen, applied, result>>

NoCall == [op |-> "none", key |-> 0]
Calls  == [op : {"insert", "remove", "lookup"}, key : Keys]

TypeOK ==
    /\ set \subseteq Keys
    /\ call \in [Threads -> Calls \cup {NoCall}]
    /\ seen \in [Threads -> SUBSET BOOLEAN]
    /\ applied \in [Threads -> BOOLEAN]
    /\ result \in [Threads -> BOOLEAN]

Init ==
    /\ set = {}
    /\ call = [t \in Threads |-> NoCall]
    /\ seen = [t \in Threads |-> {}]
    /\ applied = [t \in Threads |-> FALSE]
    /\ result = [t \in Threads |-> FALSE]

\* Every call in progress observes the set s.
Observe(calls, s) ==
    [t \in Threads |-> IF calls[t] = NoCall THEN {}
                       ELSE seen[t] \cup {calls[t].key \in s}]

Invoke(t, c) ==
    /\ call[t] = NoCall
    /\ call' = [call EXCEPT ![t] = c]
    /\ seen' = [seen EXCEPT ![t] = {c.key \in set}]
    /\ UNCHANGED <<set, applied, result>>

\* The set once the call of t has taken effect.
Effect(t) ==
    CASE call[t].op = "insert" -> set \cup {call[t].key}
      [] call[t].op = "remove" -> set \ {call[t].key}
      [] OTHER -> set

\* The call of t changes the set; a call does so at most once.
Change(t) ==
    /\ call[t] # NoCall /\ ~applied[t]
    /\ Effect(t) # set
    /\ set' = Effect(t)

\* The answers the call of t may give.
Answers(t) ==
    CASE call[t].op = "lookup" -> seen[t]
      [] call[t].op = "insert" ->
            IF applied[t] THEN {TRUE} ELSE {FALSE} \cap {~b : b \in seen[t]}
      [] call[t].op = "remove" ->
            IF applied[t] THEN {TRUE} ELSE {FALSE} \cap seen[t]

\* The call of t ends with answer r.
End(t, r) ==
    /\ call' = [call EXCEPT ![t] = NoCall]
    /\ applied' = [applied EXCEPT ![t] = FALSE]
    /\ result' = [result EXCEPT ![t] = r]

\* The call takes effect and keeps running.
Take(t) ==
    /\ Change(t)
    /\ applied' = [applied EXCEPT ![t] = TRUE]
    /\ seen' = Observe(call, set')
    /\ UNCHANGED <<call, result>>

\* The call returns.
Return(t) ==
    /\ call[t] # NoCall
    /\ \E r \in Answers(t) : End(t, r)
    /\ seen' = Observe(call', set)
    /\ UNCHANGED set

\* The call takes effect and returns in the same step.
TakeAndReturn(t) ==
    /\ Change(t)
    /\ End(t, TRUE)
    /\ seen' = Observe(call', set')

Next ==
    \E t \in Threads :
        \/ \E c \in Calls : Invoke(t, c)
        \/ Take(t) \/ Return(t) \/ TakeAndReturn(t)

Spec == Init /\ [][Next]_absVars

=============================================================================
