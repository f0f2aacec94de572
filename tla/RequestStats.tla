---------------------------- MODULE RequestStats ----------------------------
(***************************************************************************)
(* The request counter of src/request_stats.cpp: for every worker a row of *)
(* num_slots_ slots, each the count of the requests the worker finished in *)
(* one twentieth of a second and the time of the first of them.  A worker  *)
(* writes its own row only; getStats reads every row with no               *)
(* synchronisation while the workers write.                                *)
(*                                                                         *)
(* A step is one access to a slot that another thread reads or writes.     *)
(* Time is the tick counter that the callers read before they call.        *)
(***************************************************************************)
EXTENDS Integers, FiniteSets, Functions

CONSTANTS
    num_threads,   \* num_threads_: the workers, and the rows
    Readers,       \* the threads that call getStats
    num_slots,     \* num_slots_ (20)
    TicksPerSlot,  \* ticks_per_second / num_slots_
    TickBits,      \* the width of TicksClock::Ticks
    MaxTime,       \* bound of the model: the clock stops here
    MaxRequests    \* bound of the model: the calls of finishedRequest

ASSUME
    /\ num_threads \in Nat \ {0} /\ num_slots \in Nat \ {0}
    /\ TicksPerSlot \in Nat \ {0} /\ MaxRequests \in Nat
    /\ MaxTime \in Nat /\ MaxTime < 2^TickBits

Workers == 0 .. num_threads - 1
Slots   == 0 .. num_slots - 1
Callers == Workers \cup Readers
Times   == 0 .. MaxTime

ticks_per_second == num_slots * TicksPerSlot

VARIABLES
    clock,         \* TicksClock::getTicks()
    built,         \* history: the time of the construction
    num_req,       \* num_req[i][j]: req_counter_[i][j].num_req
    last_update,   \* last_update[i][j]: req_counter_[i][j].last_update
    pc,            \* where each caller is
    now,           \* now[c]: the argument 'now' of the call
    at,            \* at[r]: the slot getStats is at, i * num_slots_ + j
    req_counter,   \* req_counter[r]: the local sum of getStats
    counted,       \* history: counted[t], the requests counted with now = t
    quiet          \* history: quiet[r], no worker is writing or has written
                   \* since getStats was called

vars == <<clock, built, num_req, last_update, pc, now, at, req_counter, counted, quiet>>

slotVars   == <<num_req, last_update>>
readerVars == <<at, req_counter>>

TypeOK ==
    /\ clock \in Times
    /\ built \in Times
    /\ num_req \in [Workers -> [Slots -> 0 .. MaxRequests]]
    /\ last_update \in [Workers -> [Slots -> Times]]
    /\ pc \in [Callers -> {"idle", "count", "stamp", "test", "add"}]
    /\ now \in [Callers -> Times]
    /\ at \in [Readers -> 0 .. num_threads * num_slots]
    /\ req_counter \in [Readers -> 0 .. MaxRequests]
    /\ counted \in [Times -> 0 .. MaxRequests]
    /\ quiet \in [Readers -> BOOLEAN]

\* RequestStats(num_threads): every slot is empty and stamped with the time
\* of its construction, which is anywhere in a twentieth of a second.
Init ==
    /\ clock \in 0 .. TicksPerSlot - 1
    /\ built = clock
    /\ num_req = [i \in Workers |-> [j \in Slots |-> 0]]
    /\ last_update = [i \in Workers |-> [j \in Slots |-> clock]]
    /\ pc = [c \in Callers |-> "idle"]
    /\ now = [c \in Callers |-> 0]
    /\ at = [r \in Readers |-> 0]
    /\ req_counter = [r \in Readers |-> 0]
    /\ counted = [t \in Times |-> 0]
    /\ quiet = [r \in Readers |-> FALSE]

Goto(c, label) == pc' = [pc EXCEPT ![c] = label]

\* The call returns; its argument is gone.
Return(c) == Goto(c, "idle") /\ now' = [now EXCEPT ![c] = 0]

\* now - last_update, in unsigned ticks.
Age(t, stamp) == (t - stamp) % 2^TickBits

\* ((uint64_t)(now * num_slots_ / ticks_per_second)) % num_slots_
current_slot(t) == (t \div TicksPerSlot) % num_slots

\* (now - last_update) * num_slots_ < ticks_per_second
InSlot(t, stamp) == (Age(t, stamp) * num_slots) % 2^TickBits < ticks_per_second

\* now - last_update < ticks_per_second
InLastSecond(t, stamp) == Age(t, stamp) < ticks_per_second

\* Time passes.
Tick ==
    /\ clock < MaxTime
    /\ clock' = clock + 1
    /\ UNCHANGED <<built, slotVars, pc, now, readerVars, counted, quiet>>

-----------------------------------------------------------------------------
(* finishedRequest(thread_num, now), called by worker thread_num.          *)

\* The writes of the workers, as the readers in a call see them.
Disturbed == quiet' = [r \in Readers |-> FALSE]

\* The worker reads the clock and calls.
FinishCall(w) ==
    /\ pc[w] = "idle"
    /\ SumFunction(counted) + Cardinality({u \in Workers : pc[u] = "count"})
           < MaxRequests
    /\ now' = [now EXCEPT ![w] = clock]
    /\ Goto(w, "count")
    /\ UNCHANGED <<built, clock, slotVars, readerVars, counted, quiet>>

\* A fault-injection variant of FinishCount: a slot that is reused goes on
\* from its old count.
FinishCount_NoReset(w) ==
    LET j == current_slot(now[w])
    IN  /\ pc[w] = "count"
        /\ num_req' = [num_req EXCEPT ![w][j] = @ + 1]
        /\ IF InSlot(now[w], last_update[w][j]) THEN Return(w)
                                                  ELSE Goto(w, "stamp") /\ UNCHANGED now
        /\ counted' = [counted EXCEPT ![now[w]] = @ + 1]
        /\ Disturbed
        /\ UNCHANGED <<built, clock, last_update, readerVars>>

\* A fault-injection variant of FinishCount: a slot that is reused starts
\* at zero.
FinishCount_FromZero(w) ==
    LET j == current_slot(now[w])
    IN  /\ pc[w] = "count"
        /\ \/ /\ InSlot(now[w], last_update[w][j])
              /\ num_req' = [num_req EXCEPT ![w][j] = @ + 1]
              /\ Return(w)
           \/ /\ ~InSlot(now[w], last_update[w][j])
              /\ num_req' = [num_req EXCEPT ![w][j] = 0]
              /\ Goto(w, "stamp") /\ UNCHANGED now
        /\ counted' = [counted EXCEPT ![now[w]] = @ + 1]
        /\ Disturbed
        /\ UNCHANGED <<built, clock, last_update, readerVars>>

\* The test of the slot of 'now' and the write of num_req: one more request
\* in a slot that was stamped in this twentieth of a second, the first
\* request in any other.
FinishCount(w) ==
    LET j == current_slot(now[w])
    IN  /\ pc[w] = "count"
        /\ \/ /\ InSlot(now[w], last_update[w][j])
              /\ num_req' = [num_req EXCEPT ![w][j] = @ + 1]
              /\ Return(w)
           \/ /\ ~InSlot(now[w], last_update[w][j])
              /\ num_req' = [num_req EXCEPT ![w][j] = 1]
              /\ Goto(w, "stamp") /\ UNCHANGED now
        /\ counted' = [counted EXCEPT ![now[w]] = @ + 1]
        /\ Disturbed
        /\ UNCHANGED <<built, clock, last_update, readerVars>>

\* req_counter_[thread_num][current_slot].last_update = now
FinishStamp(w) ==
    /\ pc[w] = "stamp"
    /\ last_update' = [last_update EXCEPT ![w][current_slot(now[w])] = now[w]]
    /\ Return(w)
    /\ Disturbed
    /\ UNCHANGED <<built, clock, num_req, readerVars, counted>>

-----------------------------------------------------------------------------
(* getStats(now, reqsLastSec), called by a reader.                         *)

Row(r)  == at[r] \div num_slots
Slot(r) == at[r] % num_slots

\* History of a call of getStats.
Remember(r) == quiet' = [quiet EXCEPT ![r] = \A w \in Workers : pc[w] # "stamp"]

\* A fault-injection variant of StatsCall: req_counter is not initialised
\* and starts at whatever the stack holds.
StatsCall_NoInit(r) ==
    /\ pc[r] = "idle"
    /\ now' = [now EXCEPT ![r] = clock]
    /\ \E garbage \in {-1, 0} : req_counter' = [req_counter EXCEPT ![r] = garbage]
    /\ Remember(r)
    /\ Goto(r, "test")
    /\ UNCHANGED <<built, clock, slotVars, at, counted>>

\* The reader reads the clock and calls: int req_counter = 0.
StatsCall(r) ==
    /\ pc[r] = "idle"
    /\ now' = [now EXCEPT ![r] = clock]
    /\ req_counter' = [req_counter EXCEPT ![r] = 0]
    /\ Remember(r)
    /\ Goto(r, "test")
    /\ UNCHANGED <<built, clock, slotVars, at, counted>>

\* The test of one slot: was it stamped within the last second?
StatsTest(r) ==
    /\ pc[r] = "test" /\ at[r] < num_threads * num_slots
    /\ \/ /\ InLastSecond(now[r], last_update[Row(r)][Slot(r)])
          /\ Goto(r, "add")
          /\ UNCHANGED at
       \/ /\ ~InLastSecond(now[r], last_update[Row(r)][Slot(r)])
          /\ at' = [at EXCEPT ![r] = @ + 1]
          /\ UNCHANGED pc
    /\ UNCHANGED <<built, clock, slotVars, now, req_counter, counted, quiet>>

\* req_counter += req_counter_[i][j].num_req
StatsAdd(r) ==
    /\ pc[r] = "add"
    /\ req_counter' = [req_counter EXCEPT ![r] = @ + num_req[Row(r)][Slot(r)]]
    /\ at' = [at EXCEPT ![r] = @ + 1]
    /\ Goto(r, "test")
    /\ UNCHANGED <<built, clock, slotVars, now, counted, quiet>>

Returning(r) == pc[r] = "test" /\ at[r] = num_threads * num_slots

\* *reqsLastSec = req_counter
StatsReturn(r) ==
    /\ Returning(r)
    /\ Return(r)
    /\ at' = [at EXCEPT ![r] = 0]
    /\ req_counter' = [req_counter EXCEPT ![r] = 0]
    /\ quiet' = [quiet EXCEPT ![r] = FALSE]
    /\ UNCHANGED <<built, clock, slotVars, counted>>

finishedRequest(w) == FinishCall(w) \/ FinishCount(w) \/ FinishStamp(w)

getStats(r) == StatsCall(r) \/ StatsTest(r) \/ StatsAdd(r) \/ StatsReturn(r)

Next ==
    \/ Tick
    \/ \E w \in Workers : finishedRequest(w)
    \/ \E r \in Readers : getStats(r)

Spec == Init /\ [][Next]_vars

-----------------------------------------------------------------------------
(* Properties.                                                             *)

\* The requests of 'requests' that finished at a time in lo .. hi.
Between(requests, lo, hi) == SumFunctionOnSet(requests, {t \in Times : lo <= t /\ t <= hi})

\* getStats never reports more than was finished in the second that ends
\* at its 'now', or later: however its reads of last_update and num_req fall
\* between the two writes of a worker that reuses the slot
\* (finishedRequest writes num_req before last_update, getStats reads
\* last_update before num_req).
StatsNeverOvercount ==
    \A r \in Readers :
        pc[r] # "idle" =>
            req_counter[r] <= Between(counted, now[r] - ticks_per_second + 1, MaxTime)

\* getStats reports every request of the last second but its first
\* twentieth, when no worker writes during the call: a request is counted in
\* the slot of its time, under the stamp of the first request of the slot,
\* and a slot is reused a second later at the earliest.  The requests of the
\* first twentieth of a second after the construction are left out: the
\* constructor stamps every slot with its own time, finishedRequest counts
\* such a request under that stamp, and the next request in the slot starts
\* it again at one.
StatsCountRecent ==
    \A r \in Readers :
        Returning(r) /\ quiet[r] =>
            LET lo == now[r] - ticks_per_second + TicksPerSlot
                settled == built + TicksPerSlot
            IN  req_counter[r] >= Between(counted, IF lo > settled THEN lo ELSE settled,
                                          now[r])

=============================================================================
