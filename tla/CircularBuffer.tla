--------------------------- MODULE CircularBuffer ---------------------------
(***************************************************************************)
(* The ring of src/circular_buffer.cpp: bufferSlots elements, each a value *)
(* and a read status, a read pointer and a write pointer.  A write to a    *)
(* full ring overwrites the oldest value; a read of an empty slot returns  *)
(* -1.  The k-th write writes k, so that the order of the values shows.    *)
(***************************************************************************)
EXTENDS Integers, Sequences, SequencesExt

CONSTANTS
    SlotArgs,       \* the arguments the constructor is called with
    DefaultSlots,   \* the slots it takes for an argument that is not positive
    MaxWrites       \* bound: the calls of write()

VARIABLES
    bufferSlots,    \* bufferSlots
    elements,       \* elements[p]: value and readstatus of slot p
    readPtr,        \* readPtr - elements
    writePtr,       \* writePtr - elements
    out,            \* what the last read() returned
    written,        \* history: the calls of write() so far
    ideal,          \* history: the values a bounded queue that drops its oldest holds
    underrun        \* history: a read() found the queue empty since the last clear()

bufVars == <<bufferSlots, elements, readPtr, writePtr, out, written, ideal, underrun>>

Empty == -1
Element == [value : Empty .. MaxWrites, readstatus : {"isread", "unread"}]

TypeOK ==
    /\ bufferSlots \in Nat \ {0}
    /\ elements \in [0 .. bufferSlots - 1 -> Element]
    /\ readPtr \in DOMAIN elements /\ writePtr \in DOMAIN elements
    /\ out \in Empty .. MaxWrites
    /\ written \in 0 .. MaxWrites
    /\ ideal \in Seq(0 .. MaxWrites) /\ Len(ideal) <= bufferSlots
    /\ underrun \in BOOLEAN

\* CircularBuffer(slots)
Init ==
    /\ \E slots \in SlotArgs : bufferSlots = IF slots > 0 THEN slots ELSE DefaultSlots
    /\ elements = [p \in 0 .. bufferSlots - 1 |-> [value |-> Empty, readstatus |-> "isread"]]
    /\ readPtr = 0 /\ writePtr = 0
    /\ out = Empty /\ written = 0 /\ ideal = <<>> /\ underrun = FALSE

LastN(s, n) == IF Len(s) <= n THEN s ELSE SubSeq(s, Len(s) - n + 1, Len(s))

\* (p - elements == bufferSlots - 1) ? elements : p + 1
Succ(p) == IF p = bufferSlots - 1 THEN 0 ELSE p + 1

\* write() that moves the read pointer when `overwrites` holds.
Write(value, overwrites) ==
    /\ written < MaxWrites
    /\ readPtr' = IF overwrites THEN Succ(readPtr) ELSE readPtr
    /\ elements' = [elements EXCEPT ![writePtr] = [value |-> value, readstatus |-> "unread"]]
    /\ writePtr' = Succ(writePtr)
    /\ written' = written + 1
    /\ ideal' = LastN(Append(ideal, value), bufferSlots)
    /\ UNCHANGED <<bufferSlots, out, underrun>>

\* A fault-injection variant of write: the read pointer gives way whenever
\* the next slot is unread.
write_NoPtrTest(value) == Write(value, elements[Succ(writePtr)].readstatus = "unread")

\* write(): the value goes to the write pointer; the read pointer gives way
\* when the write pointer has caught up with it and the next slot is unread.
write(value) ==
    Write(value, elements[Succ(writePtr)].readstatus = "unread" /\ writePtr = readPtr)

\* read(): the value at the read pointer, or -1 for a slot that is read; the
\* read pointer moves on in both cases.
read ==
    /\ out' = IF elements[readPtr].readstatus = "unread" THEN elements[readPtr].value ELSE Empty
    /\ elements' = [elements EXCEPT ![readPtr].readstatus = "isread"]
    /\ readPtr' = Succ(readPtr)
    /\ underrun' = (underrun \/ ideal = <<>>)
    /\ ideal' = IF ideal = <<>> THEN ideal ELSE Tail(ideal)
    /\ UNCHANGED <<bufferSlots, writePtr, written>>

\* clear(): every slot is read and the read pointer is the write pointer.
clear ==
    /\ elements' = [p \in DOMAIN elements |-> [elements[p] EXCEPT !.readstatus = "isread"]]
    /\ readPtr' = writePtr
    /\ ideal' = <<>> /\ underrun' = FALSE
    /\ UNCHANGED <<bufferSlots, writePtr, out, written>>

Next == write(written) \/ read \/ clear

Spec == Init /\ [][Next]_bufVars

---------------------------------------------------------------------------
\* The values read() will return, in its order: the unread slots from the
\* read pointer on, up to the first slot that is read.
RECURSIVE Unread(_, _)
Unread(p, n) ==
    IF n = 0 \/ elements[p].readstatus = "isread" THEN <<>>
    ELSE <<elements[p].value>> \o Unread(Succ(p), n - 1)

\* The ring is a queue of the bufferSlots newest values: what the reads
\* will return is what was written and neither read nor overwritten, oldest
\* first, and nothing else is unread.  write() moves the read pointer
\* exactly when it overwrites the oldest value.  This holds as long as no
\* read() has been called on an empty ring: read() moves the read pointer
\* also when it returns -1, and from then on it is ahead of the values.
FifoUntilUnderrun ==
    ~underrun =>
        /\ Unread(readPtr, bufferSlots) = ideal
        /\ \A p \in DOMAIN elements :
               elements[p].readstatus = "unread" => elements[p].value \in ToSet(ideal)

=============================================================================
