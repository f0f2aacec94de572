---------------------------- MODULE OpGenerator ----------------------------
(***************************************************************************)
(* The series of operations of src/op_generator.cpp.  A worker of a test   *)
(* of the lock-free list is given a series of integers, one per call: a    *)
(* positive one inserts that key, a negative one removes it.  The keys are *)
(* striped among the workers, so that the workers can run in parallel on   *)
(* keys of their own.  ops[me] is the array a method has filled for worker *)
(* me, and <<>> before any has.                                            *)
(***************************************************************************)
EXTENDS Integers, Sequences, SequencesExt

CONSTANTS
    num_workers,   \* the workers that operate together
    size           \* the length of a series

Workers == 0 .. num_workers - 1

VARIABLE ops

TypeOK == ops \in [Workers -> Seq(Int)]

Init == ops = [me \in Workers |-> <<>>]

\* A fault-injection variant of AscPositiveStripe: the series starts at me.
AscPositiveStripe_FromZero(me) ==
    [i \in 1 .. size |-> num_workers * (i - 1) + me]

\* ops[i] = num_workers*i + me + 1 for the i from 0 of the code, which are
\* the positions from 1 of a sequence.
AscPositiveStripe(me) ==
    [i \in 1 .. size |-> num_workers * (i - 1) + me + 1]

DescNegativeStripe(me) ==
    [i \in 1 .. size |-> -(num_workers * (i - 1) + me + 1)]

\* random_shuffle leaves the elements of the stripe, which differ, in any
\* order.
ShufflePositiveStripe(me) == SetToSeqs(ToSet(AscPositiveStripe(me)))

ShuffleNegativeStripe(me) == SetToSeqs(ToSet(DescNegativeStripe(me)))

\* A call of one of the four methods for worker me.
Generated(me) ==
    {AscPositiveStripe(me), DescNegativeStripe(me)}
        \cup ShufflePositiveStripe(me) \cup ShuffleNegativeStripe(me)

genOps(me) == \E series \in Generated(me) : ops' = [ops EXCEPT ![me] = series]

Next == \E me \in Workers : genOps(me)

Spec == Init /\ [][Next]_ops

---------------------------------------------------------------------------
\* The key an operation is about.
Key(op_) == IF op_ < 0 THEN -op_ ELSE op_

\* The reference: the keys from 1 that are me + 1 modulo num_workers.
Stripe(me) == {k \in 1 .. num_workers * size : (k - 1) % num_workers = me}

\* "Each of the workers operate on an exclusive set of positions"
\* (op_generator.hpp): a series names the keys of its worker's stripe and no
\* other, so that no key is in the series of two workers, and it is all
\* inserts or all removes, none of them of key 0, which has no sign (the
\* four methods of op_generator.cpp).
StripesExclusive ==
    \A me \in Workers :
        LET series == ToSet(ops[me]) IN
        ops[me] # <<>> =>
            /\ {Key(o) : o \in series} = Stripe(me)
            /\ (\A o \in series : o > 0) \/ (\A o \in series : o < 0)

=============================================================================
