----------------------------- MODULE SplitOrder -----------------------------
(***************************************************************************)
(* The arithmetic of the split-ordered hash table                          *)
(* (src/lock_free_hash_table.cpp): the bit reversal that turns a key into  *)
(* its place in the list, the keys of regular and of dummy nodes, and the  *)
(* parent of a bucket.  uint32_t is W bits wide here.                      *)
(***************************************************************************)
EXTENDS Integers

CONSTANT W      \* the width of uint32_t

ASSUME W \in Nat \ {0}

Word == 0 .. 2^W - 1
MSB  == 2^(W - 1)         \* 0x80000000

\* Bit j of n.
Bit(n, j) == (n \div 2^j) % 2

\* The loop of reverse(): turn i of "ret <<= 1; ret |= Num & 1; Num >>= 1".
RECURSIVE ReverseLoop(_, _, _, _)
ReverseLoop(turns, i, ret, Num) ==
    IF i = turns THEN ret
    ELSE ReverseLoop(turns, i + 1, ((2 * ret) % 2^W) + (Num % 2), Num \div 2)

reverse(Num) == ReverseLoop(W, 0, 0, Num)

\* A fault-injection variant of so_regularkey: the highest bit is not set.
so_regularkey_NoMsb(key_t) == reverse(key_t)

\* key_t | 0x80000000
so_regularkey(key_t) == reverse(IF Bit(key_t, W - 1) = 1 THEN key_t ELSE key_t + MSB)

so_dummykey(key_t) == reverse(key_t)

\* The loop of GET_PARENT: count is the position of the highest bit set.
RECURSIVE ShiftCount(_, _)
ShiftCount(temp, count) ==
    IF temp \div 2 # 0 THEN ShiftCount(temp \div 2, count + 1) ELSE count

\* A fault-injection variant of GET_PARENT: the lowest bit is cleared, not
\* the highest.
GET_PARENT_LowBit(index) == IF index % 2 = 1 THEN index - 1 ELSE index \div 2

\* index & (pow(2, count) - 1)
GET_PARENT(index) == index % 2^ShiftCount(index, 0)

=============================================================================
