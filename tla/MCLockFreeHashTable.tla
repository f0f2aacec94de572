------------------------- MODULE MCLockFreeHashTable -------------------------
(***************************************************************************)
(* LockFreeHashTable for TLC: small words, a table of two buckets that     *)
(* grows when it holds four keys.                                          *)
(***************************************************************************)
EXTENDS LockFreeHashTable

CONSTANTS NumThreads

MCThreads == 0 .. NumThreads - 1

\* The keys below 2^(W-1), for W = 3.
SmallKeys == 0 .. 3

\* For W = 4 and three buckets: two keys of bucket 1, the first with bit 0
\* set as in the number of its bucket, the second without.
UnalignedKeys == {1, 4}

=============================================================================
