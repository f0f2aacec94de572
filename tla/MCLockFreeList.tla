--------------------------- MODULE MCLockFreeList ---------------------------
(***************************************************************************)
(* LockFreeListLin for TLC: two threads, a pool of node addresses and a    *)
(* small set of keys.                                                      *)
(***************************************************************************)
EXTENDS LockFreeListLin

CONSTANTS NumThreads, NumNodes, NumKeys

MCThreads == 0 .. NumThreads - 1
MCNodes   == 1 .. NumNodes
MCKeys    == 1 .. NumKeys

=============================================================================
