-------------------------- MODULE MCHttpFileServer --------------------------
(***************************************************************************)
(* HttpFileServer for TLC: a document root of three files, a cache with    *)
(* room for two of them, and one name that is not on disk.                 *)
(***************************************************************************)
EXTENDS HttpFileServer

CONSTANTS NumThreads

MCThreads == 0 .. NumThreads - 1
MCFiles   == {"a", "b", "c", "d"}
MCSizes   == {1, 2}

\* a and b fill the cache together, c fills it alone, d does not exist.
MCInitialDisk == [f \in MCFiles |->
                    CASE f = "a" -> 1 [] f = "b" -> 1 [] f = "c" -> 2 [] f = "d" -> Absent]

=============================================================================
