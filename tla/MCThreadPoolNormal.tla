------------------------- MODULE MCThreadPoolNormal -------------------------
(* ThreadPoolNormal for TLC. *)
EXTENDS ThreadPoolNormal

\* The workloads of thread_pool_test.cpp.
PlainTasks == {"work", "add"}
AllTasks   == {"work", "add", "stop"}

=============================================================================
