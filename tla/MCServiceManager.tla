-------------------------- MODULE MCServiceManager --------------------------
(* ServiceManager for TLC. *)
EXTENDS ServiceManager

CONSTANTS w1, w2, u1, u2, runner

MCWorkers == {w1, w2}
MCUsers   == {u1, u2}
OneUser   == {u1}

\* Two connections, one accept error and one "quit" request.
MCMaxOf == [accept |-> 2, accept_error |-> 1, quit |-> 1]

\* Two "quit" requests.
TwoQuits == [accept |-> 1, accept_error |-> 0, quit |-> 2]

\* main of server.cpp: the manager is destroyed when run() has returned, not
\* before it was called.
RunThenDelete == pc[Runner] = "init" => pc'[Runner] # "stop"

MainSpec == Init /\ [][Next /\ RunThenDelete]_vars

=============================================================================
