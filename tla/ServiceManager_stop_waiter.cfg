\* Two users that call stop(), and the thread that runs the manager and
\* destroys it when run() has returned.
CONSTANTS
    w1 = w1
    w2 = w2
    u1 = u1
    u2 = u2
    runner = runner
    Workers <- MCWorkers
    Runner = runner
    Users <- MCUsers
    MaxOf <- MCMaxOf
    MaxStopCallbacks = 1
    UsersStop = TRUE
SPECIFICATION MainSpec
INVARIANT StopCallsEndBeforeDelete
CHECK_DEADLOCK FALSE
