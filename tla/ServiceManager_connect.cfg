\* The constants of the manager in Server.cfg: two workers, two users that
\* call connect() and stop(), and the thread that runs and destroys the
\* manager.
CONSTANTS
    w1 = w1
    w2 = w2
    u1 = u1
    u2 = u2
    runner = runner
    Workers <- MCWorkers
    Runner = runner
    Users <- MCUsers
    MaxOf <- MCMaxOf
    MaxStopCallbacks = 1
    UsersStop = TRUE
SPECIFICATION FairSpec
PROPERTY ConnectReturns
CHECK_DEADLOCK FALSE
