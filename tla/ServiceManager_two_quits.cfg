CONSTANTS
    w1 = w1
    w2 = w2
    u1 = u1
    u2 = u2
    runner = runner
    Workers <- MCWorkers
    Runner = runner
    Users <- OneUser
    MaxOf <- TwoQuits
    MaxStopCallbacks = 2
    UsersStop = FALSE
SPECIFICATION FairSpec
PROPERTY StopCompletes
CHECK_DEADLOCK FALSE
