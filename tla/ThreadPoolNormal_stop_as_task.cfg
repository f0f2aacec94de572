CONSTANTS
    NumWorkers = 3
    MaxTasks = 4
    Kinds <- AllTasks
    MaxStops = 1
SPECIFICATION Spec
INVARIANT NoWorkerOutlivesPool
