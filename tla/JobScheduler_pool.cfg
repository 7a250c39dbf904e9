\* Several workers, woken in time; batches may be empty.
SPECIFICATION FairSpec
CONSTANTS
    w1 = w1
    w2 = w2
    w3 = w3
    Free = Free
    Threads <- ThreeWorkers
    MaxJobs = 3
    INIT_ARR_SIZE = 1
    SettledStart = TRUE
    PromptWake = TRUE
    EmptyBatches = TRUE
    MaxSpurious = 1
INVARIANTS TypeOK BatchBarrier EachJobOnce InArray
PROPERTIES ImplementsJobBatch ExecuteReturns FinReturns
