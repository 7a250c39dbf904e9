\* One worker, no assumption on when it wakes, a batch without queries.
SPECIFICATION FairSpec
CONSTANTS
    w1 = w1
    w2 = w2
    w3 = w3
    Free = Free
    Threads <- OneWorker
    MaxJobs = 1
    INIT_ARR_SIZE = 1
    SettledStart = TRUE
    PromptWake = FALSE
    EmptyBatches = TRUE
    MaxSpurious = 0
CHECK_DEADLOCK FALSE
CONSTRAINT CountersBounded
PROPERTIES ExecuteReturns
