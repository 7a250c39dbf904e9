\* THREADS 1 of control_panel.h: no assumption on how fast the worker wakes.
SPECIFICATION FairSpec
CONSTANTS
    w1 = w1
    w2 = w2
    w3 = w3
    Free = Free
    Threads <- OneWorker
    MaxJobs = 5
    INIT_ARR_SIZE = 1
    SettledStart = TRUE
    PromptWake = FALSE
    EmptyBatches = FALSE
    MaxSpurious = 0
INVARIANTS BatchBarrier NoJobOutsideBatch
PROPERTIES ExecuteReturns
