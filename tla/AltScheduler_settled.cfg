SPECIFICATION FairSpec
CONSTANTS
    T = 3
    MaxJobs = 4
    INIT_ARR_SIZE = 1
    SettledStart = TRUE
    MaxSpurious = 1
INVARIANTS TypeOK BatchBarrier NoJobOutsideBatch DealtOut
PROPERTIES ImplementsJobBatch ExecuteReturns FinReturns
