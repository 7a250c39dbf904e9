SPECIFICATION Spec
CONSTANTS
    Files <- InitFiles
    Batches <- QueryBatches
    Threads <- Workers
    t_ids <- ThreadIds
    Address <- NodeAddress
    Avalanche <- Hashes
    Bits <- BloomBits
    FILTER_INIT_SIZE = 4
    PSET_INIT = 1
    CAPACITY = 2
    INIT_SIZE_BUF = 3
    NotDeleted = 9
INVARIANTS TypeOK AnswersExactly AnswersOfFile BloomDropsOnlyCovered PrintedLines CountedOnce
