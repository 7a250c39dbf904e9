SPECIFICATION Spec
CONSTANTS
    Files <- AnyFiles
    INIT_SIZE_BUF = 4
INVARIANTS TypeOK LinesAsWritten StatusOfHeader OverrunOnlyUnfinished
