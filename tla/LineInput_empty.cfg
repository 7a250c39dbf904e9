SPECIFICATION Spec
CONSTANTS
    Files <- WithEmptyLines
    INIT_SIZE_BUF = 4
INVARIANTS NoNGramsNoWords
