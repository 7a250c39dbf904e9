SPECIFICATION Spec
CONSTANTS
    Words <- SevenWords
    Code <- Codes
    HASH_BUCKETS_INIT = 1
    InitSize = 1
INVARIANTS TypeOK RoundsInStep AtItsAddress Sorted
PROPERTIES ImplementsWordSet
