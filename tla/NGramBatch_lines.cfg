SPECIFICATION Spec
CONSTANTS
    NGrams <- ForkNGrams
    Texts <- LongText
    MaxLines = 6
    NumberOfLines = 2
    NotDeleted = 8
    Disciplined = TRUE
INVARIANTS TypeOK TrieWellFormed LinesKept Purged
PROPERTIES ImplementsNGramStore
