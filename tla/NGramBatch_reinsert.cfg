SPECIFICATION Spec
CONSTANTS
    NGrams <- OneNGram
    Texts <- LongText
    MaxLines = 4
    NumberOfLines = 2
    NotDeleted = 8
    Disciplined = FALSE
PROPERTIES RemovalsUnseen
