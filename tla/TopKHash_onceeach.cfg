SPECIFICATION Spec
CONSTANTS
    Words <- ThreeWords
    Key <- TwoBuckets
    HASH_SIZE = 2
    MaxDetected = 2
    MaxK = 1
INVARIANTS EveryFrequencyHasARow
