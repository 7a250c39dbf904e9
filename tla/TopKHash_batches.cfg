SPECIFICATION Spec
CONSTANTS
    Words <- ThreeWords
    Key <- TwoBuckets
    HASH_SIZE = 2
    MaxDetected = 5
    MaxK = 3
INVARIANTS TypeOK Counted PrintsTopK
