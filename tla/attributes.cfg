SPECIFICATION Spec
CONSTANTS
    Modes <- SmallModes
    Sizes <- BoundarySizes
    BLOCK_SIZE = 8
    IntRange = 32
    MaxBlocks = 5
    MaxTime = 1
INVARIANTS TypeOK SizePresent BlocksAgree WritesFindBlocks
PROPERTIES OwnerKept StatAgrees
CHECK_DEADLOCK FALSE
