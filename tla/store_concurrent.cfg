\* Two threads on two files; the daemon may be killed and mounted again.
SPECIFICATION Spec
CONSTANTS
    BLOCK_SIZE = 2
    a = a
    b = b
    Zero = z
    Bytes = {z}
    NoId = NoId
    NoInode = NoInode
    Threads = {t1, t2}
    Inodes = {i1, i2}
    DataIds = {d1, d2, d3, d4}
    Offsets = {1}
    BufVecs <- ZeroBuffer
    ReadSizes = {2}
    NewSizes = {0, 4}
    AllocSizes = {6}
    SpliceFrom = 2
    MaxMounts = 2
    IdClash = FALSE
SYMMETRY Symmetric
INVARIANTS TypeOK BlocksInOrder NoExtraBlocks NoLeak KernelSizeInside Covered ModifiersNeverAssert
CHECK_DEADLOCK FALSE
