\* A read and a truncate of one file at the same time.
SPECIFICATION Spec
CONSTANTS
    BLOCK_SIZE = 2
    a = a
    b = b
    Zero = z
    Bytes = {z}
    NoId = NoId
    NoInode = NoInode
    Threads = {t1, t2}
    Inodes = {i1}
    DataIds = {d1, d2}
    Offsets = {0, 1}
    BufVecs <- ZeroBuffer
    ReadSizes = {2}
    NewSizes = {0}
    AllocSizes = {}
    SpliceFrom = 9
    MaxMounts = 1
    IdClash = FALSE
SYMMETRY Symmetric
INVARIANTS LookupFound
CHECK_DEADLOCK FALSE
