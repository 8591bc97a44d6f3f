\* generate_id may return ids in use; fair scheduling, hence no symmetry.
SPECIFICATION FairSpec
CONSTANTS
    BLOCK_SIZE = 2
    a = a
    b = b
    Zero = z
    Bytes = {z}
    NoId = NoId
    NoInode = NoInode
    Threads = {t1, t2}
    Inodes = {i1, i2}
    DataIds = {d1, d2, d3}
    Offsets = {1}
    BufVecs <- ZeroBuffer
    ReadSizes = {2}
    NewSizes = {0, 2}
    AllocSizes = {}
    SpliceFrom = 9
    MaxMounts = 1
    IdClash = TRUE
PROPERTIES EveryCallReturns
INVARIANTS NoDangling NoSharing Covered ModifiersNeverAssert
CHECK_DEADLOCK FALSE
