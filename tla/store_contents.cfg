\* Two threads on one file, with contents: what a block-wise write may change.
SPECIFICATION Spec
CONSTANTS
    BLOCK_SIZE = 2
    a = a
    b = b
    Zero = z
    Bytes = {a, b, z}
    NoId = NoId
    NoInode = NoInode
    Threads = {t1, t2}
    Inodes = {i1}
    DataIds = {d1, d2, d3, d4}
    Offsets = {0, 3}
    BufVecs <- OneOrTwoBuffers
    ReadSizes = {1, 4}
    NewSizes = {0, 1, 4}
    AllocSizes = {}
    SpliceFrom = 9
    MaxMounts = 1
    IdClash = FALSE
SYMMETRY Symmetric
INVARIANT WriteStored
PROPERTIES WritesStayInRange OnlyTruncateShrinks ImplementsBlockArray QuietReads ReadReturnsFile
CHECK_DEADLOCK FALSE
