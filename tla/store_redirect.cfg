\* echo a longer, then a shorter text to a file.
SPECIFICATION Spec
CONSTANTS
    BLOCK_SIZE = 2
    a = a
    b = b
    Zero = z
    Bytes = {a, b, z}
    NoId = NoId
    NoInode = NoInode
    Threads = {t1}
    Inodes = {i1}
    DataIds = {d1, d2, d3}
    Offsets = {0}
    BufVecs <- OneBuffer
    ReadSizes = {2}
    NewSizes = {0, 2}
    AllocSizes = {}
    SpliceFrom = 9
    MaxMounts = 1
    IdClash = FALSE
SYMMETRY SymmetricIds
INVARIANTS RedirectReplaces
CHECK_DEADLOCK FALSE
