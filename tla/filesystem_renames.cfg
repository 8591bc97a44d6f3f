\* Two threads on two entries that the kernel believes unlinked and renamed: a
\* file has two inodes there, a directory is opened as a file.
SPECIFICATION SpecAll
CONSTANTS
  t1 = t1
  t2 = t2
  i1 = i1
  i2 = i2
  x = x
  y = y
  z = z
  Threads = {t1, t2}
  Inodes = {i1, i2}
  Roots = {r}
  Zero = Zero
  NoInode = NoInode
  Names = {x, y}
  MaxDepth = 1
  MaxHandles = 1
  MaxRenames = 1
  MaxMounts = 1
  IdClash = FALSE
  BLOCK_SIZE = 2
  Bytes = {z}
  ZeroByte = z
  DataIds = {d1, d2}
  NoId = NoId
  Offsets = {1}
  BufVecs <- TwoBytes
  ReadSizes = {2}
  NewSizes = {0}
  AllocSizes = {}
  SpliceFrom = 9
SYMMETRY SymmetricIds
INVARIANTS DataReachesFile Covered
CHECK_DEADLOCK FALSE
