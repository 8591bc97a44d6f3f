\* Two threads make, open, write, read and truncate files in one directory;
\* the daemon dies of either kind of call and is mounted again, maybe elsewhere.
SPECIFICATION SpecAll
CONSTANTS
  t1 = t1
  t2 = t2
  x = x
  y = y
  z = z
  Threads = {t1, t2}
  Inodes = {Zero, r}
  Roots = {r, r2}
  Zero = Zero
  NoInode = NoInode
  Names = {x, y}
  MaxDepth = 1
  MaxHandles = 1
  MaxRenames = 0
  MaxMounts = 2
  IdClash = TRUE
  BLOCK_SIZE = 2
  Bytes = {z}
  ZeroByte = z
  DataIds = {d1, d2}
  NoId = NoId
  Offsets = {1}
  BufVecs <- TwoBytes
  ReadSizes = {2}
  NewSizes = {0}
  AllocSizes = {}
  SpliceFrom = 9
SYMMETRY Symmetric
INVARIANTS FilesHaveData HandlesServe NoOrphans Covered ListingComplete
CHECK_DEADLOCK FALSE
