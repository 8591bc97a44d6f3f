\* generate_id returned 0, or the inode of a directory the daemon is started in.
SPECIFICATION FairSpec
CONSTANTS
  t1 = t1
  t2 = t2
  i1 = i1
  i2 = i2
  i3 = i3
  x = x
  y = y
  Threads = {t1, t2}
  Inodes = {Zero, r}
  Roots = {r, r2}
  Zero = Zero
  NoInode = NoInode
  Names = {x}
  MaxDepth = 2
  MaxHandles = 1
  MaxRenames = 0
  MaxMounts = 2
  IdClash = TRUE
INVARIANTS UniqueNames OneRoot FilesHaveBlock
PROPERTY EveryCallReturns
CHECK_DEADLOCK FALSE
