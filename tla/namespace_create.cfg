SPECIFICATION Spec
CONSTANTS
  t1 = t1
  t2 = t2
  i1 = i1
  i2 = i2
  i3 = i3
  x = x
  y = y
  Threads = {t1, t2}
  Inodes = {i1}
  Roots = {r}
  Zero = Zero
  NoInode = NoInode
  Names = {x}
  MaxDepth = 1
  MaxHandles = 1
  MaxRenames = 0
  MaxMounts = 1
  IdClash = FALSE
INVARIANTS CreateOpensFile
CHECK_DEADLOCK FALSE
