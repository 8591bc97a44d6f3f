\* Entries are made, looked up, unlinked and renamed; the daemon is killed and mounted again.
SPECIFICATION Spec
CONSTANTS
  t1 = t1
  t2 = t2
  i1 = i1
  i2 = i2
  i3 = i3
  x = x
  y = y
  Threads = {t1, t2}
  Inodes = {i1, i2}
  Roots = {r}
  Zero = Zero
  NoInode = NoInode
  Names = {x, y}
  MaxDepth = 2
  MaxHandles = 0
  MaxRenames = 1
  MaxMounts = 2
  IdClash = FALSE
SYMMETRY Symmetric
INVARIANTS TypeOK AnswersMatchTree MadeIsInTree Rooted
PROPERTY ImplementsPathTree
CHECK_DEADLOCK FALSE
