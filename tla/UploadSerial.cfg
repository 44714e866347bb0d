CONSTANTS
  Conn = {c1, c2}
  User = {u1}
  Name = {n1}
  Content = {m1, m2}
  Inode = {i1, i2, i3, i4}
  Gif = {}
  Size <- TwoBlocks
  NoFile = NoFile
  NoMeta = NoMeta
  NoPath = NoPath
  NoInfo = NoInfo
  Hole = Hole
  MaxTask = 2
  MaxCrash = 1
  Exclusive = TRUE
  StaleCleanups = 0
  DiskFaults = FALSE
SPECIFICATION Spec
SYMMETRY Disks
INVARIANT TypeOK
INVARIANT FinalVerified
INVARIANT CountsAreTrue
PROPERTY SuccessPublishes
PROPERTY ProgressKept
PROPERTY RefinesStore
