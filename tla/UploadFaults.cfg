CONSTANTS
  Conn = {c1}
  User = {u1}
  Name = {n1}
  Content = {m1, m2}
  Inode = {i1, i2, i3}
  Gif = {}
  Size <- TwoBlocks
  NoFile = NoFile
  NoMeta = NoMeta
  NoPath = NoPath
  NoInfo = NoInfo
  Hole = Hole
  MaxTask = 2
  MaxCrash = 1
  Exclusive = TRUE
  StaleCleanups = 1
  DiskFaults = TRUE
SPECIFICATION Spec
SYMMETRY Disks
INVARIANT ListedIsPublished
 
