CONSTANTS
  Task = {e1, e2}
  NoTask = NoTask
  Fd = {1, 2}
  NoFd = NoFd
  ThreadMax = 2
  ThreadMin = 2
  QueueMax = 1
  Count = 1
SPECIFICATION NetFair
 
INVARIANT NetTypeOK
PROPERTY KeepsContract
