CONSTANTS
  Task = {t1, t2, t3}
  NoTask = NoTask
  ThreadMax = 2
  ThreadMin = 1
  QueueMax = 2
  Count = 1
SPECIFICATION Spec
SYMMETRY Tasks
PROPERTY GrowsUnderLoad
