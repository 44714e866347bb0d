CONSTANTS
  Task = {t1, t2, t3, t4}
  NoTask = NoTask
  ThreadMax = 3
  ThreadMin = 1
  QueueMax = 3
  Count = 2
SPECIFICATION Spec
SYMMETRY Tasks
INVARIANT TypeOK
INVARIANT CountersExact
INVARIANT NoStall
PROPERTY RingIsFifo
