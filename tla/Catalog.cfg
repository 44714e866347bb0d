CONSTANTS
  v1 = v1
  v2 = v2
  v3 = v3
  Conn = {c1, c2}
  Name = {n}
  Password = {p, q}
  Video = {v1, v2, v3}
  Dirty = {v3}
  Match <- Tags
  Slots = 2
  TagSlots = 1
  Completion = {10, 100}
  MaxUsers = 2
  MaxRequests = 4
  MaxFaults = 1
SPECIFICATION Spec
SYMMETRY Alike
INVARIANT TypeOK
INVARIANT NoBlank
INVARIANT FreshFirst
INVARIANT HotFromLog
PROPERTY AccountKept
