SPECIFICATION Spec
CONSTANTS
  Users = {ann}
  Videos = {va, vb}
  NoUser = NoUser
  NoVideo = NoVideo
  Slots = 2
  MaxSize = 2
  MaxRequests = 3
  MaxChanges = 1
  MaxLosses = 1
SYMMETRY Alike
CHECK_DEADLOCK FALSE
INVARIANT TypeOK
INVARIANT CardsOfLastBatch
INVARIANT NoLeak
