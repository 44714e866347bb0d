CONSTANTS
  Conn = {1, 2}
  NoConn = NoConn
  Erased = Erased
  User = {u1, u2}
  NoUser = NoUser
  Sessions = "any"
  StaleCleanups = 0
  MaxRow = 2
  MaxSent = 1
  Crashes = TRUE
  DbFaults = TRUE
SPECIFICATION FairSpec
INVARIANT TypeOK
INVARIANT NoZombie
PROPERTY DeadGoesOffline
