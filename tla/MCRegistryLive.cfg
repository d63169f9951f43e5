CONSTANTS
  c1 = c1
  c2 = c2
  alice = alice
  Conn = {c1, c2}
  User = {alice}
  Admins = {alice}
  NoUser = NoUser
  Free = Free
  MaxConn = 1
  Cap = 1
  Receivers = {}
  MaxData = 0
  Traffic = {"heartbeat", "stats", "kick"}
SPECIFICATION FairSpec
PROPERTIES ClosingIsRemoved SilentIsKicked
CHECK_DEADLOCK FALSE
