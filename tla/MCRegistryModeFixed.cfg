CONSTANTS
  c1 = c1
  c2 = c2
  alice = alice
  Conn = {c1, c2}
  User = {alice}
  Admins = {alice}
  NoUser = NoUser
  Free = Free
  MaxConn = 2
  Cap = 2
  Receivers = {}
  MaxData = 0
  Traffic = {}
SPECIFICATION FairSpec
PROPERTIES ModeFixed
CHECK_DEADLOCK FALSE
