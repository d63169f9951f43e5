CONSTANTS
  c1 = c1
  alice = alice
  Conn = {c1}
  User = {alice}
  Admins = {alice}
  NoUser = NoUser
  Free = Free
  MaxConn = 2
  Cap = 2
  Receivers = {alice}
  MaxData = 1
  Traffic = {"heartbeat"}
SPECIFICATION Spec
PROPERTIES OnlySilentKicked
CHECK_DEADLOCK FALSE
