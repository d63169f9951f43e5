CONSTANTS
  c1 = c1
  c2 = c2
  alice = alice
  Conn = {c1, c2}
  User = {alice}
  Admins = {alice}
  NoUser = NoUser
  Free = Free
  MaxConn = 2
  Cap = 2
  Receivers = {alice}
  MaxData = 1
  Traffic = {"data"}
SPECIFICATION Spec
PROPERTIES LoginReplyFirst
CHECK_DEADLOCK FALSE
