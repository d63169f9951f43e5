CONSTANTS
  c1 = c1
  c2 = c2
  c3 = c3
  alice = alice
  root = root
  Conn = {c1, c2, c3}
  User = {alice, root}
  Admins = {root}
  NoUser = NoUser
  Free = Free
  MaxConn = 2
  Cap = 1
  Receivers = {alice}
  MaxData = 4
  Traffic = {"kick", "bad", "stats", "data", "list"}
SPECIFICATION Spec
SYMMETRY ConnSymmetry
INVARIANTS TypeOK FairTurns NoGhost LimitedAndReachable ScanSeesOpen
PROPERTIES ModeIsFirstLogins ListNeverOverruns
CHECK_DEADLOCK FALSE
