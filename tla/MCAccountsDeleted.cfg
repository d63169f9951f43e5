CONSTANTS
  c1 = c1
  c2 = c2
  Conn = {c1, c2}
  Name = {"root", "bob"}
  Root = "root"
  Pw = {"p"}
  IP = {"home", "away"}
  Listed = {"home"}
  Absent = Absent
  MaxId = 2
  MaxReqs = 5
SPECIFICATION Spec
INVARIANTS DeletedIsKicked
CHECK_DEADLOCK FALSE
