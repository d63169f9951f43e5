CONSTANTS
  c1 = c1
  c2 = c2
  Conn = {c1, c2}
  Name = {"root", "bob"}
  Root = "root"
  Pw = {"p", "q"}
  IP = {"home", "away"}
  Listed = {"home"}
  Absent = Absent
  MaxId = 2
  MaxReqs = 5
SPECIFICATION Spec
SYMMETRY ConnSymmetry
INVARIANTS WasTheirs CachesAgree OnlyListedEnter OnlyLateSurvive
CHECK_DEADLOCK FALSE
