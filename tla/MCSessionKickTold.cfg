CONSTANTS
  Sizes = {1, 2}
  KickSize = 1
  HighWater = 3
  HardLimit = 4
  OnHighWater = "drop"
  MaxSends = 1
  MaxCtls = 1
SPECIFICATION Spec
PROPERTIES KickedIsTold
CHECK_DEADLOCK FALSE
