CONSTANTS
  Sizes = {1, 2}
  KickSize = 1
  HighWater = 3
  HardLimit = 4
  OnHighWater = "drop"
  MaxSends = 3
  MaxCtls = 1
SPECIFICATION ServerFairSpec
INVARIANTS TypeOK OneWrite PopsWhatItWrote NoStall Accounted WithinHighWater KickDrains KickIsLast InOrder TornIsFatal Conserved
PROPERTIES ImplementsOutbox StopCloses QueueMoves KickCloses
CHECK_DEADLOCK FALSE
