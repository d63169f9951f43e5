CONSTANTS
  SeqSpace = 8
  Waits = {TRUE}
  Faults = {"lose"}
  MaxOpens = 2
  MaxCalls = 3
  MaxBeats = 1
  MaxDelivers = 0
SPECIFICATION Spec
PROPERTIES BeatsAfterSignOn
CHECK_DEADLOCK FALSE
