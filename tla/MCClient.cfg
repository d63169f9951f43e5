CONSTANTS
  SeqSpace = 5
  Waits = {TRUE, FALSE}
  Faults = {"refuse", "drop", "kick", "lose"}
  MaxOpens = 2
  MaxCalls = 3
  MaxBeats = 1
  MaxDelivers = 2
SPECIFICATION FairSpec
INVARIANTS TypeOK FramesWhole DeliversInOrder NoneLost OwnReply NoStrayReply
PROPERTIES Answered Joined
CHECK_DEADLOCK FALSE
