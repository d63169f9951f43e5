CONSTANTS
  ReadMs = 5
  IdleMs = 5
  HeartbeatMs = 4
  ScanMs = 2
  Gap = 4
  HandlerMax = 3
  MaxUnread = 2
SPECIFICATION Spec
INVARIANTS KeptAlive MuteIsClosed SilentIsKicked IdleNeverFires
CHECK_DEADLOCK FALSE
