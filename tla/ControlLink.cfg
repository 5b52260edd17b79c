SPECIFICATION FairSpec
CONSTANTS
  HeartbeatInterval = 2
  MaxMisses = 3
  IdleTimeout = 6
  MsgBuf = 1
  MaxDelay = 1
  MaxQueued = 1
  MaxFailures = 1
INVARIANTS HealthyLinkStays DeadPathIsNoticed
PROPERTIES BothEndsLetGo
