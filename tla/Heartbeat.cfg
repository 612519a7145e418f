CONSTANTS
  HeartbeatInterval = 3
  HeartbeatUntil = 288
  Unit = 600
  HeartbeatTimeout = 12
  GlobalTimeout = 288
  StartDelay = 4
  Latency = 1
  MaxLost = 1
SPECIFICATION LiveSpec
INVARIANTS
  HookKeptAlive
  StopsPromptly
  HeartbeatInv
PROPERTIES
  HeartbeatEnds
