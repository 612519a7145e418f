SPECIFICATION LiveSpec
CONSTANTS
  s1 = s1  s2 = s2  d1 = d1  d2 = d2
  Spot <- TwoSpot
  OnDemand <- TwoNodes
  InitRunning <- OneOfEach
  MinSize <- MCMin
  MaxSize <- MCMax
  MinimumWait = 2
  Stability = 1
  EnablePreScale = TRUE
  UseAPIServerCacheToListPods = FALSE
  SupplyAtStart = {TRUE}
  Changing = {"supply", "cluster", "fallback", "flap"}
  MaxChanges = 1
  MaxFaults = 1
  MaxCrashes = 1
INVARIANTS
  SelfMonitorInv
  MinimumWaitKept
PROPERTIES
  LoweredOnlyAfterDrain
  ScaleDownCompletes
