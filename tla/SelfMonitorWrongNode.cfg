SPECIFICATION Spec
CONSTANTS
  s1 = s1  s2 = s2  d1 = d1  d2 = d2
  Spot <- OneSpot
  OnDemand <- TwoNodes
  InitRunning <- OneSpotTwoNodes
  MinSize <- MCMin
  MaxSize <- MCMax
  MinimumWait = 1
  Stability = 1
  EnablePreScale = FALSE
  UseAPIServerCacheToListPods = FALSE
  SupplyAtStart = {TRUE}
  Changing = {}
  MaxChanges = 0
  MaxFaults = 0
  MaxCrashes = 0
INVARIANT TerminatedAfterDrain
