SPECIFICATION LiveSpec
CONSTANTS
  s1 = s1  s2 = s2  s3 = s3   d1 = d1  d2 = d2
  p1 = p1  p2 = p2
  Spot <- TwoSpot
  OnDemand <- OneOnDemand
  InitRunning <- OneRunning
  MinSize <- MCMin
  MaxSize <- WideSpotMax
  Pods <- TwoPods
  MaxOutages = 1
  MaxLosses = 1
  MaxShortages = 1
CHECK_DEADLOCK FALSE
PROPERTY PreDrainTaskEnds
INVARIANTS
  SuccessHasInstance
  GrowthBounded
