SPECIFICATION OutageSpec
CONSTANTS
  s1 = s1  s2 = s2  s3 = s3   d1 = d1  d2 = d2
  p1 = p1  p2 = p2
  Spot <- ThreeSpot
  OnDemand <- TwoOnDemand
  InitRunning <- OneRunning
  MinSize <- MCMin
  MaxSize <- MCMax
  Pods <- OnePod
  MaxOutages = 1
  MaxLosses = 0
  MaxShortages = 0
CHECK_DEADLOCK FALSE
PROPERTY WaitTimesOut
