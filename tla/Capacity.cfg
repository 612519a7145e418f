SPECIFICATION CapacitySpec
CONSTANTS
  MaxNodes = 6
  Percentages = {0, 10, 33, 65, 75, 92, 100, 130}
  MaxAmount = 3
CHECK_DEADLOCK FALSE
INVARIANTS PreScaleSuffices PreScaleNeverShrinks BufferMeansRoom
