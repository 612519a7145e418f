CONSTANTS
  m1 = m1
  m2 = m2
  Monitor = {m1, m2}
  Nobody = Nobody
  MaxTTL = 5
  secondsBeforeTTLRefresh = 3
  Period = 1
  Latency = 1
  MaxOutages = 1
SPECIFICATION LiveSpec
INVARIANTS
  MetadataInv
  TokenAlwaysValid
PROPERTIES
  RequestEnds
  PollsResume
