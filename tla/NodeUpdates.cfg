CONSTANTS
  w1 = w1
  w2 = w2
  Worker = {w1}
  TaintOf <- OneTaint
  Foreign = {"taint"}
  Types = {"spot", "on-demand", "none"}
  MaxCalls = 2
  MaxFaults = 1
VIEW View
SPECIFICATION LiveSpec
INVARIANTS
  UpdatesInv
  GuardMatchesNode
PROPERTIES
  UpdatesAtomic
  ProtectionEnds
  TaintingEnds
