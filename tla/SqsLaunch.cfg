CONSTANTS
  e1 = e1
  e2 = e2
  n1 = n1
  n2 = n2
  m1 = m1
  m2 = m2
  m3 = m3
  EventID = {e1}
  NodeName = {n1}
  Arrival <- LaunchArrival
  Object = {o1, o2}
  NoObject = NoObject
  NoArrival = NoArrival
  CleaningPeriod = 1
  Workers = 2
  SigtermArrives = FALSE
  Cancellable = {}
  UseProviderId = FALSE
  CordonOnly = FALSE
  EnableSQSTerminationDraining = TRUE
  EnableRebalanceDraining = FALSE
  DeleteSqsMsgIfNodeNotFound = FALSE
  EnableOutOfServiceTaint = FALSE
  Message = {m1, m2, m3}
  Body <- MixedBody
  Wrappers <- ArrivalsOf
  CheckIfManaged = TRUE
  Managed = {n1}
  StaleHandlesWork = FALSE
  InCluster = {}
  duplicateErrThreshold = 1
  MaxFaults = 1
  MaxCrashes = 0
SYMMETRY ObjectSymmetry
VIEW LiveHeap
SPECIFICATION QueueSpec
INVARIANTS
  ContinuedOnlyWhenDone
  NoConcurrentHandling
