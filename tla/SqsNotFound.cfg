CONSTANTS
  e1 = e1
  e2 = e2
  n1 = n1
  n2 = n2
  m1 = m1
  m2 = m2
  m3 = m3
  EventID = {e1}
  NodeName = {n1}
  Arrival <- StateChangeArrival
  Object = {o1, o2}
  NoObject = NoObject
  NoArrival = NoArrival
  CleaningPeriod = 1
  Workers = 1
  SigtermArrives = FALSE
  Cancellable = {}
  UseProviderId = FALSE
  CordonOnly = FALSE
  EnableSQSTerminationDraining = TRUE
  EnableRebalanceDraining = FALSE
  DeleteSqsMsgIfNodeNotFound = TRUE
  EnableOutOfServiceTaint = FALSE
  Message = {m1}
  Body <- EventsBody
  Wrappers <- ArrivalsOf
  CheckIfManaged = TRUE
  Managed = {n1}
  StaleHandlesWork = TRUE
  InCluster = {}
  duplicateErrThreshold = 3
  MaxFaults = 0
  MaxCrashes = 1
VIEW LiveHeap
SPECIFICATION QueueLiveSpec
PROPERTY
  NotFoundMessageDeleted
