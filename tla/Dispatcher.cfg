CONSTANTS
  e1 = e1
  e2 = e2
  e3 = e3
  n1 = n1
  n2 = n2
  n3 = n3
  EventID = {e1, e2, e3}
  NodeName = {n1, n2, n3}
  Arrival <- MCArrival
  Object = {o1, o2}
  NoObject = NoObject
  NoArrival = NoArrival
  CleaningPeriod = 2
  Workers = 1
  SigtermArrives = TRUE
  Cancellable = {e2}
  UseProviderId = TRUE
  CordonOnly = FALSE
  EnableSQSTerminationDraining = FALSE
  EnableRebalanceDraining = TRUE
  DeleteSqsMsgIfNodeNotFound = TRUE
  EnableOutOfServiceTaint = TRUE
SYMMETRY ObjectSymmetry
VIEW LiveHeap
SPECIFICATION Spec
INVARIANTS
  SlotAccounting
  IgnoredNeverHandled
  DispatcherInv
PROPERTY
  WaitingEventKept
  LifecycleKept
