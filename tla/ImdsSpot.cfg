CONSTANTS
  e1 = e1
  e2 = e2
  e3 = e3
  e4 = e4
  n1 = n1
  reboot = reboot
  spot = spot
  asg = asg
  EventID = {e2, e3}
  NodeName = {n1}
  Arrival <- SpotArrival
  Object = {o1, o2}
  NoObject = NoObject
  NoArrival = NoArrival
  CleaningPeriod = 1
  Workers = 1
  SigtermArrives = FALSE
  Cancellable = {}
  UseProviderId = FALSE
  CordonOnly = FALSE
  EnableSQSTerminationDraining = FALSE
  EnableRebalanceDraining = FALSE
  DeleteSqsMsgIfNodeNotFound = FALSE
  EnableOutOfServiceTaint = FALSE
  ExcludeFromLoadBalancers = TRUE
  TaintNode = TRUE
  UseAPIServerCacheToListPods = FALSE
  EmitKubernetesEvents = TRUE
  Notice = {spot, asg}
  NoticeOf <- Notices
  Restarts = {}
  CordonedBefore = FALSE
  ExcludedBefore = FALSE
  MaxAttempts = 1
  MaxReboots = 0
  MaxFaults = 1
  MaxCrashes = 1
VIEW LiveHeap
SPECIFICATION ImdsLiveSpec
PROPERTIES
  InterruptionHandled
INVARIANTS
  ProcessedMeansDrained
