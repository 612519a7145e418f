CONSTANTS
  e1 = e1
  e2 = e2
  e3 = e3
  e4 = e4
  n1 = n1
  reboot = reboot
  spot = spot
  asg = asg
  EventID = {e3, e4}
  NodeName = {n1}
  Arrival <- AsgArrival
  Object = {o1, o2}
  NoObject = NoObject
  NoArrival = NoArrival
  CleaningPeriod = 1
  Workers = 1
  SigtermArrives = FALSE
  Cancellable = {}
  UseProviderId = FALSE
  CordonOnly = FALSE
  EnableSQSTerminationDraining = FALSE
  EnableRebalanceDraining = FALSE
  DeleteSqsMsgIfNodeNotFound = FALSE
  EnableOutOfServiceTaint = FALSE
  ExcludeFromLoadBalancers = FALSE
  TaintNode = TRUE
  UseAPIServerCacheToListPods = FALSE
  EmitKubernetesEvents = TRUE
  Notice = {asg}
  NoticeOf <- Notices
  Restarts = {}
  CordonedBefore = FALSE
  ExcludedBefore = FALSE
  MaxAttempts = 4
  MaxReboots = 0
  MaxFaults = 0
  MaxCrashes = 0
VIEW LiveHeap
SPECIFICATION ImdsSpec
INVARIANTS
  OneEventPerNotice
