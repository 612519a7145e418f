----------------------------- MODULE MCSqsQueue -----------------------------
(***************************************************************************)
(* SqsQueue for TLC.                                                       *)
(***************************************************************************)
EXTENDS SqsQueue, TLC

CONSTANTS e1, e2, n1, n2, m1, m2, m3

TerminateArrival == {asgTerminationToInterruptionEvent(e1, n1, m1)}
LaunchArrival == {createAsgInstanceLaunchEvent(e1, n1, m1)}
SpotArrival == {spotITNTerminationToInterruptionEvent(e1, n1, m1)}
RebalanceArrival == {rebalanceRecommendationToInterruptionEvent(e1, n1, m1)}
StateChangeArrival == {ec2StateChangeToInterruptionEvent(e1, n1, m1)}

(* One message about two instances gives two events with one EventID. *)
ScheduledArrival == scheduledEventToInterruptionEvents(e1, NodeName, m1)

(* m1 describes the events, m2 is a test message, m3 cannot be interpreted. *)
MixedBody ==
  [m \in Message |-> IF m = m1 THEN "events" ELSE IF m = m2 THEN "test" ELSE "invalid"]

EventsBody == [m \in Message |-> "events"]

ArrivalsOf == [m \in Message |-> {a \in Arrival : a.msg = m}]

(* Two states that differ only in the contents of garbage cells are one. *)
LiveHeap ==
  <<interruptionEventStore, callsSinceLastClean,
    [o \in Object \ Garbage |->
       <<sent[o], inProgress[o], nodeProcessed[o], pc[o], nodeFound[o]>>],
    mainVars, slots, watcher, queueVars>>

ObjectSymmetry == Permutations(Object)
=============================================================================
