---------------------------- MODULE MCDispatcher ----------------------------
(***************************************************************************)
(* Dispatcher for TLC: the termination of node n1, maintenance of node n2  *)
(* that can be cancelled, and the launch of node n3.                       *)
(***************************************************************************)
EXTENDS Dispatcher, TLC

CONSTANTS e1, e2, e3, n1, n2, n3

Terminate1 == [id |-> e1, kind |-> "terminate", nodeName |-> n1,
               providerName |-> n1, tasks |-> {"pre", "cancel", "post"}]

Scheduled2 == [id |-> e2, kind |-> "scheduled", nodeName |-> n2,
               providerName |-> n2, tasks |-> {"pre"}]

Launch3 == [id |-> e3, kind |-> "launch", nodeName |-> n3,
            providerName |-> n3, tasks |-> {"post"}]

MCArrival == {Terminate1, Scheduled2, Launch3}

ObjectSymmetry == Permutations(Object)

(* Two states that differ only in the contents of garbage cells are one. *)
LiveHeap ==
  <<interruptionEventStore, ignoredEvents, atLeastOneEvent, callsSinceLastClean,
    [o \in Object \ Garbage |->
       <<sent[o], due[o], inProgress[o], nodeProcessed[o], pc[o], nodeFound[o]>>],
    mainVars, slots, watcher, cancelVars>>
=============================================================================
