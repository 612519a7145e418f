----------------------------- MODULE MCImdsMode -----------------------------
(***************************************************************************)
(* ImdsMode for TLC: a scheduled reboot (e1), a spot interruption (e2),    *)
(* and an ASG termination (two polls: e3 and e4) or a rebalance            *)
(* recommendation (e3) of the node n1.                                     *)
(***************************************************************************)
EXTENDS ImdsMode, TLC

CONSTANTS e1, e2, e3, e4, n1, reboot, spot, asg

Event(kind, id) ==
  [id |-> id, kind |-> kind, nodeName |-> n1, providerName |-> n1, tasks |-> {"pre"}]

RebootArrival == {Event("scheduled", e1)}
SpotArrival == {Event("spot", e2), Event("terminate", e3)}
RebalanceArrival == {Event("spot", e2), Event("rebalance", e3)}
AsgArrival == {Event("terminate", e3), Event("terminate", e4)}
RebootAndSpotArrival == RebootArrival \cup {Event("spot", e2)}

Notices ==
  [id \in EventID |-> IF id = e1 THEN reboot ELSE IF id = e2 THEN spot ELSE asg]

ObjectSymmetry == Permutations(Object)

(* Two states that differ only in the contents of garbage cells are one. *)
LiveHeap ==
  <<interruptionEventStore, ignoredEvents, atLeastOneEvent, callsSinceLastClean,
    [o \in Object \ Garbage |->
       <<sent[o], due[o], inProgress[o], nodeProcessed[o], pc[o], nodeFound[o], task[o]>>],
    mainVars, slots, watcher, cancelVars, nodeVars, metadata, monitorVars, startVars,
    cleaning, boundVars>>
=============================================================================
