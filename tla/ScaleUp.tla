------------------------------- MODULE ScaleUp -------------------------------
(***************************************************************************)
(* Spot Guard's scale-up: the pre-drain task of a rebalance recommendation *)
(* (pkg/monitor/rebalancerecommendation) asks the spot group for one more  *)
(* instance, waits for it, falls back to the on-demand group, and then     *)
(* taints the node.  One pod per interrupted spot node runs it; the pods   *)
(* share the groups and know nothing of each other.                        *)
(*                                                                         *)
(* Each call of the ASG API is a step of its own, and a tick of the wait   *)
(* is one step, its two reads together.  The two timers (the               *)
(* 10-second ticker and CapacityCheckTimeout) are abstracted: a tick and   *)
(* the timeout may come at any time after the previous call.               *)
(***************************************************************************)
EXTENDS AutoScaling

CONSTANTS Pods,         \* the pods that run the pre-drain task
          MaxOutages,   \* bound: times the AWS or Kubernetes API stops answering
          MaxLosses,    \* bound: instances taken from the groups
          MaxShortages  \* bound: times the spot supply changes

ASSUME ScaleUpAssumption ==
  {MaxOutages, MaxLosses, MaxShortages} \subseteq Nat

VARIABLES pc,        \* pod -> the call it makes next
          group,     \* pod -> the group it is scaling
          target,    \* pod -> newDesired
          initial,   \* pod -> initialCount
          seen,      \* pod -> a capacity failure is recorded after its cutoff
          result,    \* pod -> what ScaleUpWithFallback returned
          tainted,   \* pod -> its node has the rebalance taint
          recent,    \* groups with a capacity failure in the last 5 seconds
          arrived,   \* history: pod -> an instance of its group has reached
                     \* InService since it took its baseline
          requests,  \* history: group -> pods whose request was accepted
          outage,    \* the APIs answer every call with an error
          outages, losses, shortages

podVars == <<pc, group, target, initial, seen, result, tainted>>
historyVars == <<arrived, requests>>
boundVars == <<outages, losses, shortages>>
vars == <<groupVars, podVars, recent, historyVars, outage, boundVars>>

ScaleUpTypeOK ==
  /\ GroupTypeOK
  /\ pc \in [Pods -> {"idle", "describe", "set", "count", "wait", "taint",
                      "done"}]
  /\ group \in [Pods -> Groups]
  /\ target \in [Pods -> Nat] /\ initial \in [Pods -> Nat]
  /\ seen \in [Pods -> BOOLEAN]
  /\ result \in [Pods -> Groups \cup {"none", "failed"}]
  /\ tainted \in [Pods -> BOOLEAN]
  /\ recent \subseteq Groups
  /\ arrived \in [Pods -> BOOLEAN]
  /\ requests \in [Groups -> SUBSET Pods]
  /\ outage \in BOOLEAN
  /\ outages \in 0 .. MaxOutages
  /\ losses \in 0 .. MaxLosses /\ shortages \in 0 .. MaxShortages

Init ==
  /\ GroupInit
  /\ pc = [p \in Pods |-> "idle"] /\ group = [p \in Pods |-> "spot"]
  /\ target = [p \in Pods |-> 0] /\ initial = [p \in Pods |-> 0]
  /\ seen = [p \in Pods |-> FALSE] /\ result = [p \in Pods |-> "none"]
  /\ tainted = [p \in Pods |-> FALSE]
  /\ recent = {}
  /\ arrived = [p \in Pods |-> FALSE] /\ requests = [g \in Groups |-> {}]
  /\ outage = FALSE /\ outages = 0 /\ losses = 0 /\ shortages = 0

-----------------------------------------------------------------------------
(* A pod                                                                   *)

(* scaleStartTime: a failure up to five seconds older still counts.        *)
Baseline(p, g) ==
  /\ group' = [group EXCEPT ![p] = g]
  /\ seen' = [seen EXCEPT ![p] = g \in recent]
  /\ arrived' = [arrived EXCEPT ![p] = FALSE]
  /\ pc' = [pc EXCEPT ![p] = "describe"]

Goto(p, label) == pc' = [pc EXCEPT ![p] = label]

ScaleUpWithFallback(p) ==
  /\ pc[p] = "idle"
  /\ Baseline(p, "spot")
  /\ UNCHANGED <<groupVars, target, initial, result, tainted, recent,
                 requests, outage, boundVars>>

(* The scale-up of the current group failed: fallbackToOnDemand from the   *)
(* spot group, an error from the on-demand group.                          *)
Fails(p) ==
  /\ \/ /\ group[p] = "spot"
        /\ Baseline(p, "ondemand")
        /\ UNCHANGED result
     \/ /\ group[p] = "ondemand"
        /\ Goto(p, "taint")
        /\ result' = [result EXCEPT ![p] = "failed"]
        /\ UNCHANGED <<group, seen, arrived>>
  /\ UNCHANGED <<groupVars, target, initial, tainted, recent, requests,
                 outage, boundVars>>

(* A mutant of DescribeASG: the request is for two more instances.         *)
DescribeASGForTwo(p) ==
  /\ pc[p] = "describe"
  /\ LET new == desired[group[p]] + 2 IN
     \/ /\ outage \/ new > MaxSize[group[p]]
        /\ Fails(p)
     \/ /\ ~outage /\ new <= MaxSize[group[p]]
        /\ target' = [target EXCEPT ![p] = new]
        /\ Goto(p, "set")
        /\ UNCHANGED <<groupVars, group, initial, seen, result, tainted,
                       recent, historyVars, outage, boundVars>>

(* scaleUpASG, first half: read the desired capacity.                      *)
DescribeASG(p) ==
  /\ pc[p] = "describe"
  /\ LET new == desired[group[p]] + 1 IN
     \/ /\ outage \/ new > MaxSize[group[p]]
        /\ Fails(p)
     \/ /\ ~outage /\ new <= MaxSize[group[p]]
        /\ target' = [target EXCEPT ![p] = new]
        /\ Goto(p, "set")
        /\ UNCHANGED <<groupVars, group, initial, seen, result, tainted,
                       recent, historyVars, outage, boundVars>>

(* scaleUpASG, second half: write it.                                      *)
SetDesired(p) ==
  /\ pc[p] = "set"
  /\ \/ /\ outage
        /\ Fails(p)
     \/ /\ ~outage
        /\ SetDesiredCapacity(group[p], target[p])
        /\ requests' = [requests EXCEPT ![group[p]] = @ \cup {p}]
        /\ Goto(p, "count")
        /\ UNCHANGED <<state, supply, group, target, initial, seen, result,
                       tainted, recent, arrived, outage, boundVars>>

(* waitForNewInstance reads initialCount after the request was sent.       *)
InitialCount(p) ==
  /\ pc[p] = "count"
  /\ \/ /\ outage
        /\ Fails(p)
     \/ /\ ~outage
        /\ initial' = [initial EXCEPT ![p] = InServiceCount(group[p])]
        /\ Goto(p, "wait")
        /\ UNCHANGED <<groupVars, group, target, seen, result, tainted,
                       recent, historyVars, outage, boundVars>>

NewInstance(p) == InServiceCount(group[p]) > initial[p]

Succeeds(p) ==
  /\ Goto(p, "taint")
  /\ result' = [result EXCEPT ![p] = group[p]]
  /\ UNCHANGED <<groupVars, group, target, initial, seen, tainted, recent,
                 historyVars, outage, boundVars>>

(* A mutant of WaitTick: the wait accepts the instances it started from.   *)
WaitTickNoNew(p) ==
  /\ pc[p] = "wait"
  /\ ~outage
  /\ \/ /\ InServiceCount(group[p]) >= initial[p]
        /\ Succeeds(p)
     \/ seen[p] /\ Fails(p)

(* One tick of the wait.  A failed count is skipped (continue), before the *)
(* capacity check and the timeout are reached; a tick that finds nothing   *)
(* changes nothing.                                                        *)
WaitTick(p) ==
  /\ pc[p] = "wait"
  /\ ~outage
  /\ \/ NewInstance(p) /\ Succeeds(p)
     \/ ~NewInstance(p) /\ seen[p] /\ Fails(p)

(* A mutant of WaitTimeout: no timeout.                                    *)
WaitForever(p) ==
  /\ pc[p] = "wait" /\ FALSE
  /\ UNCHANGED vars

(* A tick at which CapacityCheckTimeout has passed.                        *)
WaitTimeout(p) ==
  /\ pc[p] = "wait"
  /\ ~outage
  /\ ~NewInstance(p)
  /\ Fails(p)

(* spotGuardPreDrainTask taints the node whatever the scale-up returned.   *)
TaintRebalanceRecommendation(p) ==
  /\ pc[p] = "taint"
  /\ Goto(p, "done")
  /\ tainted' = [tainted EXCEPT ![p] = ~outage]
  /\ UNCHANGED <<groupVars, group, target, initial, seen, result, recent,
                 historyVars, outage, boundVars>>

spotGuardPreDrainTask(p) ==
  \/ DescribeASG(p)
  \/ SetDesired(p)
  \/ InitialCount(p)
  \/ WaitTick(p)
  \/ WaitTimeout(p)
  \/ TaintRebalanceRecommendation(p)

-----------------------------------------------------------------------------
(* The cloud                                                               *)

CloudOnly == UNCHANGED <<podVars, requests, outage, outages>>

Launched ==
  /\ \E i \in Instances :
        /\ Launches(i)
        /\ arrived' = [p \in Pods |-> arrived[p] \/ group[p] = GroupOf(i)]
  /\ CloudOnly
  /\ UNCHANGED <<recent, losses, shortages>>

TerminatedByASG ==
  /\ \E i \in Instances : Terminates(i)
  /\ CloudOnly
  /\ UNCHANGED <<recent, arrived, losses, shortages>>

ReclaimedByEC2 ==
  /\ losses < MaxLosses
  /\ \E i \in Spot : Reclaimed(i)
  /\ losses' = losses + 1
  /\ CloudOnly
  /\ UNCHANGED <<recent, arrived, shortages>>

(* decreaseASGCapacity of an on-demand node's self-monitor, whose two      *)
(* calls SelfMonitor takes apart.                                          *)
ScaledDown ==
  /\ losses < MaxLosses
  /\ InService("ondemand") # {}
  /\ SetDesiredCapacity("ondemand", desired["ondemand"] - 1)
  /\ losses' = losses + 1
  /\ CloudOnly
  /\ UNCHANGED <<state, supply, recent, arrived, shortages>>

SpotSupplyChanges ==
  /\ shortages < MaxShortages
  /\ SupplyChanges
  /\ shortages' = shortages + 1
  /\ CloudOnly
  /\ UNCHANGED <<recent, arrived, losses>>

(* A launch fails for want of capacity: the failed activity is visible to  *)
(* every pod that is scaling the group.                                    *)
ScalingActivityFails ==
  /\ Short("spot") /\ ~supply
  /\ seen' = [p \in Pods |-> seen[p] \/ (group[p] = "spot" /\ pc[p] # "idle")]
  /\ recent' = {"spot"}
  /\ UNCHANGED <<groupVars, pc, group, target, initial, result, tainted,
                 historyVars, outage, boundVars>>

FiveSecondsPass ==
  /\ recent # {}
  /\ recent' = {}
  /\ UNCHANGED <<groupVars, podVars, historyVars, outage, boundVars>>

OutageStarts ==
  /\ ~outage /\ outages < MaxOutages
  /\ outage' = TRUE /\ outages' = outages + 1
  /\ UNCHANGED <<groupVars, podVars, recent, historyVars, losses, shortages>>

OutageEnds ==
  /\ outage
  /\ outage' = FALSE
  /\ UNCHANGED <<groupVars, podVars, recent, historyVars, boundVars>>

Cloud ==
  \/ Launched \/ TerminatedByASG \/ ReclaimedByEC2 \/ ScaledDown
  \/ SpotSupplyChanges \/ ScalingActivityFails \/ FiveSecondsPass
  \/ OutageStarts \/ OutageEnds

Next ==
  \/ \E p \in Pods : ScaleUpWithFallback(p) \/ spotGuardPreDrainTask(p)
  \/ Cloud

Spec == Init /\ [][Next]_vars

(* Every pod runs, and its timeout comes.                                  *)
PodFairness == \A p \in Pods : WF_vars(spotGuardPreDrainTask(p))

LiveSpec == Spec /\ PodFairness /\ WF_vars(OutageEnds)

OutageSpec == Spec /\ PodFairness

-----------------------------------------------------------------------------
(* A scale-up that returns success for a group has seen a new instance:    *)
(* some instance reached InService in that group after the pod's request   *)
(* was prepared (waitForNewInstance, spotguard.go:140).                    *)
SuccessHasInstance ==
  \A p \in Pods : result[p] \in Groups => arrived[p]

(* However the pods interleave, a group never grows by more than one       *)
(* instance for each pod whose request was accepted (scaleUpASG).          *)
GrowthBounded ==
  \A g \in Groups :
    desired[g] <= Cardinality(InitRunning \cap Members(g))
                    + Cardinality(requests[g])

(* The pre-drain task of every rebalance recommendation ends, so the       *)
(* worker goes on to cordon and drain the node, if every outage of the     *)
(* APIs ends.                                                              *)
PreDrainTaskEnds ==
  \A p \in Pods : pc[p] = "describe" ~> pc[p] = "done"

(* "Timeout in seconds for waiting for new instances to reach InService    *)
(* state" (config.go:274): the wait ends by the timeout at the latest.     *)
WaitTimesOut ==
  \A p \in Pods : pc[p] = "wait" ~> pc[p] # "wait"

(* "scaleUpASG increases the desired capacity of an ASG by 1"              *)
(* (spotguard.go:78).                                                      *)
IncreasesByOne ==
  [][\A p \in Pods :
       pc[p] = "set" /\ pc'[p] = "count"
         => desired'[group[p]] = desired[group[p]] + 1]_vars

(* "Intelligent fallback to on-demand only when needed": a pod does not    *)
(* turn to the on-demand group when the spot group has produced a new      *)
(* instance since its request.                                             *)
FallbackOnlyWhenNeeded ==
  [][\A p \in Pods :
       group[p] = "spot" /\ group'[p] = "ondemand" => ~arrived[p]]_vars

=============================================================================
