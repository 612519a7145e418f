----------------------------- MODULE SelfMonitor -----------------------------
(***************************************************************************)
(* Spot Guard's scale-down (pkg/spotguard/self_monitor.go,                 *)
(* scaledown_executor.go, health_checker.go, safety_checker.go).  Every    *)
(* on-demand node runs a pod that watches the spot group and, when spot    *)
(* capacity is back, drains its own node and lowers the desired capacity   *)
(* of the on-demand group by one.  The group, not the pod, chooses the     *)
(* instance that goes.                                                     *)
(*                                                                         *)
(* Time is a tick of the clock; the durations are ticks, and the counters  *)
(* stop at the duration they are compared with.  A check cycle may start   *)
(* at any time (the check interval has a random jitter).  Utilisation is   *)
(* abstracted to where it stands, with this node removed, against the two  *)
(* thresholds of the configuration.                                        *)
(***************************************************************************)
EXTENDS AutoScaling

CONSTANTS MinimumWait,       \* SpotGuardMinimumWaitDuration, in ticks
          Stability,         \* SpotGuardSpotStabilityDuration, in ticks
          EnablePreScale,
          UseAPIServerCacheToListPods,
          SupplyAtStart,     \* environment: whether EC2 has spot capacity then
          Changing,          \* environment: what may still change of
                             \* {"supply", "flap", "cluster", "fallback"}
          MaxChanges,        \* bound: changes of the environment
          MaxFaults,         \* bound: failed calls of the two APIs
          MaxCrashes         \* bound: restarts of the pods

ASSUME MonitorAssumption ==
  /\ MinimumWait \in Nat /\ Stability \in Nat
  /\ EnablePreScale \in BOOLEAN /\ UseAPIServerCacheToListPods \in BOOLEAN
  /\ MaxChanges \in Nat /\ MaxFaults \in Nat /\ MaxCrashes \in Nat

VARIABLES mon,       \* on-demand instance -> the memory of its monitor
          node,      \* on-demand instance -> its Kubernetes node
          cluster,   \* "room": below MaxClusterUtilization once a node is
                     \* gone, "tight": below the fallback threshold only,
                     \* "full": above both, "blocked": a pod cannot be moved
          changes, faults, crashes

boundVars == <<changes, faults, crashes>>
vars == <<groupVars, mon, node, cluster, boundVars>>

Never == -1   \* healthySince = nil

Labels == {"off", "idle", "spot", "safety", "calc", "scale", "ready",
           "jitter", "taint", "drain", "read", "set", "verify",
           "clear"}

(* target is newDesired or NodesNeeded.                                    *)
Monitor ==
  [pc : Labels, elapsed : 0 .. MinimumWait,
   healthyFor : Never .. Stability, threshold : {"max", "fallback"},
   target : Nat]

(* marker is the annotation scale-down-completed; stamp is the age of the  *)
(* annotation on-demand-start-time, Never without one.  age is history:    *)
(* the ticks since the node joined.                                        *)
Node ==
  [marker : BOOLEAN, stamp : Never .. MinimumWait, closed : BOOLEAN, pods : BOOLEAN,
   age : 0 .. MinimumWait]

SelfMonitorTypeOK ==
  /\ GroupTypeOK
  /\ mon \in [OnDemand -> Monitor]
  /\ node \in [OnDemand -> Node]
  /\ cluster \in {"room", "tight", "full", "blocked"}
  /\ changes \in 0 .. MaxChanges
  /\ faults \in 0 .. MaxFaults /\ crashes \in 0 .. MaxCrashes

(* NewSelfMonitor: only the start time survives a restart, in the          *)
(* annotation.                                                             *)
NewSelfMonitor(elapsed) ==
  [pc |-> "idle", elapsed |-> elapsed, healthyFor |-> Never,
   threshold |-> "max", target |-> 0]

NoMonitor == [NewSelfMonitor(0) EXCEPT !.pc = "off"]

NewNode(stamped) ==
  [marker |-> FALSE, stamp |-> stamped, closed |-> FALSE, pods |-> FALSE,
   age |-> 0]

Init ==
  /\ GroupInit /\ supply \in SupplyAtStart
  /\ mon = [i \in OnDemand |->
              IF i \in InitRunning THEN NewSelfMonitor(0) ELSE NoMonitor]
  /\ node = [i \in OnDemand |-> NewNode(IF i \in InitRunning THEN 0 ELSE Never)]
  /\ cluster \in {"room", "tight"}
  /\ changes = 0 /\ faults = 0 /\ crashes = 0

-----------------------------------------------------------------------------
(* The health checker                                                      *)

IsHealthy == InServiceCount("spot") >= desired["spot"]

(* All instances of the group, in service or not.                          *)
InstanceIDs == {i \in Spot : state[i] # "absent"}

(* Nodes are matched to the instances of the group: an instance that has   *)
(* not joined the cluster is not looked at.  "notready" is a cordoned node *)
(* too; the node of a terminating instance still reports ready.            *)
SpotNodes == {i \in InstanceIDs : state[i] # "starting"}

NodesReady == SpotNodes # {} /\ \A i \in SpotNodes : state[i] # "notready"

SpotHealthy == IsHealthy /\ NodesReady

-----------------------------------------------------------------------------
(* A monitor                                                               *)

At(i, label) == mon[i].pc = label

(* The local variable target ends with the function it belongs to.         *)
Goto(i, label) ==
  mon' = [mon EXCEPT ![i].pc = label,
                     ![i].target = IF label \in {"ready", "set"} THEN @ ELSE 0]

Fault == faults < MaxFaults /\ faults' = faults + 1

NoFault == UNCHANGED faults

NodeOnly == UNCHANGED <<groupVars, cluster, changes, crashes>>

MonitorOnly == NodeOnly /\ UNCHANGED node

(* A call fails and the check ends: return false.                          *)
Abandons(i) == Goto(i, "idle") /\ Fault /\ MonitorOnly

(* A mutant of CheckMarker: no minimum wait.                               *)
CheckMarkerNoWait(i) ==
  /\ At(i, "idle")
  /\ Goto(i, IF node[i].marker THEN "verify" ELSE "spot")
  /\ NoFault /\ MonitorOnly

(* checkAndScaleDown up to the minimum wait.  isScaleDownCompleted takes a *)
(* failed read for an absent marker.                                       *)
CheckMarker(i) ==
  /\ At(i, "idle")
  /\ \/ node[i].marker /\ Goto(i, "verify") /\ NoFault
     \/ /\ mon[i].elapsed >= MinimumWait
        /\ \/ ~node[i].marker /\ NoFault
           \/ node[i].marker /\ Fault
        /\ Goto(i, "spot")
  /\ MonitorOnly

(* CheckSpotASGComprehensive and its use.  An unhealthy group ends the     *)
(* check before healthySince is written.                                   *)
CheckSpot(i) ==
  /\ At(i, "spot")
  /\ \/ Abandons(i)
     \/ /\ ~SpotHealthy
        /\ Goto(i, "idle") /\ NoFault /\ MonitorOnly
     \/ /\ SpotHealthy
        /\ mon' = [mon EXCEPT
             ![i].healthyFor = IF @ = Never THEN 0 ELSE @,
             ![i].pc = IF mon[i].healthyFor >= Stability /\ mon[i].healthyFor # Never
                       THEN "safety" ELSE "idle"]
        /\ NoFault /\ MonitorOnly

UtilizationTooHigh(i) ==
  \/ cluster = "full"
  \/ cluster = "tight" /\ mon[i].threshold = "max"

(* CanSafelyDrainNode, with the pre-scale attempt it may lead to.          *)
CanSafelyDrainNode(i) ==
  /\ At(i, "safety")
  /\ \/ Abandons(i)
     \/ /\ Goto(i, CASE cluster = "blocked" -> "idle"
                     [] UtilizationTooHigh(i) ->
                          IF EnablePreScale THEN "calc" ELSE "idle"
                     [] OTHER -> "jitter")
        /\ NoFault /\ MonitorOnly

(* attemptFallbackLevel2 compares the utilisation that level 1 read, with  *)
(* this node in the cluster (100 when the read failed), with the fallback  *)
(* threshold; level 3 keeps the node.                                      *)
FallbackLevel2(i) ==
  \/ mon' = [mon EXCEPT ![i].pc = "idle", ![i].threshold = "fallback",
                        ![i].target = 0]
  \/ Goto(i, "idle")

(* Level 1.  CalculatePreScaleNodes asks for nothing when the utilisation  *)
(* with this node is below the target already, else for at least one node  *)
(* (Capacity has the figures); any number above the maximum is refused.    *)
CalculatePreScale(i) ==
  /\ At(i, "calc")
  /\ \/ Goto(i, "idle") /\ NoFault
     \/ FallbackLevel2(i) /\ Fault
     \/ /\ \E n \in desired["spot"] + 1 .. MaxSize["spot"] + 1 :
             mon' = [mon EXCEPT ![i].pc = "scale", ![i].target = n]
        /\ NoFault
  /\ MonitorOnly

ScaleSpotASG(i) ==
  /\ At(i, "scale")
  /\ \/ /\ SetDesiredCapacity("spot", mon[i].target)
        /\ Goto(i, "ready")
        /\ NoFault
        /\ UNCHANGED <<state, supply, cluster, changes, crashes, node>>
     \/ /\ ~Accepts("spot", mon[i].target)
        /\ FallbackLevel2(i) /\ NoFault /\ MonitorOnly
     \/ FallbackLevel2(i) /\ Fault /\ MonitorOnly

(* waitForSpotNodesReady: success, or its timeout, which may come between  *)
(* two checks.                                                             *)
WaitForSpotNodesReady(i) ==
  /\ At(i, "ready")
  /\ \/ /\ SpotHealthy /\ Cardinality(InstanceIDs) >= mon[i].target
        /\ Goto(i, "idle")
     \/ FallbackLevel2(i)
  /\ NoFault /\ MonitorOnly

(* After the execution jitter: markScaleDownInitiated, whose failure is    *)
(* only logged.                                                            *)
MarkScaleDownInitiated(i) ==
  /\ At(i, "jitter")
  /\ Goto(i, "taint")
  /\ \/ node' = [node EXCEPT ![i].marker = TRUE] /\ NoFault
     \/ UNCHANGED node /\ Fault
  /\ NodeOnly

(* taintNode and cordonNode.                                               *)
TaintAndCordon(i) ==
  /\ At(i, "taint")
  /\ \/ /\ node' = [node EXCEPT ![i].closed = TRUE]
        /\ \/ Goto(i, "drain") /\ NoFault
           \/ Goto(i, "idle") /\ Fault
        /\ NodeOnly
     \/ Abandons(i)

(* drainNode calls CordonAndDrain without an event recorder.  With the     *)
(* API server's cache the pods are then not listed at all, and the drain   *)
(* succeeds with nothing evicted.                                          *)
DrainEvicts == ~UseAPIServerCacheToListPods

(* A mutant of DrainNode: a failed drain is ignored.                       *)
DrainNodeIgnoringErrors(i) ==
  /\ At(i, "drain")
  /\ Goto(i, "read")
  /\ \/ node' = [node EXCEPT ![i].pods = @ /\ ~DrainEvicts] /\ NoFault
     \/ UNCHANGED node /\ Fault
  /\ NodeOnly

(* drainNode and waitForPodsRescheduled: what the wait returns, a timeout  *)
(* with pods still on the node included, is only logged.                   *)
DrainNode(i) ==
  /\ At(i, "drain")
  /\ \/ /\ node' = [node EXCEPT ![i].pods = @ /\ ~DrainEvicts]
        /\ Goto(i, "read")
        /\ NoFault /\ NodeOnly
     \/ Abandons(i)

(* A mutant of ReadDesired: no comparison with the minimum size.           *)
ReadDesiredUnchecked(i) ==
  /\ At(i, "read")
  /\ mon' = [mon EXCEPT ![i].pc = "set", ![i].target = desired["ondemand"] - 1]
  /\ NoFault /\ MonitorOnly

(* decreaseASGCapacity: read, compare with the minimum, write.             *)
ReadDesired(i) ==
  /\ At(i, "read")
  /\ LET new == desired["ondemand"] - 1 IN
     \/ /\ new >= MinSize["ondemand"]
        /\ mon' = [mon EXCEPT ![i].pc = "set", ![i].target = new]
        /\ NoFault /\ MonitorOnly
     \/ /\ new < MinSize["ondemand"]
        /\ Goto(i, "idle") /\ NoFault /\ MonitorOnly
     \/ Abandons(i)

SetDesired(i) ==
  /\ At(i, "set")
  /\ \/ /\ SetDesiredCapacity("ondemand", mon[i].target)
        /\ Goto(i, "verify")
        /\ NoFault
        /\ UNCHANGED <<state, supply, cluster, changes, crashes, node>>
     \/ Abandons(i)

(* A mutant of WaitForThisNodeTermination: the marker is never cleared.    *)
WaitNeverClears(i) ==
  /\ At(i, "verify")
  /\ Goto(i, "idle")
  /\ NoFault /\ MonitorOnly

(* waitForThisNodeTermination.  isThisNodeTerminating takes a failed read  *)
(* for a deleted node.  A termination may outlast the five minutes of the  *)
(* wait.                                                                   *)
WaitForThisNodeTermination(i) ==
  /\ At(i, "verify")
  /\ \/ state[i] = "terminating" /\ Goto(i, "idle") /\ NoFault
     \/ Goto(i, "idle") /\ Fault
     \/ Goto(i, "clear") /\ NoFault
  /\ MonitorOnly

ClearScaleDownMarker(i) ==
  /\ At(i, "clear")
  /\ Goto(i, "idle")
  /\ \/ node' = [node EXCEPT ![i].marker = FALSE] /\ NoFault
     \/ UNCHANGED node /\ Fault
  /\ NodeOnly

checkAndScaleDown(i) ==
  \/ CheckMarker(i) \/ CheckSpot(i) \/ CanSafelyDrainNode(i)
  \/ CalculatePreScale(i) \/ ScaleSpotASG(i) \/ WaitForSpotNodesReady(i)
  \/ MarkScaleDownInitiated(i) \/ TaintAndCordon(i) \/ DrainNode(i)
  \/ ReadDesired(i) \/ SetDesired(i)
  \/ WaitForThisNodeTermination(i) \/ ClearScaleDownMarker(i)

-----------------------------------------------------------------------------
(* The rest of the world                                                   *)

(* The pod restarts and makes a new monitor.  getOrCreateStartTime starts  *)
(* from the annotation, or from now: when there is none, and when the node *)
(* cannot be read or the annotation not written.                           *)
Restart(i) ==
  /\ mon[i].pc # "off" /\ crashes < MaxCrashes
  /\ \/ /\ node[i].stamp # Never
        /\ mon' = [mon EXCEPT ![i] = NewSelfMonitor(node[i].stamp)]
        /\ NoFault /\ UNCHANGED node
     \/ /\ node[i].stamp = Never
        /\ mon' = [mon EXCEPT ![i] = NewSelfMonitor(0)]
        /\ node' = [node EXCEPT ![i].stamp = 0] /\ NoFault
     \/ mon' = [mon EXCEPT ![i] = NewSelfMonitor(0)] /\ Fault /\ UNCHANGED node
  /\ crashes' = crashes + 1
  /\ UNCHANGED <<groupVars, cluster, changes>>

Later(n, limit) == IF n \in 0 .. limit - 1 THEN n + 1 ELSE n

Tick ==
  /\ mon' = [i \in OnDemand |->
       IF mon[i].pc = "off" THEN mon[i]
       ELSE [mon[i] EXCEPT !.elapsed = Later(@, MinimumWait),
                           !.healthyFor = Later(@, Stability)]]
  /\ node' = [i \in OnDemand |->
       IF mon[i].pc = "off" THEN node[i]
       ELSE [node[i] EXCEPT !.age = Later(@, MinimumWait),
                            !.stamp = Later(@, MinimumWait)]]
  /\ UNCHANGED <<groupVars, cluster, boundVars>>

Launched(i) ==
  /\ Launches(i)
  /\ IF i \in OnDemand
       THEN /\ mon' = [mon EXCEPT ![i] = NewSelfMonitor(0)]
            /\ \/ node' = [node EXCEPT ![i] = NewNode(0)] /\ NoFault
               \/ node' = [node EXCEPT ![i] = NewNode(Never)] /\ Fault
       ELSE UNCHANGED <<mon, node, faults>>
  /\ UNCHANGED <<cluster, changes, crashes>>

(* The node is deleted, and its pods with it.                              *)
Removed(i) ==
  /\ Gone(i)
  /\ IF i \in OnDemand
       THEN /\ mon' = [mon EXCEPT ![i] = NoMonitor]
            /\ node' = [node EXCEPT ![i] = NewNode(Never)]
       ELSE UNCHANGED <<mon, node>>
  /\ UNCHANGED <<cluster, boundVars>>

AsgTerminates(i) ==
  /\ Terminates(i)
  /\ UNCHANGED <<mon, node, cluster, boundVars>>

(* A spot instance joins the cluster; it may lose and regain readiness.    *)
Joins(i) ==
  /\ i \in Spot
  /\ Becomes(i, {"starting", "notready"}, "ready")
  /\ UNCHANGED <<desired, supply, mon, node, cluster, boundVars>>

(* Workload comes to a node that is neither tainted nor cordoned.          *)
PodScheduled(i) ==
  /\ mon[i].pc # "off" /\ ~node[i].closed /\ ~node[i].pods
  /\ node' = [node EXCEPT ![i].pods = TRUE]
  /\ UNCHANGED <<groupVars, mon, cluster, boundVars>>

Change(what) ==
  /\ what \in Changing
  /\ changes < MaxChanges /\ changes' = changes + 1
  /\ UNCHANGED <<mon, node, faults, crashes>>

(* What may change around the monitors: spot capacity, the readiness of a  *)
(* spot node, the load, and the on-demand group (a fallback of ScaleUp).   *)
WorldChanges ==
  \/ Change("supply") /\ SupplyChanges /\ UNCHANGED cluster
  \/ Change("supply") /\ UNCHANGED cluster /\ \E i \in Spot : Reclaimed(i)
  \/ /\ Change("flap")
     /\ \E i \in Spot : Becomes(i, {"ready"}, "notready")
     /\ UNCHANGED <<desired, supply, cluster>>
  \/ /\ Change("cluster")
     /\ cluster' \in {"room", "tight", "full", "blocked"} \ {cluster}
     /\ UNCHANGED groupVars
  \/ /\ Change("fallback")
     /\ SetDesiredCapacity("ondemand", desired["ondemand"] + 1)
     /\ UNCHANGED <<state, supply, cluster>>

Cloud(i) ==
  Launched(i) \/ AsgTerminates(i) \/ Removed(i) \/ Joins(i)

Next ==
  \/ \E i \in OnDemand : checkAndScaleDown(i) \/ Restart(i) \/ PodScheduled(i)
  \/ Tick
  \/ \E i \in Instances : Cloud(i)
  \/ WorldChanges

Spec == Init /\ [][Next]_vars

(* The monitors run, the clock goes on, and the group acts on its desired  *)
(* capacity; nothing says which instance it takes.                         *)
Fairness ==
  /\ \A i \in OnDemand : WF_vars(checkAndScaleDown(i))
  /\ WF_vars(Tick)
  /\ WF_vars(\E i \in Instances : Launched(i))
  /\ WF_vars(\E i \in Instances : AsgTerminates(i))
  /\ WF_vars(\E i \in Instances : Removed(i))
  /\ WF_vars(\E i \in Spot : Joins(i))

LiveSpec == Spec /\ Fairness

-----------------------------------------------------------------------------
AtOneOf(i, labels) == mon[i].pc \in labels

Waited(i) == node[i].age >= MinimumWait

(* The node is closed and, unless the drain knows no pods, empty.          *)
Drained(i) == node[i].closed /\ (DrainEvicts => ~node[i].pods)

(* A monitor past its wait has a node old enough (a restart only ever      *)
(* forgets time), and one past its drain has a node that is closed, and    *)
(* empty if the drain evicts, whatever was restarted, failed or marked     *)
(* since.                                                                  *)
MonitorInv(i) ==
  /\ At(i, "off") <=> state[i] = "absent"
  /\ mon[i].elapsed <= node[i].age /\ node[i].stamp <= node[i].age
  /\ AtOneOf(i, Labels \ {"off", "idle", "verify", "clear"}) => Waited(i)
  /\ node[i].closed => Waited(i)
  /\ At(i, "drain") => node[i].closed
  /\ AtOneOf(i, {"read", "set"}) => Drained(i)

(* The inductive invariant.                                                *)
SelfMonitorInv == SelfMonitorTypeOK /\ \A i \in OnDemand : MonitorInv(i)

(* "On-demand node will run for at least this duration before scale-down"  *)
(* (self_monitor.go:107): no node is taken out of service before, restarts *)
(* of its pod and lost annotations included.                               *)
MinimumWaitKept == \A i \in OnDemand : node[i].closed => Waited(i)

(* A monitor lowers the capacity of the on-demand group only while its own *)
(* node is there and has been drained, however many monitors there are and *)
(* whichever instance the group then chooses.                              *)
LoweredOnlyAfterDrain ==
  [][desired'["ondemand"] < desired["ondemand"]
       => \E i \in OnDemand : At(i, "set") /\ state[i] # "absent" /\ Drained(i)]_vars

(* No workload is on an on-demand node when the group terminates it        *)
(* ("Step 6: Terminate this EC2 instance",                                 *)
(* docs/spot-guard/SPOT_GUARD_COMPLETE_FLOW_V2.md:280).                    *)
TerminatedAfterDrain ==
  \A i \in OnDemand : state[i] = "terminating" => ~node[i].pods

(* Once spot capacity is back and the cluster has room for good, every     *)
(* on-demand instance that the size limit allows to go is scaled down,     *)
(* whatever the races, restarts and failed calls on the way.               *)
ScaleDownCompletes ==
  <>[](SpotHealthy /\ cluster = "room")
    => <>[](desired["ondemand"] = MinSize["ondemand"])

(* "If currently unhealthy or nodes not ready, reset stability tracking"   *)
(* (health_checker.go:547).                                                *)
FlapResetsStability ==
  [][\A i \in OnDemand :
       At(i, "spot") /\ ~SpotHealthy /\ At(i, "idle")' /\ NoFault
         => mon'[i].healthyFor = Never]_vars

(* A scale-down starts only after every spot instance in service has       *)
(* become a ready node.                                                    *)
EverySpotNodeReady ==
  [][\A i \in OnDemand :
       At(i, "spot") /\ mon'[i].pc = "safety"
         => \A s \in InService("spot") : state[s] = "ready"]_vars

(* "Temporarily increase the threshold for the safety checker"             *)
(* (self_monitor.go:615): a raised threshold is put back.                  *)
ThresholdTemporary ==
  \A i \in OnDemand :
    mon[i].threshold = "fallback" ~> mon[i].threshold = "max"

(* "Will proceed with drain on next check cycle" (self_monitor.go:612).    *)
Level2Proceeds ==
  \A i \in OnDemand :
    (mon[i].threshold = "fallback" /\ cluster = "tight")
      ~> (At(i, "drain") \/ cluster # "tight" \/ At(i, "off"))

(* "decreaseASGCapacity decreases the desired capacity of the ASG by 1"    *)
(* (scaledown_executor.go:255).                                            *)
DecreasesByOne ==
  [][\A i \in OnDemand :
       At(i, "set") /\ mon'[i].pc = "verify"
         => desired'["ondemand"] = desired["ondemand"] - 1]_vars

=============================================================================
