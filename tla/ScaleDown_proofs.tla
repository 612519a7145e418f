-------------------------- MODULE ScaleDown_proofs --------------------------
(***************************************************************************)
(* Proofs about Spot Guard's scale-down.  First the monitors of            *)
(* SelfMonitor, for every set of instances, every wait and every pattern   *)
(* of faults and restarts; then the two calculations of Capacity, for      *)
(* every cluster size, utilisation, target and buffer.                     *)
(*                                                                         *)
(* SelfMonitorInv is the strengthening for the monitors.  That a node is   *)
(* closed only after its wait is not inductive: it needs that a monitor    *)
(* past its check has an old enough node, and that the clock a restarted   *)
(* monitor reads is never ahead of the age of its node.  That the capacity *)
(* is lowered only after a drain needs that a drained node gets no pods.   *)
(***************************************************************************)
EXTENDS SelfMonitor, Capacity, TLAPS

(* The bounds and the size limits are natural numbers. *)
LEMMA Limits ==
  /\ MinimumWait \in Nat /\ Stability \in Nat
  /\ MaxChanges \in Nat /\ MaxFaults \in Nat /\ MaxCrashes \in Nat
  /\ \A g \in Groups : MinSize[g] \in Nat /\ MaxSize[g] \in Nat
  /\ "spot" \in Groups /\ "ondemand" \in Groups
  /\ OnDemand \subseteq Instances /\ Spot \subseteq Instances
  BY MonitorAssumption, GroupAssumption DEF Groups, Instances

LEMMA NewTyped ==
  ASSUME NEW n \in 0 .. MinimumWait, NEW s \in Never .. MinimumWait
  PROVE  NewSelfMonitor(n) \in Monitor /\ NoMonitor \in Monitor /\ NewNode(s) \in Node
  BY Limits DEF NewSelfMonitor, NoMonitor, NewNode, Monitor, Node, Never, Labels

LEMMA LabelNames ==
  \A l \in {"idle", "spot", "safety", "calc", "scale", "ready", "jitter", "taint", "drain", "read", "set", "verify", "clear"} : l \in Labels
  BY DEF Labels

(* A step that only moves the program counter keeps the type of the memory. *)
LEMMA GotoTyped ==
  ASSUME mon \in [OnDemand -> Monitor], NEW i \in OnDemand, NEW l \in Labels, Goto(i, l)
  PROVE  mon' \in [OnDemand -> Monitor]
  BY DEF Goto, Monitor

LEMMA FaultTyped ==
  ASSUME faults \in 0 .. MaxFaults, Fault \/ NoFault
  PROVE  faults' \in 0 .. MaxFaults
  BY Limits DEF Fault, NoFault

(* A step of a monitor that only goes on keeps the types. *)
LEMMA GoesTyped ==
  ASSUME SelfMonitorTypeOK, NEW i \in OnDemand, NEW l \in Labels,
         Goto(i, l), MonitorOnly, Fault \/ NoFault
  PROVE  SelfMonitorTypeOK'
<1>1. mon' \in [OnDemand -> Monitor]
  BY GotoTyped DEF SelfMonitorTypeOK
<1>2. faults' \in 0 .. MaxFaults
  BY FaultTyped DEF SelfMonitorTypeOK
<1> QED BY <1>1, <1>2 DEF SelfMonitorTypeOK, GroupTypeOK, MonitorOnly, NodeOnly, groupVars

LEMMA Level2Typed ==
  ASSUME SelfMonitorTypeOK, NEW i \in OnDemand, FallbackLevel2(i), MonitorOnly, Fault \/ NoFault
  PROVE  SelfMonitorTypeOK'
<1>0. mon \in [OnDemand -> Monitor] /\ "idle" \in Labels
  BY LabelNames DEF SelfMonitorTypeOK
<1>1. CASE mon' = [mon EXCEPT ![i].pc = "idle", ![i].threshold = "fallback", ![i].target = 0]
  <2>1. [mon[i] EXCEPT !.pc = "idle", !.threshold = "fallback", !.target = 0] \in Monitor
    BY <1>0 DEF Monitor
  <2>2. mon' \in [OnDemand -> Monitor]
    BY <1>0, <1>1, <2>1
  <2>3. faults' \in 0 .. MaxFaults
    BY FaultTyped DEF SelfMonitorTypeOK
  <2> QED BY <2>2, <2>3 DEF SelfMonitorTypeOK, GroupTypeOK, MonitorOnly, NodeOnly, groupVars
<1>2. CASE Goto(i, "idle")
  BY <1>0, <1>2, GoesTyped
<1> QED BY <1>1, <1>2 DEF FallbackLevel2

(* SetDesiredCapacity keeps the capacity within the limits of the group. *)
LEMMA SetTyped ==
  ASSUME GroupTypeOK, NEW g \in Groups, NEW n, SetDesiredCapacity(g, n),
         UNCHANGED <<state, supply>>
  PROVE  GroupTypeOK'
<1>1. n \in MinSize[g] .. MaxSize[g] /\ n \in Nat
  BY Limits DEF SetDesiredCapacity, Accepts
<1> QED BY <1>1 DEF GroupTypeOK, SetDesiredCapacity
(* The types that only depend on the variables a monitor leaves alone. *)
LEMMA MonitorTyped ==
  ASSUME SelfMonitorTypeOK, mon' \in [OnDemand -> Monitor],
         node' \in [OnDemand -> Node], Fault \/ NoFault, NodeOnly
  PROVE  SelfMonitorTypeOK'
<1>1. faults' \in 0 .. MaxFaults
  BY FaultTyped DEF SelfMonitorTypeOK
<1> QED BY <1>1 DEF SelfMonitorTypeOK, GroupTypeOK, NodeOnly, groupVars

(* Every step of a check cycle keeps the types. *)
LEMMA CheckTyped ==
  ASSUME SelfMonitorTypeOK, NEW i \in OnDemand, checkAndScaleDown(i)
  PROVE  SelfMonitorTypeOK'
<1> USE LabelNames
<1>0. /\ mon \in [OnDemand -> Monitor] /\ node \in [OnDemand -> Node]
      /\ GroupTypeOK /\ node[i].marker \in BOOLEAN /\ mon[i].target \in Nat
  BY DEF SelfMonitorTypeOK, Node, Monitor
<1>1. CASE Abandons(i)
  BY <1>1, GoesTyped DEF Abandons
<1>2. CASE CheckMarker(i)
  BY <1>2, GoesTyped DEF CheckMarker
<1>3. CASE CheckSpot(i)
  <2>1. CASE Goto(i, "idle") /\ NoFault /\ MonitorOnly
    BY <2>1, GoesTyped
  <2>2. ASSUME NEW l \in Labels,
               mon' = [mon EXCEPT ![i].healthyFor = IF @ = Never THEN 0 ELSE @, ![i].pc = l],
               NoFault, MonitorOnly
        PROVE  SelfMonitorTypeOK'
    <3>1. mon' \in [OnDemand -> Monitor]
      <4> DEFINE h == IF mon[i].healthyFor = Never THEN 0 ELSE mon[i].healthyFor
      <4>1. h \in Never .. Stability
        BY <1>0, Limits DEF Monitor, Never
      <4>2. mon' = [mon EXCEPT ![i].healthyFor = h, ![i].pc = l]
        BY <2>2
      <4> HIDE DEF h
      <4>3. [mon[i] EXCEPT !.healthyFor = h, !.pc = l] \in Monitor
        BY <1>0, <2>2, <4>1 DEF Monitor
      <4> QED BY <1>0, <4>2, <4>3
    <3> QED BY <2>2, <3>1, <1>0, MonitorTyped DEF MonitorOnly
  <2> QED BY <1>1, <1>3, <2>1, <2>2 DEF CheckSpot
<1>4. CASE CanSafelyDrainNode(i)
  BY <1>1, <1>4, GoesTyped DEF CanSafelyDrainNode
<1>5. CASE CalculatePreScale(i)
  <2>1. ASSUME NEW n \in desired["spot"] + 1 .. MaxSize["spot"] + 1,
               mon' = [mon EXCEPT ![i].pc = "scale", ![i].target = n], NoFault, MonitorOnly
        PROVE  SelfMonitorTypeOK'
    <3>1. n \in Nat
      BY Limits, <1>0 DEF GroupTypeOK
    <3>2. mon' \in [OnDemand -> Monitor]
      <4>1. [mon[i] EXCEPT !.pc = "scale", !.target = n] \in Monitor
        BY <1>0, <3>1 DEF Monitor
      <4> QED BY <2>1, <1>0, <4>1
    <3> QED BY <2>1, <3>2, <1>0, MonitorTyped DEF MonitorOnly
  <2> QED BY <1>5, <2>1, GoesTyped, Level2Typed DEF CalculatePreScale
<1>6. CASE ScaleSpotASG(i)
  <2>1. CASE /\ SetDesiredCapacity("spot", mon[i].target)
             /\ Goto(i, "ready")
             /\ NoFault
             /\ UNCHANGED <<state, supply, cluster, changes, crashes, node>>
    <3>1. GroupTypeOK'
      BY <2>1, <1>0, SetTyped, Limits
    <3>2. mon' \in [OnDemand -> Monitor]
      BY <2>1, <1>0, GotoTyped
    <3> QED BY <2>1, <3>1, <3>2 DEF SelfMonitorTypeOK, NoFault
  <2> QED BY <1>6, <2>1, Level2Typed DEF ScaleSpotASG
<1>7. CASE WaitForSpotNodesReady(i)
  BY <1>7, GoesTyped, Level2Typed DEF WaitForSpotNodesReady
<1>9. CASE MarkScaleDownInitiated(i)
  <2>1. mon' \in [OnDemand -> Monitor]
    BY <1>9, <1>0, GotoTyped DEF MarkScaleDownInitiated
  <2>2. node' \in [OnDemand -> Node]
    BY <1>9, <1>0 DEF MarkScaleDownInitiated, Node
  <2> QED BY <1>9, <2>1, <2>2, MonitorTyped DEF MarkScaleDownInitiated
<1>10. CASE TaintAndCordon(i)
  <2> SUFFICES ASSUME ~Abandons(i) PROVE SelfMonitorTypeOK'
    BY <1>1
  <2>1. mon' \in [OnDemand -> Monitor]
    BY <1>10, <1>0, GotoTyped DEF TaintAndCordon
  <2>2. node' \in [OnDemand -> Node]
    BY <1>10, <1>0 DEF TaintAndCordon, Node
  <2> QED BY <1>10, <2>1, <2>2, MonitorTyped DEF TaintAndCordon
<1>11. CASE DrainNode(i)
  <2> SUFFICES ASSUME ~Abandons(i) PROVE SelfMonitorTypeOK'
    BY <1>1
  <2>1. mon' \in [OnDemand -> Monitor]
    BY <1>11, <1>0, GotoTyped DEF DrainNode
  <2>2. node' \in [OnDemand -> Node]
    BY <1>11, <1>0 DEF DrainNode, Node
  <2> QED BY <1>11, <2>1, <2>2, MonitorTyped DEF DrainNode
<1>12. CASE ReadDesired(i)
  <2>1. CASE /\ desired["ondemand"] - 1 >= MinSize["ondemand"]
             /\ mon' = [mon EXCEPT ![i].pc = "set", ![i].target = desired["ondemand"] - 1]
             /\ NoFault /\ MonitorOnly
    <3>1. desired["ondemand"] - 1 \in Nat
      BY <2>1, Limits, <1>0 DEF GroupTypeOK
    <3>2. mon' \in [OnDemand -> Monitor]
      <4>1. [mon[i] EXCEPT !.pc = "set", !.target = desired["ondemand"] - 1] \in Monitor
        BY <1>0, <3>1 DEF Monitor
      <4> QED BY <2>1, <1>0, <4>1
    <3> QED BY <2>1, <3>2, <1>0, MonitorTyped DEF MonitorOnly
  <2>2. CASE Goto(i, "idle") /\ NoFault /\ MonitorOnly
    BY <2>2, GoesTyped
  <2> QED BY <1>12, <1>1, <2>1, <2>2 DEF ReadDesired
<1>13. CASE SetDesired(i)
  <2>1. CASE /\ SetDesiredCapacity("ondemand", mon[i].target)
             /\ Goto(i, "verify")
             /\ NoFault
             /\ UNCHANGED <<state, supply, cluster, changes, crashes, node>>
    <3>1. GroupTypeOK'
      BY <2>1, <1>0, SetTyped, Limits
    <3>2. mon' \in [OnDemand -> Monitor]
      BY <2>1, <1>0, GotoTyped
    <3> QED BY <2>1, <3>1, <3>2 DEF SelfMonitorTypeOK, NoFault
  <2> QED BY <1>13, <1>1, <2>1 DEF SetDesired
<1>14. CASE WaitForThisNodeTermination(i)
  BY <1>14, GoesTyped DEF WaitForThisNodeTermination
<1>15. CASE ClearScaleDownMarker(i)
  <2>1. mon' \in [OnDemand -> Monitor]
    BY <1>15, <1>0, GotoTyped DEF ClearScaleDownMarker
  <2>2. node' \in [OnDemand -> Node]
    BY <1>15, <1>0 DEF ClearScaleDownMarker, Node
  <2> QED BY <1>15, <2>1, <2>2, MonitorTyped DEF ClearScaleDownMarker
<1> QED BY <1>2, <1>3, <1>4, <1>5, <1>6, <1>7, <1>9, <1>10, <1>11, <1>12, <1>13,
           <1>14, <1>15 DEF checkAndScaleDown

(* What the cloud does to an instance. *)
LEMMA BecomesTyped ==
  ASSUME GroupTypeOK, NEW i \in Instances, NEW from,
         NEW to \in {"absent", "starting", "ready", "notready", "terminating"},
         Becomes(i, from, to), UNCHANGED <<desired, supply>>
  PROVE  GroupTypeOK'
  BY DEF GroupTypeOK, Becomes

LEMMA LaterTyped ==
  ASSUME NEW limit \in Nat, NEW n \in Never .. limit
  PROVE  /\ Later(n, limit) \in Never .. limit /\ Later(n, limit) >= n
         /\ n >= 0 => Later(n, limit) \in 0 .. limit
         /\ \A k \in n .. limit : Later(n, limit) <= Later(k, limit)
  BY DEF Later, Never

LEMMA TickTyped ==
  ASSUME SelfMonitorTypeOK, Tick
  PROVE  SelfMonitorTypeOK'
<1>1. ASSUME NEW i \in OnDemand PROVE mon'[i] \in Monitor
  <2>1. mon[i] \in Monitor
    BY DEF SelfMonitorTypeOK
  <2>2. /\ mon[i].elapsed \in 0 .. MinimumWait /\ mon[i].healthyFor \in Never .. Stability
    BY <2>1 DEF Monitor
  <2>3. /\ Later(mon[i].elapsed, MinimumWait) \in 0 .. MinimumWait
        /\ Later(mon[i].healthyFor, Stability) \in Never .. Stability
    <3>1. mon[i].elapsed \in Never .. MinimumWait /\ mon[i].elapsed >= 0
      BY <2>2, Limits DEF Never
    <3> QED BY <2>2, <3>1, Limits, LaterTyped
  <2>4. [mon[i] EXCEPT !.elapsed = Later(@, MinimumWait),
                       !.healthyFor = Later(@, Stability)] \in Monitor
    BY <2>1, <2>3 DEF Monitor
  <2> QED BY <2>1, <2>4 DEF Tick
<1>2. ASSUME NEW i \in OnDemand PROVE node'[i] \in Node
  <2>1. node[i] \in Node
    BY DEF SelfMonitorTypeOK
  <2>2. node[i].age \in 0 .. MinimumWait /\ node[i].stamp \in Never .. MinimumWait
    BY <2>1 DEF Node
  <2>3. /\ Later(node[i].age, MinimumWait) \in 0 .. MinimumWait
        /\ Later(node[i].stamp, MinimumWait) \in Never .. MinimumWait
    <3>1. node[i].age \in Never .. MinimumWait /\ node[i].age >= 0
      BY <2>2, Limits DEF Never
    <3> QED BY <2>2, <3>1, Limits, LaterTyped
  <2>4. [node[i] EXCEPT !.age = Later(@, MinimumWait),
                        !.stamp = Later(@, MinimumWait)] \in Node
    BY <2>1, <2>3 DEF Node
  <2> QED BY <2>1, <2>4 DEF Tick
<1>3. mon' \in [OnDemand -> Monitor] /\ node' \in [OnDemand -> Node]
  BY <1>1, <1>2 DEF Tick
<1> QED BY <1>3 DEF Tick, SelfMonitorTypeOK, GroupTypeOK, groupVars, boundVars

(* The cloud and the cluster keep the types. *)
LEMMA CloudTyped ==
  ASSUME SelfMonitorTypeOK, NEW i \in Instances, Cloud(i)
  PROVE  SelfMonitorTypeOK'
<1> USE DEF boundVars
<1>0. /\ mon \in [OnDemand -> Monitor] /\ node \in [OnDemand -> Node] /\ GroupTypeOK
      /\ 0 \in 0 .. MinimumWait /\ 0 \in Never .. MinimumWait
      /\ Never \in Never .. MinimumWait
  BY Limits DEF SelfMonitorTypeOK, Never
<1>1. CASE Launched(i)
  <2>1. GroupTypeOK'
    BY <1>0, <1>1, BecomesTyped DEF Launched, Launches
  <2>2. mon' \in [OnDemand -> Monitor] /\ node' \in [OnDemand -> Node]
    BY <1>0, <1>1, NewTyped DEF Launched
  <2>3. faults' \in 0 .. MaxFaults
    BY <1>1, FaultTyped DEF Launched, SelfMonitorTypeOK, NoFault
  <2> QED BY <1>1, <2>1, <2>2, <2>3 DEF Launched, SelfMonitorTypeOK
<1>2. CASE Removed(i)
  <2>1. GroupTypeOK'
    BY <1>0, <1>2, BecomesTyped DEF Removed, Gone
  <2>2. mon' \in [OnDemand -> Monitor] /\ node' \in [OnDemand -> Node]
    BY <1>0, <1>2, NewTyped DEF Removed
  <2> QED BY <1>2, <2>1, <2>2 DEF Removed, SelfMonitorTypeOK
<1>3. CASE AsgTerminates(i)
  <2>1. GroupTypeOK'
    BY <1>0, <1>3, BecomesTyped DEF AsgTerminates, Terminates
  <2> QED BY <1>3, <2>1 DEF AsgTerminates, SelfMonitorTypeOK
<1>4. CASE Joins(i)
  <2>1. GroupTypeOK'
    BY <1>0, <1>4, BecomesTyped DEF Joins
  <2> QED BY <1>4, <2>1 DEF Joins, SelfMonitorTypeOK
<1> QED BY <1>1, <1>2, <1>3, <1>4 DEF Cloud

LEMMA WorldTyped ==
  ASSUME SelfMonitorTypeOK, WorldChanges
  PROVE  SelfMonitorTypeOK'
<1>0. GroupTypeOK
  BY DEF SelfMonitorTypeOK
<1>1. PICK what : Change(what)
  BY DEF WorldChanges
<1>2. changes' \in 0 .. MaxChanges
  BY <1>1, Limits DEF Change, SelfMonitorTypeOK
<1>3. GroupTypeOK'
  <2>1. CASE SupplyChanges
    BY <1>0, <2>1 DEF SupplyChanges, GroupTypeOK
  <2>2. CASE \E i \in Spot : Reclaimed(i)
    BY <1>0, <2>2, Limits, BecomesTyped DEF Reclaimed
  <2>3. CASE (\E i \in Spot : Becomes(i, {"ready"}, "notready")) /\ UNCHANGED <<desired, supply>>
    BY <1>0, <2>3, Limits, BecomesTyped
  <2>4. CASE UNCHANGED groupVars
    BY <1>0, <2>4 DEF groupVars, GroupTypeOK
  <2>5. CASE SetDesiredCapacity("ondemand", desired["ondemand"] + 1) /\ UNCHANGED <<state, supply>>
    BY <1>0, <2>5, Limits, SetTyped
  <2> QED BY <2>1, <2>2, <2>3, <2>4, <2>5 DEF WorldChanges
<1>4. cluster' \in {"room", "tight", "full", "blocked"}
  BY DEF WorldChanges, SelfMonitorTypeOK
<1> QED BY <1>1, <1>2, <1>3, <1>4 DEF Change, SelfMonitorTypeOK

LEMMA NodeTyped ==
  ASSUME SelfMonitorTypeOK, NEW i \in OnDemand, Restart(i) \/ PodScheduled(i)
  PROVE  SelfMonitorTypeOK'
<1>0. /\ mon \in [OnDemand -> Monitor] /\ node \in [OnDemand -> Node]
      /\ 0 \in 0 .. MinimumWait /\ 0 \in Never .. MinimumWait
      /\ node[i].stamp \in Never .. MinimumWait
  BY Limits DEF SelfMonitorTypeOK, Never, Node
<1>1. CASE Restart(i)
  <2>1. node[i].stamp # Never => node[i].stamp \in 0 .. MinimumWait
    BY <1>0, Limits DEF Never
  <2>2. mon' \in [OnDemand -> Monitor]
    BY <1>0, <1>1, <2>1, NewTyped DEF Restart
  <2>3. node' \in [OnDemand -> Node]
    BY <1>0, <1>1 DEF Restart, Node
  <2>4. faults' \in 0 .. MaxFaults
    BY <1>1, FaultTyped DEF Restart, SelfMonitorTypeOK
  <2>5. crashes' \in 0 .. MaxCrashes
    BY <1>1, Limits DEF Restart, SelfMonitorTypeOK
  <2> QED BY <1>1, <2>2, <2>3, <2>4, <2>5 DEF Restart, SelfMonitorTypeOK, GroupTypeOK, groupVars
<1>2. CASE PodScheduled(i)
  <2>0. [node[i] EXCEPT !.pods = TRUE] \in Node
    BY <1>0 DEF Node
  <2>1. node' \in [OnDemand -> Node]
    BY <1>0, <1>2, <2>0 DEF PodScheduled
  <2> QED BY <1>2, <2>1 DEF PodScheduled, SelfMonitorTypeOK, GroupTypeOK, groupVars, boundVars
<1> QED BY <1>1, <1>2

(* Every step keeps the types. *)
LEMMA StepTyped ==
  ASSUME SelfMonitorTypeOK, Next
  PROVE  SelfMonitorTypeOK'
  BY CheckTyped, NodeTyped, TickTyped, CloudTyped, WorldTyped DEF Next

LEMMA InitTyped ==
  ASSUME Init
  PROVE  SelfMonitorTypeOK
<1>1. ASSUME NEW g \in Groups
      PROVE  desired[g] \in MinSize[g] .. MaxSize[g] /\ desired[g] \in Nat
  <2>1. MinSize[g] \in Nat /\ MaxSize[g] \in Nat
    BY Limits
  <2> QED BY <2>1, GroupAssumption DEF Init, GroupInit
<1>2. GroupTypeOK
  BY <1>1 DEF Init, GroupInit, GroupTypeOK
<1>3. 0 \in 0 .. MinimumWait /\ 0 \in Never .. MinimumWait /\ Never \in Never .. MinimumWait
  BY Limits DEF Never
<1>4. mon \in [OnDemand -> Monitor] /\ node \in [OnDemand -> Node]
  BY <1>3, NewTyped DEF Init
<1> QED BY <1>2, <1>4, Limits DEF Init, SelfMonitorTypeOK

-----------------------------------------------------------------------------
Waiting == {"off", "idle", "verify", "clear"}

(* What one step of a check cycle does to its monitor and its node. *)
CheckEffect(i) ==
  /\ mon[i].pc # "off" /\ mon'[i].pc # "off"
  /\ mon'[i].elapsed = mon[i].elapsed
  /\ node'[i].age = node[i].age /\ node'[i].stamp = node[i].stamp
  /\ mon'[i].pc \in Waiting \/ mon[i].pc \notin Waiting \/ mon[i].elapsed >= MinimumWait
  /\ mon'[i].pc = "drain" => node'[i].closed
  /\ mon'[i].pc = "read" => mon[i].pc = "drain" /\ node'[i].closed = node[i].closed
                              /\ (DrainEvicts => ~node'[i].pods)
  /\ mon'[i].pc = "set" => mon[i].pc = "read" /\ node'[i] = node[i]
  /\ node'[i].closed => node[i].closed \/ mon[i].pc = "taint"

(* It leaves every other monitor, node and instance alone. *)
LEMMA CheckElsewhere ==
  ASSUME SelfMonitorTypeOK, NEW i \in OnDemand, checkAndScaleDown(i)
  PROVE  /\ state' = state
         /\ \A j \in OnDemand \ {i} : mon'[j] = mon[j] /\ node'[j] = node[j]
<1>0. mon \in [OnDemand -> Monitor] /\ node \in [OnDemand -> Node]
  BY DEF SelfMonitorTypeOK
<1>1. state' = state
  BY DEF checkAndScaleDown, CheckMarker, CheckSpot, CanSafelyDrainNode, CalculatePreScale,
         ScaleSpotASG, WaitForSpotNodesReady, FallbackLevel2, MarkScaleDownInitiated,
         TaintAndCordon, DrainNode, ReadDesired, SetDesired, WaitForThisNodeTermination,
         ClearScaleDownMarker, Abandons, MonitorOnly, NodeOnly, groupVars
<1>2. ASSUME NEW j \in OnDemand \ {i} PROVE node'[j] = node[j]
  BY <1>0 DEF checkAndScaleDown, CheckMarker, CheckSpot, CanSafelyDrainNode, CalculatePreScale,
         ScaleSpotASG, WaitForSpotNodesReady, FallbackLevel2, MarkScaleDownInitiated,
         TaintAndCordon, DrainNode, ReadDesired, SetDesired, WaitForThisNodeTermination,
         ClearScaleDownMarker, Abandons, MonitorOnly
<1>3. ASSUME NEW j \in OnDemand \ {i} PROVE mon'[j] = mon[j]
  BY <1>0 DEF checkAndScaleDown, CheckMarker, CheckSpot, CanSafelyDrainNode, CalculatePreScale,
         ScaleSpotASG, WaitForSpotNodesReady, FallbackLevel2, MarkScaleDownInitiated,
         TaintAndCordon, DrainNode, ReadDesired, SetDesired, WaitForThisNodeTermination,
         ClearScaleDownMarker, Abandons, Goto
<1> QED BY <1>1, <1>2, <1>3

LEMMA CheckOwn ==
  ASSUME SelfMonitorTypeOK, NEW i \in OnDemand, checkAndScaleDown(i)
  PROVE  CheckEffect(i)
<1>0. mon \in [OnDemand -> Monitor] /\ node \in [OnDemand -> Node]
  BY DEF SelfMonitorTypeOK
<1> USE <1>0 DEF CheckEffect, Waiting, Drained, At, Goto, Monitor, Node
<1>1. CASE Abandons(i) /\ mon[i].pc \notin Waiting
  BY <1>1 DEF Abandons, MonitorOnly
<1>2. CASE CheckMarker(i)
  BY <1>2 DEF CheckMarker, MonitorOnly
<1>3. CASE CheckSpot(i)
  BY <1>1, <1>3 DEF CheckSpot, MonitorOnly
<1>4. CASE CanSafelyDrainNode(i)
  BY <1>1, <1>4 DEF CanSafelyDrainNode, MonitorOnly
<1>5. CASE CalculatePreScale(i)
  BY <1>5 DEF CalculatePreScale, FallbackLevel2, MonitorOnly
<1>6. CASE ScaleSpotASG(i)
  BY <1>6 DEF ScaleSpotASG, FallbackLevel2, MonitorOnly
<1>7. CASE WaitForSpotNodesReady(i)
  BY <1>7 DEF WaitForSpotNodesReady, FallbackLevel2, MonitorOnly
<1>9. CASE MarkScaleDownInitiated(i)
  <2>1. /\ node'[i].age = node[i].age /\ node'[i].stamp = node[i].stamp
        /\ node'[i].closed = node[i].closed /\ node'[i].pods = node[i].pods
    BY <1>9 DEF MarkScaleDownInitiated
  <2>2. mon[i].pc = "jitter" /\ mon'[i].pc = "taint" /\ mon'[i].elapsed = mon[i].elapsed
    BY <1>9 DEF MarkScaleDownInitiated
  <2> QED BY <2>1, <2>2
<1>10. CASE TaintAndCordon(i)
  BY <1>1, <1>10 DEF TaintAndCordon
<1>11. CASE DrainNode(i) /\ ~Abandons(i)
  <2>1. node' = [node EXCEPT ![i].pods = @ /\ ~DrainEvicts] /\ Goto(i, "read") /\ At(i, "drain")
    BY <1>11 DEF DrainNode
  <2>2. /\ node'[i].age = node[i].age /\ node'[i].stamp = node[i].stamp
        /\ node'[i].closed = node[i].closed
        /\ node'[i].pods = (node[i].pods /\ ~DrainEvicts)
    BY <2>1
  <2>3. mon[i].pc = "drain" /\ mon'[i].pc = "read" /\ mon'[i].elapsed = mon[i].elapsed
    BY <2>1
  <2> QED BY <2>2, <2>3
<1>12. CASE ReadDesired(i)
  BY <1>1, <1>12 DEF ReadDesired, MonitorOnly
<1>13. CASE SetDesired(i)
  BY <1>1, <1>13 DEF SetDesired
<1>14. CASE WaitForThisNodeTermination(i)
  BY <1>14 DEF WaitForThisNodeTermination, MonitorOnly
<1>15. CASE ClearScaleDownMarker(i)
  <2>1. /\ node'[i].age = node[i].age /\ node'[i].stamp = node[i].stamp
        /\ node'[i].closed = node[i].closed /\ node'[i].pods = node[i].pods
    BY <1>15 DEF ClearScaleDownMarker
  <2>2. mon[i].pc = "clear" /\ mon'[i].pc = "idle" /\ mon'[i].elapsed = mon[i].elapsed
    BY <1>15 DEF ClearScaleDownMarker
  <2> QED BY <2>1, <2>2
<1>16. CASE DrainNode(i) /\ Abandons(i)
  BY <1>1, <1>16 DEF DrainNode
<1> QED BY <1>2, <1>3, <1>4, <1>5, <1>6, <1>7, <1>9, <1>10, <1>11, <1>12, <1>13,
           <1>14, <1>15, <1>16 DEF checkAndScaleDown

(* A node without a monitor, or with a new one. *)
LEMMA NewFields ==
  ASSUME NEW n, NEW t
  PROVE  /\ NewSelfMonitor(n).pc = "idle" /\ NewSelfMonitor(n).elapsed = n
         /\ NoMonitor.pc = "off" /\ NoMonitor.elapsed = 0
         /\ NewNode(t).age = 0 /\ NewNode(t).stamp = t /\ ~NewNode(t).closed
  BY DEF NewSelfMonitor, NoMonitor, NewNode

(* A monitor and a node that a step leaves alone keep their invariant. *)
LEMMA MonitorFrame ==
  ASSUME NEW j \in OnDemand, MonitorInv(j), mon'[j] = mon[j], node'[j] = node[j],
         state'[j] = "absent" <=> state[j] = "absent"
  PROVE  MonitorInv(j)'
  BY DEF MonitorInv, At, AtOneOf, Waited, Drained

LEMMA CheckKeeps ==
  ASSUME SelfMonitorTypeOK, NEW i \in OnDemand, MonitorInv(i), CheckEffect(i), state' = state,
         SelfMonitorTypeOK'
  PROVE  MonitorInv(i)'
<1>0. /\ mon[i].pc \in Labels /\ mon'[i].pc \in Labels
      /\ mon[i].elapsed \in Int /\ node[i].age \in Int /\ MinimumWait \in Int
  BY Limits DEF SelfMonitorTypeOK, Monitor, Node
<1>1. mon'[i].pc \notin Waiting => node'[i].age >= MinimumWait
  BY <1>0 DEF CheckEffect, MonitorInv, At, AtOneOf, Waited, Waiting
<1>2. /\ mon'[i].pc = "drain" => node'[i].closed
      /\ mon'[i].pc \in {"read", "set"} => node'[i].closed /\ (DrainEvicts => ~node'[i].pods)
  BY <1>0 DEF CheckEffect, MonitorInv, At, AtOneOf, Drained
<1>3. /\ mon'[i].pc = "off" <=> state'[i] = "absent"
      /\ mon'[i].elapsed <= node'[i].age /\ node'[i].stamp <= node'[i].age
  BY DEF CheckEffect, MonitorInv, At, AtOneOf
<1>4. node'[i].closed => node'[i].age >= MinimumWait
  BY <1>0 DEF CheckEffect, MonitorInv, At, AtOneOf, Waited
<1> QED BY <1>1, <1>2, <1>3, <1>4 DEF MonitorInv, At, AtOneOf, Waited, Drained, Waiting

LEMMA TickKeeps ==
  ASSUME SelfMonitorTypeOK, NEW i \in OnDemand, MonitorInv(i), Tick
  PROVE  MonitorInv(i)'
<1>1. CASE mon[i].pc = "off"
  BY <1>1, MonitorFrame DEF Tick, groupVars
<1>2. CASE mon[i].pc # "off"
  <2>0. mon[i] \in Monitor /\ node[i] \in Node
    BY DEF SelfMonitorTypeOK
  <2>1. /\ mon[i].elapsed \in 0 .. MinimumWait /\ node[i].age \in 0 .. MinimumWait
        /\ node[i].stamp \in Never .. MinimumWait
    BY <2>0 DEF Monitor, Node
  <2>2. /\ mon'[i].elapsed = Later(mon[i].elapsed, MinimumWait) /\ mon'[i].pc = mon[i].pc
        /\ node'[i].age = Later(node[i].age, MinimumWait)
        /\ node'[i].stamp = Later(node[i].stamp, MinimumWait)
        /\ node'[i].closed = node[i].closed /\ node'[i].pods = node[i].pods
    BY <1>2, <2>0 DEF Tick, Monitor, Node
  <2>3. state' = state
    BY DEF Tick, groupVars
  <2>4. mon[i].elapsed <= node[i].age /\ node[i].stamp <= node[i].age
    BY DEF MonitorInv
  <2>5. mon[i].elapsed \in Never .. MinimumWait /\ node[i].age \in Never .. MinimumWait
    BY <2>1, Limits DEF Never
  <2>6. /\ node[i].age \in mon[i].elapsed .. MinimumWait
        /\ node[i].age \in node[i].stamp .. MinimumWait
    BY <2>1, <2>4, Limits DEF Never
  <2>7. mon'[i].elapsed <= node'[i].age /\ node'[i].stamp <= node'[i].age
    BY <2>1, <2>2, <2>5, <2>6, Limits, LaterTyped
  <2>8. node'[i].age >= node[i].age /\ node'[i].age \in Int
    BY <2>2, <2>5, Limits, LaterTyped DEF Never
  <2>9. Waited(i) => Waited(i)'
    BY <2>1, <2>8, Limits DEF Waited
  <2> QED BY <2>2, <2>3, <2>7, <2>9 DEF MonitorInv, At, AtOneOf, Drained
<1> QED BY <1>1, <1>2

LEMMA RestartKeeps ==
  ASSUME SelfMonitorTypeOK, NEW i \in OnDemand, MonitorInv(i), Restart(i)
  PROVE  MonitorInv(i)'
<1>0. /\ mon \in [OnDemand -> Monitor] /\ node \in [OnDemand -> Node]
      /\ node[i].age \in 0 .. MinimumWait /\ node[i].stamp \in Never .. MinimumWait
  BY DEF SelfMonitorTypeOK, Node
<1>1. PICK n : /\ mon' = [mon EXCEPT ![i] = NewSelfMonitor(n)]
               /\ n = 0 \/ n = node[i].stamp
  BY DEF Restart
<1>2. mon'[i].pc = "idle" /\ mon'[i].elapsed = n
  BY <1>0, <1>1 DEF NewSelfMonitor
<1>3. /\ node'[i].age = node[i].age /\ (node'[i].stamp = node[i].stamp \/ node'[i].stamp = 0)
      /\ node'[i].closed = node[i].closed
  BY <1>0 DEF Restart, Node
<1>4. state' = state /\ mon[i].pc # "off" /\ node[i].stamp <= node[i].age
  BY DEF Restart, groupVars, MonitorInv
<1>5. n <= node'[i].age /\ node'[i].stamp <= node'[i].age
  BY <1>0, <1>1, <1>3, <1>4, Limits DEF Never
<1> QED BY <1>2, <1>3, <1>4, <1>5 DEF MonitorInv, At, AtOneOf, Waited

LEMMA PodScheduledKeeps ==
  ASSUME SelfMonitorTypeOK, NEW i \in OnDemand, MonitorInv(i), PodScheduled(i)
  PROVE  MonitorInv(i)'
<1>0. node \in [OnDemand -> Node]
  BY DEF SelfMonitorTypeOK
<1>1. /\ node'[i].age = node[i].age /\ node'[i].stamp = node[i].stamp
      /\ node'[i].closed = node[i].closed /\ ~node[i].closed
      /\ mon' = mon /\ state' = state
  BY <1>0 DEF PodScheduled, Node, groupVars
<1> QED BY <1>1 DEF MonitorInv, At, AtOneOf, Waited, Drained

(* An on-demand instance that joins or goes has a new monitor, or none. *)
LEMMA CloudKeeps ==
  ASSUME SelfMonitorTypeOK, NEW i \in Instances, Cloud(i), NEW j \in OnDemand, MonitorInv(j)
  PROVE  MonitorInv(j)'
<1>0. /\ mon \in [OnDemand -> Monitor] /\ node \in [OnDemand -> Node]
      /\ DOMAIN state = Instances /\ j \in Instances
  BY Limits DEF SelfMonitorTypeOK, GroupTypeOK
<1>1. CASE j # i
  <2>1. mon'[j] = mon[j] /\ node'[j] = node[j]
    BY <1>0, <1>1 DEF Cloud, Launched, Removed, AsgTerminates, Joins
  <2>2. state'[j] = state[j]
    BY <1>0, <1>1 DEF Cloud, Launched, Launches, Removed, Gone, AsgTerminates, Terminates,
                      Joins, Becomes
  <2> QED BY <2>1, <2>2, MonitorFrame
<1>2. CASE j = i /\ Launched(i)
  <2>1. mon'[i] = NewSelfMonitor(0) /\ (node'[i] = NewNode(0) \/ node'[i] = NewNode(Never))
    BY <1>0, <1>2 DEF Launched
  <2>2. state'[i] = "starting"
    BY <1>0, <1>2 DEF Launched, Launches, Becomes
  <2>3. /\ mon'[i].pc = "idle" /\ mon'[i].elapsed = 0
        /\ node'[i].age = 0 /\ node'[i].stamp \in {0, Never} /\ ~node'[i].closed
    BY <2>1, NewFields
  <2>4. mon'[i].elapsed <= node'[i].age /\ node'[i].stamp <= node'[i].age
    BY <2>3 DEF Never
  <2> QED BY <1>2, <2>2, <2>3, <2>4 DEF MonitorInv, At, AtOneOf
<1>3. CASE j = i /\ Removed(i)
  <2>1. mon'[i] = NoMonitor /\ node'[i] = NewNode(Never)
    BY <1>0, <1>3 DEF Removed
  <2>2. state'[i] = "absent"
    BY <1>0, <1>3 DEF Removed, Gone, Becomes
  <2>3. /\ mon'[i].pc = "off" /\ mon'[i].elapsed = 0
        /\ node'[i].age = 0 /\ node'[i].stamp = Never /\ ~node'[i].closed
    BY <2>1, NewFields
  <2>4. mon'[i].elapsed <= node'[i].age /\ node'[i].stamp <= node'[i].age
    BY <2>3 DEF Never
  <2> QED BY <1>3, <2>2, <2>3, <2>4 DEF MonitorInv, At, AtOneOf
<1>4. CASE j = i /\ (AsgTerminates(i) \/ Joins(i))
  <2>1. mon' = mon /\ node' = node
    BY <1>4 DEF AsgTerminates, Joins
  <2>2. state[i] # "absent" /\ state'[i] # "absent"
    BY <1>0, <1>4 DEF AsgTerminates, Terminates, Joins, Becomes
  <2> QED BY <1>4, <2>1, <2>2, MonitorFrame
<1> QED BY <1>1, <1>2, <1>3, <1>4 DEF Cloud

(* The rest of the world only touches spot instances. *)
LEMMA WorldElsewhere ==
  ASSUME SelfMonitorTypeOK, WorldChanges, NEW j \in OnDemand
  PROVE  mon' = mon /\ node' = node /\ state'[j] = state[j]
<1>0. DOMAIN state = Instances /\ j \in Instances /\ j \notin Spot
  BY Limits, GroupAssumption DEF SelfMonitorTypeOK, GroupTypeOK
<1>1. mon' = mon /\ node' = node
  BY DEF WorldChanges, Change
<1> QED BY <1>0, <1>1 DEF WorldChanges, SupplyChanges, Reclaimed, Becomes, groupVars

(* Every step keeps the invariant of every monitor. *)
LEMMA StepKeeps ==
  ASSUME SelfMonitorTypeOK, \A i \in OnDemand : MonitorInv(i), Next, NEW j \in OnDemand
  PROVE  MonitorInv(j)'
<1>1. ASSUME NEW i \in OnDemand, checkAndScaleDown(i) PROVE MonitorInv(j)'
  <2>1. CASE i = j
    BY <1>1, <2>1, CheckElsewhere, CheckOwn, CheckTyped, CheckKeeps
  <2>2. CASE i # j
    BY <1>1, <2>2, CheckElsewhere, MonitorFrame
  <2> QED BY <2>1, <2>2
<1>2. ASSUME NEW i \in OnDemand, Restart(i) \/ PodScheduled(i) PROVE MonitorInv(j)'
  <2>1. CASE i = j
    BY <1>2, <2>1, RestartKeeps, PodScheduledKeeps
  <2>2. CASE i # j
    <3>1. mon'[j] = mon[j] /\ node'[j] = node[j]
      BY <1>2, <2>2 DEF Restart, PodScheduled, SelfMonitorTypeOK
    <3>2. state' = state
      BY <1>2 DEF Restart, PodScheduled, groupVars
    <3> QED BY <3>1, <3>2, MonitorFrame
  <2> QED BY <2>1, <2>2
<1>3. CASE Tick
  BY <1>3, TickKeeps
<1>4. CASE \E i \in Instances : Cloud(i)
  BY <1>4, CloudKeeps
<1>5. CASE WorldChanges
  BY <1>5, WorldElsewhere, MonitorFrame
<1> QED BY <1>1, <1>2, <1>3, <1>4, <1>5 DEF Next

LEMMA InitKeeps ==
  ASSUME Init, NEW j \in OnDemand
  PROVE  MonitorInv(j)
<1>1. mon[j] = IF j \in InitRunning THEN NewSelfMonitor(0) ELSE NoMonitor
  BY DEF Init
<1>2. node[j] = NewNode(IF j \in InitRunning THEN 0 ELSE Never)
  BY DEF Init
<1>3. state[j] = IF j \in InitRunning THEN "ready" ELSE "absent"
  BY Limits DEF Init, GroupInit
<1>4. /\ mon[j].pc = IF j \in InitRunning THEN "idle" ELSE "off"
      /\ mon[j].elapsed = 0 /\ node[j].age = 0 /\ node[j].stamp \in {0, Never}
      /\ ~node[j].closed
  BY <1>1, <1>2, NewFields
<1>5. mon[j].elapsed <= node[j].age /\ node[j].stamp <= node[j].age
  BY <1>4 DEF Never
<1> QED BY <1>3, <1>4, <1>5 DEF MonitorInv, At, AtOneOf

-----------------------------------------------------------------------------
(* Only decreaseASGCapacity, after the drain, and a fallback write the desired *)
(* capacity of the on-demand group.                                            *)
LEMMA CapacityWriters ==
  ASSUME SelfMonitorTypeOK, Next, desired'["ondemand"] # desired["ondemand"]
  PROVE  \/ \E i \in OnDemand : At(i, "set") /\ node' = node /\ state' = state
         \/ desired'["ondemand"] = desired["ondemand"] + 1 /\ node' = node /\ state' = state
<1>0. desired \in [Groups -> Nat] /\ "spot" \in Groups /\ "ondemand" \in Groups
  BY Limits DEF SelfMonitorTypeOK, GroupTypeOK
<1>1. ASSUME NEW i \in OnDemand, checkAndScaleDown(i)
      PROVE  At(i, "set") /\ node' = node /\ state' = state
  <2>1. CASE SetDesired(i)
    BY <2>1 DEF SetDesired, Abandons, MonitorOnly, NodeOnly, groupVars
  <2>2. CASE ScaleSpotASG(i)
    BY <1>0, <2>2 DEF ScaleSpotASG, SetDesiredCapacity, MonitorOnly, NodeOnly, groupVars
  <2>3. CASE ~SetDesired(i) /\ ~ScaleSpotASG(i)
    BY <1>1, <2>3 DEF checkAndScaleDown, CheckMarker, CheckSpot, CanSafelyDrainNode,
         CalculatePreScale, WaitForSpotNodesReady, FallbackLevel2, MarkScaleDownInitiated,
         TaintAndCordon, DrainNode, ReadDesired, WaitForThisNodeTermination,
         ClearScaleDownMarker, Abandons, MonitorOnly, NodeOnly, groupVars
  <2> QED BY <2>1, <2>2, <2>3
<1>2. CASE WorldChanges
  BY <1>0, <1>2 DEF WorldChanges, Change, SupplyChanges, Reclaimed, SetDesiredCapacity, groupVars
<1>3. CASE \E i \in Instances : Cloud(i)
  BY <1>3 DEF Cloud, Launched, Launches, Removed, Gone, AsgTerminates, Terminates, Joins
<1>4. CASE Tick \/ \E i \in OnDemand : Restart(i) \/ PodScheduled(i)
  BY <1>4 DEF Tick, Restart, PodScheduled, groupVars
<1> QED BY <1>1, <1>2, <1>3, <1>4 DEF Next

-----------------------------------------------------------------------------
(* SelfMonitorInv holds, whatever the number of nodes, the durations, the      *)
(* failed calls and the restarts of the pods.                                  *)
THEOREM SelfMonitorInvariance == Spec => []SelfMonitorInv
<1>1. Init => SelfMonitorInv
  BY InitTyped, InitKeeps DEF SelfMonitorInv
<1>2. SelfMonitorInv /\ [Next]_vars => SelfMonitorInv'
  <2> SUFFICES ASSUME SelfMonitorInv, [Next]_vars PROVE SelfMonitorInv'
    OBVIOUS
  <2>1. CASE Next
    BY <2>1, StepTyped, StepKeeps DEF SelfMonitorInv
  <2>2. CASE UNCHANGED vars
    <3> USE <2>2 DEF vars, groupVars, boundVars
    <3>1. SelfMonitorTypeOK'
      BY DEF SelfMonitorInv, SelfMonitorTypeOK, GroupTypeOK
    <3>2. \A i \in OnDemand : MonitorInv(i)'
      BY DEF SelfMonitorInv, MonitorInv, At, AtOneOf, Waited, Drained
    <3> QED BY <3>1, <3>2 DEF SelfMonitorInv
  <2> QED BY <2>1, <2>2
<1> QED BY <1>1, <1>2, PTL DEF Spec

(* No node is tainted or cordoned for its scale-down before it has run for the *)
(* minimum wait, however often its pod restarted (getOrCreateStartTime).       *)
THEOREM WaitIsKept == Spec => []MinimumWaitKept
<1>1. SelfMonitorInv => MinimumWaitKept
  BY DEF SelfMonitorInv, MonitorInv, MinimumWaitKept
<1> QED BY <1>1, SelfMonitorInvariance, PTL

(* With any number of nodes, decreaseASGCapacity is only called by a monitor   *)
(* whose own node is there and closed, and empty too unless the pods are       *)
(* listed from the cache of the API server.                                    *)
THEOREM LoweringIsEarned == Spec => LoweredOnlyAfterDrain
<1> DEFINE Earned ==
      desired'["ondemand"] < desired["ondemand"]
        => \E i \in OnDemand :
             At(i, "set") /\ state[i] # "absent" /\ Drained(i)
<1>1. SelfMonitorInv /\ [Next]_vars => [Earned]_vars
  <2> SUFFICES ASSUME SelfMonitorInv, Next, desired'["ondemand"] < desired["ondemand"]
               PROVE  \E i \in OnDemand :
                        At(i, "set") /\ state[i] # "absent" /\ Drained(i)
    OBVIOUS
  <2>0. desired["ondemand"] \in Nat
    BY Limits DEF SelfMonitorInv, SelfMonitorTypeOK, GroupTypeOK
  <2>1. PICK i \in OnDemand : At(i, "set")
    BY <2>0, CapacityWriters DEF SelfMonitorInv
  <2> QED BY <2>1 DEF SelfMonitorInv, MonitorInv, At, AtOneOf, Labels
<1> QED BY <1>1, SelfMonitorInvariance, PTL DEF Spec, LoweredOnlyAfterDrain

-----------------------------------------------------------------------------
(* The inputs of both calculations are natural numbers.                    *)
LEMMA PreScaleInputs ==
  ASSUME NEW q \in PreScaleQuestion
  PROVE  /\ q.spot \in Nat /\ q.ondemand \in Nat
         /\ q.util \in Nat /\ q.target \in Nat /\ q.buffer \in Nat
<1>1. q.spot \in 0 .. MaxNodes /\ q.ondemand \in 0 .. MaxNodes
  BY DEF PreScaleQuestion
<1>2. q.util \in Percentages /\ q.target \in Percentages /\ q.buffer \in Percentages
  BY DEF PreScaleQuestion
<1>3. q.spot \in Nat /\ q.ondemand \in Nat
  BY <1>1, CapacityAssumption
<1>4. q.util \in Nat /\ q.target \in Nat /\ q.buffer \in Nat
  BY <1>2, CapacityAssumption
<1> QED
  BY <1>3, <1>4

(* So are those of the buffer check, hasClusterCapacityBuffer.             *)
LEMMA BufferInputs ==
  ASSUME NEW q \in BufferQuestion
  PROVE  /\ q.cpu \in Nat /\ q.otherCpu \in Nat /\ q.mem \in Nat /\ q.otherMem \in Nat
         /\ q.usedCpu \in Nat /\ q.usedMem \in Nat /\ q.limit \in Nat
<1>1. /\ q.cpu \in 1 .. MaxAmount /\ q.mem \in 1 .. MaxAmount
      /\ q.otherCpu \in 0 .. MaxAmount /\ q.otherMem \in 0 .. MaxAmount
      /\ q.usedCpu \in 0 .. MaxAmount /\ q.usedMem \in 0 .. MaxAmount
  BY DEF BufferQuestion
<1>2. q.limit \in Percentages
  BY DEF BufferQuestion
<1>3. q.limit \in Nat
  BY <1>2, CapacityAssumption
<1> QED
  BY <1>1, <1>3, CapacityAssumption

(* Multiplying by a natural number keeps the order.                        *)
LEMMA Monotone ==
  ASSUME NEW a \in Int, NEW b \in Int, NEW c \in Nat, a <= b
  PROVE  a * c <= b * c
BY Z3

(* A rounded-up quotient times the divisor reaches the dividend.           *)
LEMMA CeilingReaches ==
  ASSUME NEW a \in Nat, NEW b \in Nat, NEW n \in Ceilings(a, b)
  PROVE  n \in Nat /\ n * b >= a
BY DEF Ceilings

(* The buffer never takes away a node (Buffered in                         *)
(* CalculatePreScaleNodes).                                                *)
LEMMA BufferAdds ==
  ASSUME NEW q, q.buffer \in Nat, NEW k \in Int, NEW n \in Buffered(q, k)
  PROVE  n \in Int /\ n >= k
<1>1. CASE q.buffer > 0 /\ k > 0
  <2> DEFINE a == k * (100 + q.buffer)
  <2>1. k \in Nat /\ 100 + q.buffer \in Nat
    BY <1>1
  <2>2. a \in Nat
    BY <2>1
  <2>3. n \in Ceilings(a, 100)
    BY <1>1 DEF Buffered
  <2>4. n \in Nat /\ n * 100 >= a
    BY <2>2, <2>3, CeilingReaches
  <2>5. 100 * k <= (100 + q.buffer) * k
    BY <2>1, Monotone
  <2>6. k * (100 + q.buffer) = (100 + q.buffer) * k
    BY <2>1
  <2> QED
    BY <2>1, <2>2, <2>4, <2>5, <2>6
<1>2. CASE ~(q.buffer > 0 /\ k > 0)
  BY <1>2 DEF Buffered
<1> QED
  BY <1>1, <1>2

(* Above the target, the nodes asked for are more than the group has, and  *)
(* no fewer than the workload requires.                                    *)
LEMMA NeededEnough ==
  ASSUME NEW q \in PreScaleQuestion, q.util > q.target,
         NEW n \in NodesNeeded(q)
  PROVE  /\ n \in Int /\ n >= q.spot + 1
         /\ \E r \in Required(q) : n >= r
<1>1. q.spot \in Nat /\ q.ondemand \in Nat /\ q.util \in Nat
        /\ q.target \in Nat /\ q.buffer \in Nat
  BY PreScaleInputs
<1>2. PICK m \in Additional(q) : n = q.spot + m
  BY <1>1 DEF NodesNeeded
<1>3. PICK r \in Required(q) :
        m \in {IF k < 1 THEN 1 ELSE k : k \in Buffered(q, r - q.spot)}
  BY <1>2 DEF Additional
<1>4. PICK k \in Buffered(q, r - q.spot) : m = IF k < 1 THEN 1 ELSE k
  BY <1>3
<1>5. r \in Int
  BY DEF Required, Ceilings
<1>6. k \in Int /\ k >= r - q.spot
  BY <1>1, <1>4, <1>5, BufferAdds
<1> QED
  BY <1>1, <1>2, <1>3, <1>4, <1>5, <1>6

(* CalculatePreScaleNodes asks for enough spot nodes.                      *)
LEMMA NeededCarriesWorkload ==
  ASSUME NEW q \in PreScaleQuestion, q.util > q.target,
         NEW n \in NodesNeeded(q)
  PROVE  n * q.target >= (q.spot + q.ondemand) * q.util
<1>1. q.spot \in Nat /\ q.ondemand \in Nat /\ q.util \in Nat
        /\ q.target \in Nat
  BY PreScaleInputs
<1> DEFINE a == (q.spot + q.ondemand) * q.util
<1>2. a \in Nat
  BY <1>1
<1>3. n \in Int
  BY NeededEnough
<1>4. PICK r \in Required(q) : n >= r
  BY NeededEnough
<1>5. r \in Nat /\ r * q.target >= a
  BY <1>1, <1>2, CeilingReaches DEF Required
<1>6. r * q.target <= n * q.target
  BY <1>1, <1>3, <1>4, <1>5, Monotone
<1>7. n * q.target \in Int /\ r * q.target \in Int
  BY <1>1, <1>3, <1>5
<1> HIDE DEF a
<1>8. n * q.target >= a
  BY <1>2, <1>5, <1>6, <1>7
<1> QED
  BY <1>8 DEF a

(* What does not exceed the limit of what remains fits the other nodes,    *)
(* which have at least that.                                               *)
LEMMA NotExceedingFits ==
  ASSUME NEW used \in Nat, NEW others \in Nat, NEW limit \in Nat, NEW rest \in Int,
         rest >= 0, rest <= others, ~Exceeds(used, rest, limit)
  PROVE  Fits(used, others, limit)
<1>1. used * 100 <= limit * rest
  <2>1. CASE rest = 0
    <3>1. used = 0 /\ limit * rest = 0
      BY <2>1 DEF Exceeds
    <3> QED BY <3>1
  <2>2. CASE rest > 0
    <3>1. limit * rest \in Int
      OBVIOUS
    <3> QED BY <2>2, <3>1 DEF Exceeds
  <2> QED BY <2>1, <2>2
<1>2. rest * limit <= others * limit
  BY Monotone
<1>3. limit * rest = rest * limit /\ limit * others = others * limit
  OBVIOUS
<1>4. limit * rest \in Int /\ limit * others \in Int
  OBVIOUS
<1> QED BY <1>1, <1>2, <1>3, <1>4 DEF Fits

(* Where a utilisation is meaningful, a passed check means room, for a     *)
(* ready node and for one that is not.                                     *)
LEMMA BufferSound ==
  ASSUME NEW q \in BufferQuestion, Meaningful(q), HasClusterCapacityBuffer(q)
  PROVE  /\ Fits(q.usedCpu, q.otherCpu, q.limit)
         /\ Fits(q.usedMem, q.otherMem, q.limit)
<1>1. /\ q.cpu \in Nat /\ q.otherCpu \in Nat /\ q.mem \in Nat /\ q.otherMem \in Nat
      /\ q.usedCpu \in Nat /\ q.usedMem \in Nat /\ q.limit \in Nat
  BY BufferInputs
<1>2. RemainingCPU(q) \in Int /\ RemainingCPU(q) <= q.otherCpu /\ RemainingCPU(q) >= 0
  BY <1>1 DEF RemainingCPU, Remaining, Meaningful
<1>3. /\ RemainingMemory(q) \in Int /\ RemainingMemory(q) <= q.otherMem
      /\ RemainingMemory(q) >= 0
  BY <1>1 DEF RemainingMemory, Remaining, Meaningful
<1>4. ~NotANumber(q.usedCpu, RemainingCPU(q))
  BY <1>1 DEF NotANumber, Meaningful
<1>5. /\ ~Exceeds(q.usedCpu, RemainingCPU(q), q.limit)
      /\ ~Exceeds(q.usedMem, RemainingMemory(q), q.limit)
  BY <1>4 DEF HasClusterCapacityBuffer
<1> QED
  BY <1>1, <1>2, <1>3, <1>5, NotExceedingFits

-----------------------------------------------------------------------------
(* What the specification keeps: the question is an input of the code, and *)
(* the answer is one the code computes for it.                             *)
CapacityInv ==
  /\ question \in PreScaleQuestion \cup BufferQuestion
  /\ PreScaled => nodes \in NodesNeeded(question)
  /\ HasRoom => HasClusterCapacityBuffer(question)

(* Every answer given is the one the code's calculation gives for the      *)
(* question asked.                                                         *)
THEOREM CapacityInvariance == CapacitySpec => []CapacityInv
<1>1. CapacityInit => CapacityInv
  BY DEF CapacityInit, CapacityInv, PreScaled, HasRoom
<1>2. CapacityInv /\ [CapacityNext]_capacityVars => CapacityInv'
  <2> SUFFICES ASSUME CapacityInv, [CapacityNext]_capacityVars
               PROVE  CapacityInv'
    OBVIOUS
  <2>1. CASE CapacityNext
    <3>1. UNCHANGED question
      BY <2>1 DEF CapacityNext
    <3>2. CASE CalculatePreScaleNodes
      BY <3>1, <3>2 DEF CapacityInv, CalculatePreScaleNodes, PreScaled, HasRoom
    <3>3. CASE CheckBuffer
      BY <3>1, <3>3 DEF CapacityInv, CheckBuffer, PreScaled, HasRoom
    <3> QED
      BY <2>1, <3>2, <3>3 DEF CapacityNext
  <2>2. CASE UNCHANGED capacityVars
    BY <2>2 DEF capacityVars, CapacityInv, PreScaled, HasRoom
  <2> QED
    BY <2>1, <2>2
<1> QED
  BY <1>1, <1>2, PTL DEF CapacitySpec

(* Above the target, the pre-scale of CalculatePreScaleNodes is enough for *)
(* the whole workload, for every input.                                    *)
THEOREM PreScaleIsEnough == CapacitySpec => []PreScaleSuffices
<1>1. CapacityInv => PreScaleSuffices
  <2> SUFFICES ASSUME CapacityInv, PreScaled, question.util > question.target
               PROVE  nodes * question.target
                        >= (question.spot + question.ondemand) * question.util
    BY DEF PreScaleSuffices
  <2>1. question \in PreScaleQuestion
    BY DEF CapacityInv, PreScaled, BufferQuestion
  <2>2. nodes \in NodesNeeded(question)
    BY DEF CapacityInv
  <2> QED
    BY <2>1, <2>2, NeededCarriesWorkload
<1> QED
  BY <1>1, CapacityInvariance, PTL

(* CalculatePreScaleNodes never asks for fewer nodes than the group has.   *)
THEOREM PreScaleOnlyGrows == CapacitySpec => []PreScaleNeverShrinks
<1>1. CapacityInv => PreScaleNeverShrinks
  <2> SUFFICES ASSUME CapacityInv, PreScaled
               PROVE  nodes >= question.spot +
                        (IF question.util > question.target THEN 1 ELSE 0)
    BY DEF PreScaleNeverShrinks
  <2>1. question \in PreScaleQuestion
    BY DEF CapacityInv, PreScaled, BufferQuestion
  <2>2. nodes \in NodesNeeded(question)
    BY DEF CapacityInv
  <2>3. question.spot \in Nat /\ question.util \in Nat /\ question.target \in Nat
    BY <2>1, PreScaleInputs
  <2>4. CASE question.util > question.target
    BY <2>1, <2>2, <2>3, <2>4, NeededEnough
  <2>5. CASE question.util <= question.target
    BY <2>2, <2>3, <2>5 DEF NodesNeeded
  <2> QED
    BY <2>3, <2>4, <2>5
<1> QED
  BY <1>1, CapacityInvariance, PTL

(* What hasClusterCapacityBuffer lets pass has room on the other ready     *)
(* nodes, for every input whose utilisation is meaningful.                 *)
THEOREM BufferIsRoom == CapacitySpec => []BufferMeansRoom
<1>1. CapacityInv => BufferMeansRoom
  <2> SUFFICES ASSUME CapacityInv, HasRoom, Meaningful(question)
               PROVE  /\ Fits(question.usedCpu, question.otherCpu, question.limit)
                      /\ Fits(question.usedMem, question.otherMem, question.limit)
    BY DEF BufferMeansRoom
  <2>1. question \in BufferQuestion
    BY DEF CapacityInv, HasRoom, PreScaleQuestion
  <2>2. HasClusterCapacityBuffer(question)
    BY DEF CapacityInv
  <2> QED
    BY <2>1, <2>2, BufferSound
<1> QED
  BY <1>1, CapacityInvariance, PTL

=============================================================================
