--------------------------- MODULE ScaleUp_proofs ---------------------------
(***************************************************************************)
(* Proofs about Spot Guard's scale-up for every number of pods, every pair *)
(* of groups and every pattern of outages, losses and shortages.           *)
(*                                                                         *)
(* PodInv is the strengthening.  A pod asks a group at most once, and what *)
(* it is about to ask for is one more than the requests counted so far     *)
(* account for; while it waits without a new instance, the group has no    *)
(* more instances in service than it started from.                         *)
(***************************************************************************)
EXTENDS ScaleUp, FiniteSetTheorems, TLAPS

Initially(g) == Cardinality(InitRunning \cap Members(g))

PodInv(p) ==
  /\ result[p] \in Groups => arrived[p] /\ pc[p] \in {"taint", "done"}
  /\ (pc[p] = "wait" /\ ~arrived[p]) => InServiceCount(group[p]) <= initial[p]
  /\ pc[p] \in {"idle", "describe", "set"} => p \notin requests[group[p]]
  /\ (pc[p] = "idle" \/ group[p] = "spot") => p \notin requests["ondemand"]
  /\ pc[p] = "idle" => group[p] = "spot"
  /\ pc[p] = "set" =>
       target[p] <= Initially(group[p]) + Cardinality(requests[group[p]]) + 1

ScaleUpInv ==
  /\ ScaleUpTypeOK
  /\ \A g \in Groups : IsFiniteSet(requests[g])
  /\ GrowthBounded
  /\ \A p \in Pods : PodInv(p)

LEMMA Bounds == MaxOutages \in Nat /\ MaxLosses \in Nat /\ MaxShortages \in Nat
  BY ScaleUpAssumption

(* The instances of a group can be counted, before and after a step. *)
LEMMA Countable ==
  ASSUME NEW g \in Groups
  PROVE  /\ IsFiniteSet(Members(g)) /\ Initially(g) \in Nat
         /\ IsFiniteSet(InService(g)) /\ InServiceCount(g) \in Nat
         /\ IsFiniteSet(InService(g)') /\ InServiceCount(g)' \in Nat
         /\ MinSize[g] \in Nat /\ MaxSize[g] \in Nat
<1>1. Members(g) \subseteq Instances
  BY DEF Members, Instances
<1>2. IsFiniteSet(Members(g))
  BY <1>1, GroupAssumption, FS_Subset
<1>3. IsFiniteSet(InService(g)) /\ IsFiniteSet(InService(g)')
  BY <1>2, FS_Subset DEF InService
<1>4. IsFiniteSet(InitRunning \cap Members(g))
  BY <1>2, FS_Subset
<1> QED BY <1>2, <1>3, <1>4, FS_CardinalityType, GroupAssumption
        DEF InServiceCount, Initially

(* When no instance of a group comes into service, its count does not grow. *)
LEMMA CountShrinks ==
  ASSUME NEW g \in Groups, InService(g)' \subseteq InService(g)
  PROVE  InServiceCount(g)' <= InServiceCount(g)
  BY Countable, FS_Subset DEF InServiceCount

LEMMA InitInv == Init => ScaleUpInv
<1> SUFFICES ASSUME Init PROVE ScaleUpInv
  OBVIOUS
<1>1. GroupTypeOK
  <2>1. \A g \in Groups : desired[g] \in MinSize[g] .. MaxSize[g] /\ desired[g] \in Nat
    BY Countable, GroupAssumption DEF Init, GroupInit, Initially
  <2>2. desired \in [Groups -> Nat]
    BY <2>1 DEF Init, GroupInit
  <2> QED BY <2>1, <2>2 DEF Init, GroupInit, GroupTypeOK
<1>2. ScaleUpTypeOK
  <2>1. /\ seen \in [Pods -> BOOLEAN] /\ tainted \in [Pods -> BOOLEAN]
        /\ arrived \in [Pods -> BOOLEAN] /\ outage \in BOOLEAN
    BY DEF Init
  <2>2. /\ group \in [Pods -> Groups]
        /\ result \in [Pods -> Groups \cup {"none", "failed"}]
        /\ requests \in [Groups -> SUBSET Pods] /\ recent \subseteq Groups
    BY DEF Init, Groups
  <2>3. /\ outages \in 0 .. MaxOutages
        /\ losses \in 0 .. MaxLosses /\ shortages \in 0 .. MaxShortages
    BY Bounds DEF Init
  <2> QED BY <1>1, <2>1, <2>2, <2>3 DEF Init, ScaleUpTypeOK
<1>3. \A g \in Groups : IsFiniteSet(requests[g]) /\ Cardinality(requests[g]) = 0
  BY FS_EmptySet DEF Init
<1>4. GrowthBounded
  <2> SUFFICES ASSUME NEW g \in Groups
               PROVE  desired[g] <= Initially(g) + Cardinality(requests[g])
    BY DEF GrowthBounded, Initially
  <2>1. desired[g] = Initially(g)
    BY DEF Init, GroupInit, Initially
  <2> QED BY <1>3, <2>1, Countable
<1>5. \A p \in Pods : PodInv(p)
  BY DEF Init, PodInv, Groups
<1> QED BY <1>2, <1>3, <1>4, <1>5 DEF ScaleUpInv

(* SetDesiredCapacity keeps the capacity within the limits of the group. *)
LEMMA SetTyped ==
  ASSUME GroupTypeOK, NEW g \in Groups, NEW n, SetDesiredCapacity(g, n),
         UNCHANGED <<state, supply>>
  PROVE  GroupTypeOK'
<1>1. n \in MinSize[g] .. MaxSize[g] /\ n \in Nat
  BY Countable DEF SetDesiredCapacity, Accepts
<1> QED BY <1>1 DEF GroupTypeOK, SetDesiredCapacity

(* A failed scale-up changes nothing but the pod's own variables. *)
LEMMA FailsTyped ==
  ASSUME ScaleUpTypeOK, NEW p \in Pods, Fails(p)
  PROVE  ScaleUpTypeOK'
<1> USE DEF groupVars, boundVars
<1>0. GroupTypeOK' /\ "spot" \in Groups /\ "ondemand" \in Groups
  BY DEF Fails, ScaleUpTypeOK, GroupTypeOK, Groups
<1>1. UNCHANGED <<target, initial, tainted, recent, requests, outage, boundVars>>
  BY DEF Fails
<1>2. CASE group[p] = "spot" /\ Baseline(p, "ondemand") /\ UNCHANGED result
  <2>1. (("ondemand" \in recent)) \in BOOLEAN
    OBVIOUS
  <2> QED BY <1>0, <1>1, <1>2 DEF Baseline, ScaleUpTypeOK
<1>3. CASE /\ group[p] = "ondemand" /\ Goto(p, "taint")
           /\ result' = [result EXCEPT ![p] = "failed"]
           /\ UNCHANGED <<group, seen, arrived>>
  BY <1>0, <1>1, <1>3 DEF Goto, ScaleUpTypeOK
<1> QED BY <1>2, <1>3 DEF Fails

(* Every step keeps the types. *)
LEMMA TypesKept ==
  ASSUME ScaleUpTypeOK, [Next]_vars
  PROVE  ScaleUpTypeOK'
<1> USE Bounds DEF groupVars, podVars, historyVars, boundVars
<1>0. "spot" \in Groups /\ "ondemand" \in Groups
  BY DEF Groups
<1>1. ASSUME NEW p \in Pods, ScaleUpWithFallback(p) PROVE ScaleUpTypeOK'
  BY <1>0, <1>1 DEF ScaleUpWithFallback, Baseline, ScaleUpTypeOK, GroupTypeOK
<1>2. ASSUME NEW p \in Pods, DescribeASG(p) PROVE ScaleUpTypeOK'
  <2>1. desired[group[p]] + 1 \in Nat
    BY DEF ScaleUpTypeOK, GroupTypeOK
  <2>2. CASE Fails(p)
    BY <2>2, FailsTyped
  <2>3. CASE ~Fails(p)
    BY <1>2, <2>1, <2>3 DEF DescribeASG, Goto, ScaleUpTypeOK, GroupTypeOK
  <2> QED BY <2>2, <2>3
<1>3. ASSUME NEW p \in Pods, SetDesired(p) PROVE ScaleUpTypeOK'
  <2>1. CASE Fails(p)
    BY <2>1, FailsTyped
  <2>2. CASE ~Fails(p)
    <3>1. GroupTypeOK'
      BY <1>3, <2>2, SetTyped DEF SetDesired, ScaleUpTypeOK
    <3>2. group[p] \in Groups /\ requests[group[p]] \cup {p} \subseteq Pods
      BY DEF ScaleUpTypeOK
    <3> QED BY <1>3, <2>2, <3>1, <3>2 DEF SetDesired, Goto, ScaleUpTypeOK
  <2> QED BY <2>1, <2>2
<1>4. ASSUME NEW p \in Pods, InitialCount(p) PROVE ScaleUpTypeOK'
  <2>1. InServiceCount(group[p]) \in Nat
    BY Countable DEF ScaleUpTypeOK
  <2>2. CASE Fails(p)
    BY <2>2, FailsTyped
  <2>3. CASE ~Fails(p)
    BY <1>4, <2>1, <2>3 DEF InitialCount, Goto, ScaleUpTypeOK, GroupTypeOK
  <2> QED BY <2>2, <2>3
<1>5. ASSUME NEW p \in Pods, WaitTick(p) \/ WaitTimeout(p) PROVE ScaleUpTypeOK'
  <2>1. CASE Fails(p)
    BY <2>1, FailsTyped
  <2>2. CASE Succeeds(p)
    BY <2>2 DEF Succeeds, Goto, ScaleUpTypeOK, GroupTypeOK
  <2> QED BY <1>5, <2>1, <2>2 DEF WaitTick, WaitTimeout
<1>6. ASSUME NEW p \in Pods, TaintRebalanceRecommendation(p) PROVE ScaleUpTypeOK'
  <2>1. tainted' \in [Pods -> BOOLEAN]
    BY <1>6 DEF TaintRebalanceRecommendation, ScaleUpTypeOK
  <2> QED BY <1>6, <2>1 DEF TaintRebalanceRecommendation, Goto, ScaleUpTypeOK, GroupTypeOK
<1>7. ASSUME NEW i \in Instances,
             Launches(i) \/ Terminates(i) \/ Reclaimed(i) PROVE GroupTypeOK'
  BY <1>7 DEF Launches, Terminates, Reclaimed, Becomes, ScaleUpTypeOK, GroupTypeOK
<1>8. CASE Launched
  <2>1. arrived' \in [Pods -> BOOLEAN] /\ GroupTypeOK'
    BY <1>7, <1>8 DEF Launched, ScaleUpTypeOK
  <2> QED BY <1>8, <2>1 DEF Launched, CloudOnly, ScaleUpTypeOK
<1>9. CASE TerminatedByASG \/ ReclaimedByEC2
  <2>1. GroupTypeOK'
    BY <1>7, <1>9 DEF TerminatedByASG, ReclaimedByEC2, Instances
  <2> QED BY <1>9, <2>1 DEF TerminatedByASG, ReclaimedByEC2, CloudOnly, ScaleUpTypeOK
<1>10. CASE ScaledDown
  <2>1. GroupTypeOK'
    BY <1>0, <1>10, SetTyped DEF ScaledDown, ScaleUpTypeOK
  <2> QED BY <1>10, <2>1 DEF ScaledDown, CloudOnly, ScaleUpTypeOK
<1>11. CASE SpotSupplyChanges
  <2>1. supply' \in BOOLEAN /\ UNCHANGED <<desired, state>>
    BY <1>11 DEF SpotSupplyChanges, SupplyChanges, ScaleUpTypeOK, GroupTypeOK
  <2>2. GroupTypeOK'
    BY <2>1 DEF ScaleUpTypeOK, GroupTypeOK
  <2> QED BY <1>11, <2>2 DEF SpotSupplyChanges, CloudOnly, ScaleUpTypeOK
<1>12. CASE ScalingActivityFails
  <2>1. seen' \in [Pods -> BOOLEAN] /\ recent' \subseteq Groups
    BY <1>0, <1>12 DEF ScalingActivityFails, ScaleUpTypeOK
  <2> QED BY <1>12, <2>1 DEF ScalingActivityFails, ScaleUpTypeOK, GroupTypeOK
<1>13. CASE FiveSecondsPass \/ OutageStarts \/ OutageEnds \/ UNCHANGED vars
  <2>1. outage' \in BOOLEAN /\ outages' \in 0 .. MaxOutages
    <3>1. CASE OutageStarts
      BY <3>1 DEF OutageStarts, ScaleUpTypeOK
    <3>2. CASE OutageEnds
      BY <3>2 DEF OutageEnds, ScaleUpTypeOK
    <3>3. CASE FiveSecondsPass \/ UNCHANGED vars
      BY <3>3 DEF FiveSecondsPass, vars, ScaleUpTypeOK
    <3> QED BY <1>13, <3>1, <3>2, <3>3
  <2> QED BY <1>13, <2>1
          DEF FiveSecondsPass, OutageStarts, OutageEnds, vars, ScaleUpTypeOK, GroupTypeOK
<1> QED BY <1>1, <1>2, <1>3, <1>4, <1>5, <1>6, <1>8, <1>9, <1>10, <1>11, <1>12, <1>13
        DEF Next, spotGuardPreDrainTask, Cloud

(* The requests accepted by a group stay finite in number, and the         *)
(* capacity asked of a group stays within them.                            *)
LEMMA GrowthKept ==
  ASSUME ScaleUpInv, [Next]_vars
  PROVE  (\A g \in Groups : IsFiniteSet(requests[g]))' /\ GrowthBounded'
<1> USE DEF groupVars, podVars, historyVars, boundVars
<1>0. /\ ScaleUpTypeOK /\ GroupTypeOK
      /\ \A g \in Groups : /\ IsFiniteSet(requests[g])
                           /\ Cardinality(requests[g]) \in Nat
                           /\ desired[g] \in Nat
                           /\ desired[g] <= Initially(g) + Cardinality(requests[g])
  BY FS_CardinalityType
     DEF ScaleUpInv, ScaleUpTypeOK, GroupTypeOK, GrowthBounded, Initially
<1>1. CASE UNCHANGED <<desired, requests>>
  BY <1>0, <1>1 DEF GrowthBounded, Initially
<1>2. CASE ScaledDown
  <2>1. /\ requests' = requests /\ desired' = [desired EXCEPT !["ondemand"] = @ - 1]
        /\ "ondemand" \in Groups
    BY <1>2 DEF ScaledDown, CloudOnly, SetDesiredCapacity, Groups
  <2>2. \A g \in Groups : desired'[g] <= desired[g]
    BY <1>0, <2>1 DEF GroupTypeOK
  <2>3. \A g \in Groups : desired'[g] <= Initially(g) + Cardinality(requests[g])
    <3> SUFFICES ASSUME NEW g \in Groups
                 PROVE  desired'[g] <= Initially(g) + Cardinality(requests[g])
      OBVIOUS
    <3>1. desired'[g] \in Int /\ Initially(g) \in Nat
      BY <1>0, <2>1, Countable DEF GroupTypeOK
    <3> QED BY <1>0, <2>2, <3>1
  <2> QED BY <1>0, <2>1, <2>3 DEF GrowthBounded, Initially
<1>3. ASSUME NEW p \in Pods, SetDesired(p), ~Fails(p)
      PROVE  (\A g \in Groups : IsFiniteSet(requests[g]))' /\ GrowthBounded'
  <2> DEFINE h == group[p]
  <2>1. /\ h \in Groups /\ p \notin requests[h] /\ target[p] \in Nat
        /\ target[p] <= Initially(h) + Cardinality(requests[h]) + 1
    BY <1>0, <1>3 DEF SetDesired, ScaleUpInv, ScaleUpTypeOK, PodInv
  <2>2. /\ desired' = [desired EXCEPT ![h] = target[p]]
        /\ requests' = [requests EXCEPT ![h] = @ \cup {p}]
    BY <1>3 DEF SetDesired, SetDesiredCapacity
  <2>3. /\ IsFiniteSet(requests[h] \cup {p})
        /\ Cardinality(requests[h] \cup {p}) = Cardinality(requests[h]) + 1
    BY <1>0, <2>1, FS_AddElement
  <2> HIDE DEF h
  <2>4. ASSUME NEW g \in Groups
        PROVE  /\ IsFiniteSet(requests'[g])
               /\ desired'[g] <= Initially(g) + Cardinality(requests'[g])
    <3>1. CASE g = h
      <4>1. desired'[g] = target[p] /\ requests'[g] = requests[h] \cup {p}
        BY <1>0, <2>1, <2>2, <3>1 DEF ScaleUpTypeOK, GroupTypeOK
      <4>2. Initially(h) \in Nat /\ Cardinality(requests[h]) \in Nat
        BY <1>0, <2>1, Countable
      <4> QED BY <2>1, <2>3, <3>1, <4>1, <4>2
    <3>2. CASE g # h
      <4>1. desired'[g] = desired[g] /\ requests'[g] = requests[g]
        BY <1>0, <2>1, <2>2, <3>2 DEF ScaleUpTypeOK, GroupTypeOK
      <4> QED BY <1>0, <4>1
    <3> QED BY <3>1, <3>2
  <2> QED BY <2>4 DEF GrowthBounded, Initially
<1>4. ASSUME NEW p \in Pods, ScaleUpWithFallback(p) \/ spotGuardPreDrainTask(p)
      PROVE  UNCHANGED <<desired, requests>> \/ (SetDesired(p) /\ ~Fails(p))
  <2>1. CASE Fails(p)
    BY <2>1 DEF Fails
  <2>2. CASE ~Fails(p)
    BY <1>4, <2>2 DEF spotGuardPreDrainTask, ScaleUpWithFallback, DescribeASG,
       InitialCount, WaitTick, WaitTimeout, Succeeds, TaintRebalanceRecommendation
  <2> QED BY <2>1, <2>2
<1>5. ASSUME Cloud PROVE UNCHANGED <<desired, requests>> \/ ScaledDown
  BY <1>5 DEF Cloud, CloudOnly, Launched, Launches, TerminatedByASG, Terminates,
     ReclaimedByEC2, Reclaimed, SpotSupplyChanges, SupplyChanges,
     ScalingActivityFails, FiveSecondsPass, OutageStarts, OutageEnds
<1> QED BY <1>1, <1>2, <1>3, <1>4, <1>5 DEF Next, vars

(* A pod's part of the invariant survives any step that leaves the pod's   *)
(* own variables and the instances alone and only adds the requests of     *)
(* another pod.                                                            *)
LEMMA Undisturbed ==
  ASSUME ScaleUpInv, ScaleUpTypeOK', NEW q \in Pods,
         \A g \in Groups : IsFiniteSet(requests'[g]),
         UNCHANGED <<pc[q], group[q], target[q], initial[q], result[q], arrived[q]>>,
         \A g \in Groups : InServiceCount(g)' <= InServiceCount(g),
         \A g \in Groups : /\ requests[g] \subseteq requests'[g]
                           /\ q \in requests'[g] => q \in requests[g]
  PROVE  PodInv(q)'
<1>1. PodInv(q) /\ group[q] \in Groups /\ initial[q] \in Nat /\ target[q] \in Nat
  BY DEF ScaleUpInv, ScaleUpTypeOK
<1>2. pc[q]' = "wait" /\ ~arrived[q]' => InServiceCount(group[q])' <= initial[q]'
  <2> SUFFICES ASSUME pc[q] = "wait", ~arrived[q]
               PROVE  InServiceCount(group[q])' <= initial[q]
    OBVIOUS
  <2>1. PICK g \in Groups : g = group[q] /\ g = group'[q]
    BY <1>1
  <2>2. InServiceCount(g) <= initial[q]
    BY <1>1, <2>1 DEF PodInv
  <2>3. InServiceCount(g)' <= initial[q]
    BY <1>1, <2>2, Countable
  <2>4. InServiceCount(group[q])' = InServiceCount(g)'
    BY <2>1
  <2> QED BY <2>3, <2>4
<1>3. pc[q]' = "set" =>
        target[q]' <= Initially(group[q]') + Cardinality(requests'[group[q]']) + 1
  <2> SUFFICES ASSUME pc[q] = "set"
               PROVE  target[q] <= Initially(group[q]) + Cardinality(requests'[group[q]]) + 1
    OBVIOUS
  <2>1. target[q] <= Initially(group[q]) + Cardinality(requests[group[q]]) + 1
    BY <1>1 DEF PodInv
  <2>2. /\ Cardinality(requests[group[q]]) <= Cardinality(requests'[group[q]])
        /\ Cardinality(requests[group[q]]) \in Nat
        /\ Cardinality(requests'[group[q]]) \in Nat
    BY <1>1, FS_Subset, FS_CardinalityType
  <2>3. Initially(group[q]) \in Nat
    BY <1>1, Countable
  <2> QED BY <1>1, <2>1, <2>2, <2>3
<1>4. /\ result[q]' \in Groups => arrived[q]' /\ pc[q]' \in {"taint", "done"}
      /\ pc[q]' \in {"idle", "describe", "set"} => q \notin requests'[group[q]']
      /\ (pc[q]' = "idle" \/ group[q]' = "spot") => q \notin requests'["ondemand"]
      /\ pc[q]' = "idle" => group[q]' = "spot"
  BY <1>1 DEF PodInv, Groups
<1> QED BY <1>2, <1>3, <1>4 DEF PodInv, Initially

(* The step of a pod is invisible to the others, but for its request. *)
LEMMA OthersKept ==
  ASSUME ScaleUpInv, ScaleUpTypeOK', NEW p \in Pods, NEW q \in Pods, p # q,
         \A g \in Groups : IsFiniteSet(requests'[g]),
         ScaleUpWithFallback(p) \/ spotGuardPreDrainTask(p)
  PROVE  PodInv(q)'
<1> USE DEF groupVars, podVars, historyVars, boundVars
<1>0. ScaleUpTypeOK
  BY DEF ScaleUpInv
<1>1. state' = state
  <2>1. CASE Fails(p)
    BY <2>1 DEF Fails
  <2>2. CASE ~Fails(p)
    BY <2>2 DEF spotGuardPreDrainTask, ScaleUpWithFallback, DescribeASG, SetDesired,
       InitialCount, WaitTick, WaitTimeout, Succeeds, TaintRebalanceRecommendation
  <2> QED BY <2>1, <2>2
<1>2. \A g \in Groups : InServiceCount(g)' <= InServiceCount(g)
  BY <1>1, CountShrinks DEF InService
<1>3. UNCHANGED <<pc[q], group[q], target[q], initial[q], result[q], arrived[q]>>
  <2>1. CASE Fails(p)
    BY <1>0, <2>1 DEF Fails, Baseline, Goto, ScaleUpTypeOK
  <2>2. CASE ScaleUpWithFallback(p)
    BY <1>0, <2>2 DEF ScaleUpWithFallback, Baseline, ScaleUpTypeOK
  <2>3. CASE spotGuardPreDrainTask(p) /\ ~Fails(p)
    BY <1>0, <2>3 DEF spotGuardPreDrainTask, DescribeASG, SetDesired, Goto, InitialCount,
       WaitTick, WaitTimeout, Succeeds, TaintRebalanceRecommendation, ScaleUpTypeOK
  <2> QED BY <2>1, <2>2, <2>3
<1>4. requests' = requests
      \/ (group[p] \in Groups /\ requests' = [requests EXCEPT ![group[p]] = @ \cup {p}])
  <2>1. CASE Fails(p)
    BY <2>1 DEF Fails
  <2>2. CASE ~Fails(p)
    BY <1>0, <2>2 DEF spotGuardPreDrainTask, ScaleUpWithFallback, DescribeASG, SetDesired,
       InitialCount, WaitTick, WaitTimeout, Succeeds, TaintRebalanceRecommendation,
       ScaleUpTypeOK
  <2> QED BY <2>1, <2>2
<1>5. \A g \in Groups : /\ requests[g] \subseteq requests'[g]
                        /\ q \in requests'[g] => q \in requests[g]
  BY <1>0, <1>4 DEF ScaleUpTypeOK
<1> QED BY <1>2, <1>3, <1>5, Undisturbed

(* A pod whose scale-up of a group fails has no request with the next one. *)
LEMMA FailsKeepsOwn ==
  ASSUME ScaleUpInv, NEW p \in Pods, Fails(p),
         pc[p] \notin {"idle", "taint", "done"}
  PROVE  PodInv(p)'
<1> USE DEF groupVars, boundVars
<1>1. ScaleUpTypeOK /\ PodInv(p) /\ requests' = requests
  BY DEF ScaleUpInv, Fails
<1>2. result[p] \notin Groups
  BY <1>1 DEF PodInv
<1>3. CASE group[p] = "spot" /\ Baseline(p, "ondemand") /\ UNCHANGED result
  BY <1>1, <1>2, <1>3 DEF Baseline, ScaleUpTypeOK, PodInv, Groups
<1>4. CASE group[p] = "ondemand" /\ Goto(p, "taint")
           /\ result' = [result EXCEPT ![p] = "failed"]
           /\ UNCHANGED <<group, seen, arrived>>
  BY <1>1, <1>4 DEF Goto, ScaleUpTypeOK, PodInv, Groups
<1> QED BY <1>3, <1>4 DEF Fails

(* The step of a pod keeps the pod's own part of the invariant. *)
LEMMA OwnKept ==
  ASSUME ScaleUpInv, NEW p \in Pods,
         ScaleUpWithFallback(p) \/ spotGuardPreDrainTask(p)
  PROVE  PodInv(p)'
<1> USE DEF groupVars, podVars, historyVars, boundVars
<1>0. ScaleUpTypeOK /\ GroupTypeOK /\ PodInv(p)
  BY DEF ScaleUpInv, ScaleUpTypeOK
<1>1. CASE ScaleUpWithFallback(p)
  BY <1>0, <1>1 DEF ScaleUpWithFallback, Baseline, ScaleUpTypeOK, PodInv, Groups
<1>2. CASE Fails(p) /\ pc[p] \notin {"idle", "taint", "done"}
  BY <1>2, FailsKeepsOwn
<1>3. CASE DescribeASG(p) /\ ~Fails(p)
  <2>1. /\ pc[p] = "describe" /\ pc'[p] = "set" /\ target'[p] = desired[group[p]] + 1
        /\ UNCHANGED <<desired, group, result, arrived, requests>>
    BY <1>0, <1>3 DEF DescribeASG, Goto, ScaleUpTypeOK
  <2>2. group[p] \in Groups /\ desired[group[p]] \in Nat
    BY <1>0 DEF ScaleUpTypeOK, GroupTypeOK
  <2>3. /\ desired[group[p]] <= Initially(group[p]) + Cardinality(requests[group[p]])
        /\ Initially(group[p]) \in Nat /\ Cardinality(requests[group[p]]) \in Nat
    BY <2>2, Countable, FS_CardinalityType DEF ScaleUpInv, GrowthBounded, Initially
  <2>4. target'[p] <= Initially(group[p]) + Cardinality(requests[group[p]]) + 1
    BY <2>1, <2>2, <2>3
  <2> QED BY <1>0, <2>1, <2>2, <2>4 DEF PodInv, Initially
<1>4. CASE SetDesired(p) /\ ~Fails(p)
  <2>1. /\ pc[p] = "set" /\ pc'[p] = "count"
        /\ UNCHANGED <<group, result, arrived>>
        /\ requests' = [requests EXCEPT ![group[p]] = @ \cup {p}]
    BY <1>0, <1>4 DEF SetDesired, Goto, ScaleUpTypeOK
  <2> QED BY <1>0, <2>1 DEF PodInv, ScaleUpTypeOK, Groups
<1>5. CASE InitialCount(p) /\ ~Fails(p)
  <2>1. /\ pc[p] = "count" /\ pc'[p] = "wait" /\ initial'[p] = InServiceCount(group[p])
        /\ UNCHANGED <<state, group, result, arrived, requests>>
    BY <1>0, <1>5 DEF InitialCount, Goto, ScaleUpTypeOK
  <2>2. InServiceCount(group[p])' = InServiceCount(group[p])
    BY <2>1 DEF InServiceCount, InService
  <2>3. InServiceCount(group[p]) \in Nat
    BY <1>0, Countable DEF ScaleUpTypeOK
  <2> QED BY <1>0, <2>1, <2>2, <2>3 DEF PodInv
<1>6. CASE (WaitTick(p) \/ WaitTimeout(p)) /\ ~Fails(p)
  <2>1. /\ pc[p] = "wait" /\ pc'[p] = "taint" /\ NewInstance(p)
        /\ UNCHANGED <<group, arrived, requests>>
    BY <1>0, <1>6 DEF WaitTick, WaitTimeout, Succeeds, Goto, ScaleUpTypeOK
  <2>2. InServiceCount(group[p]) > initial[p] /\ InServiceCount(group[p]) \in Nat
    BY <1>0, <2>1, Countable DEF NewInstance, ScaleUpTypeOK
  <2>3. arrived[p]
    BY <1>0, <2>1, <2>2 DEF PodInv, ScaleUpTypeOK
  <2> QED BY <1>0, <2>1, <2>3 DEF PodInv
<1>7. CASE TaintRebalanceRecommendation(p)
  BY <1>0, <1>7 DEF TaintRebalanceRecommendation, Goto, ScaleUpTypeOK, PodInv
<1>8. Fails(p) => ScaleUpWithFallback(p) \/ TaintRebalanceRecommendation(p)
                    \/ pc[p] \notin {"idle", "taint", "done"}
  BY DEF spotGuardPreDrainTask, DescribeASG, SetDesired, InitialCount, WaitTick, WaitTimeout
<1> QED BY <1>1, <1>2, <1>3, <1>4, <1>5, <1>6, <1>7, <1>8 DEF spotGuardPreDrainTask

(* What the groups do: an instance that comes into service is noted for    *)
(* every pod that scales its group; every other step only takes instances. *)
LEMMA CloudKept ==
  ASSUME ScaleUpInv, ScaleUpTypeOK', NEW q \in Pods,
         \A g \in Groups : IsFiniteSet(requests'[g]), Cloud \/ UNCHANGED vars
  PROVE  PodInv(q)'
<1> USE DEF groupVars, podVars, historyVars, boundVars
<1>0. ScaleUpTypeOK /\ GroupTypeOK /\ PodInv(q)
  BY DEF ScaleUpInv, ScaleUpTypeOK
<1>1. CASE Launched
  <2>1. PICK i \in Instances :
          Launches(i) /\ arrived' = [p \in Pods |-> arrived[p] \/ group[p] = GroupOf(i)]
    BY <1>1 DEF Launched
  <2>2. UNCHANGED <<pc, group, target, initial, result, requests>>
    BY <1>1 DEF Launched, CloudOnly
  <2>3. CASE group[q] = GroupOf(i)
    <3>1. arrived'[q]
      BY <2>1, <2>3
    <3> QED BY <1>0, <2>2, <3>1 DEF PodInv, Initially
  <2>4. CASE group[q] # GroupOf(i)
    <3>1. PICK g \in Groups : g = group[q]
      BY <1>0 DEF ScaleUpTypeOK
    <3>2. i \notin Members(g)
      BY <2>4, <3>1, GroupAssumption DEF GroupOf, Members, Groups
    <3>3. InService(g)' = InService(g)
      BY <1>0, <2>1, <3>2 DEF Launches, Becomes, InService, GroupTypeOK
    <3>4. InServiceCount(g)' = InServiceCount(g)
      BY <3>3 DEF InServiceCount
    <3>5. InServiceCount(group[q])' = InServiceCount(group[q])
      BY <2>2, <3>1, <3>4
    <3>6. arrived'[q] = arrived[q]
      BY <1>0, <2>1, <2>4 DEF ScaleUpTypeOK
    <3> QED BY <1>0, <2>2, <3>5, <3>6 DEF PodInv, Initially
  <2> QED BY <2>3, <2>4
<1>2. CASE ~Launched
  <2>1. UNCHANGED <<pc, group, target, initial, result, requests, arrived>>
    BY <1>2 DEF vars, Cloud, CloudOnly, TerminatedByASG, ReclaimedByEC2, ScaledDown,
       SpotSupplyChanges, ScalingActivityFails, FiveSecondsPass, OutageStarts, OutageEnds
  <2>2. \A g \in Groups : InService(g)' \subseteq InService(g)
    <3>1. CASE TerminatedByASG \/ ReclaimedByEC2
      <4>1. PICK i \in Instances : Terminates(i) \/ Reclaimed(i)
        BY <3>1 DEF TerminatedByASG, ReclaimedByEC2, Instances
      <4>2. \A j \in Instances :
              state'[j] = state[j] \/ state'[j] \in {"terminating", "absent"}
        BY <1>0, <4>1 DEF Terminates, Reclaimed, Becomes, GroupTypeOK
      <4>3. \A g \in Groups : Members(g) \subseteq Instances
        BY DEF Members, Instances
      <4> QED BY <4>2, <4>3 DEF InService
    <3>2. CASE state' = state
      BY <3>2 DEF InService
    <3> QED BY <1>2, <3>1, <3>2 DEF vars, Cloud, ScaledDown, SpotSupplyChanges,
            SupplyChanges, ScalingActivityFails, FiveSecondsPass, OutageStarts, OutageEnds
  <2>3. \A g \in Groups : InServiceCount(g)' <= InServiceCount(g)
    BY <2>2, CountShrinks
  <2> QED BY <2>1, <2>3, Undisturbed
<1> QED BY <1>1, <1>2

LEMMA StepInv == ScaleUpInv /\ [Next]_vars => ScaleUpInv'
<1> SUFFICES ASSUME ScaleUpInv, [Next]_vars PROVE ScaleUpInv'
  OBVIOUS
<1>1. ScaleUpTypeOK'
  BY TypesKept DEF ScaleUpInv
<1>2. (\A g \in Groups : IsFiniteSet(requests'[g])) /\ GrowthBounded'
  BY GrowthKept
<1>3. ASSUME NEW q \in Pods PROVE PodInv(q)'
  <2>1. CASE Cloud \/ UNCHANGED vars
    BY <1>1, <1>2, <2>1, CloudKept
  <2>2. ASSUME NEW p \in Pods, ScaleUpWithFallback(p) \/ spotGuardPreDrainTask(p)
        PROVE  PodInv(q)'
    BY <1>1, <1>2, <2>2, OthersKept, OwnKept
  <2> QED BY <2>1, <2>2 DEF Next
<1> QED BY <1>1, <1>2, <1>3 DEF ScaleUpInv

(* The inductive invariant of the scale-up: a pod asks each group at most  *)
(* once, for one instance more than the requests before it account for.    *)
THEOREM Invariance == Spec => []ScaleUpInv
  BY InitInv, StepInv, PTL DEF Spec

(* However many pods scale the two groups at the same time, and whatever   *)
(* the outages and shortages, a group is never asked for more than one     *)
(* instance for each accepted request: the unguarded read and write of     *)
(* scaleUpASG can lose requests, never multiply them.                      *)
THEOREM GrowthIsBounded == Spec => []GrowthBounded
  BY Invariance, PTL DEF ScaleUpInv

(* waitForNewInstance never reports an instance that did not come: when a  *)
(* scale-up succeeds, an instance of its group has reached InService since *)
(* its baseline, even though it compares nothing but counts.               *)
THEOREM SuccessIsReal == Spec => []SuccessHasInstance
<1>1. ScaleUpInv => SuccessHasInstance
  BY DEF ScaleUpInv, PodInv, SuccessHasInstance
<1> QED BY <1>1, Invariance, PTL

(* The variables keep their types, the limits of the groups included:      *)
(* no request leaves a group outside its minimum and maximum size.         *)
THEOREM TypeCorrect == Spec => []ScaleUpTypeOK
  BY Invariance, PTL DEF ScaleUpInv
=============================================================================
