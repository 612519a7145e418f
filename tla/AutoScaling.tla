----------------------------- MODULE AutoScaling -----------------------------
(***************************************************************************)
(* The two EC2 Auto Scaling groups that Spot Guard drives, and their       *)
(* instances, seen through the calls pkg/spotguard makes:                  *)
(* DescribeAutoScalingGroups reads desired and the InService instances,    *)
(* SetDesiredCapacity writes desired.  The service is external: it         *)
(* launches instances while a group is short of its desired capacity, and  *)
(* terminates an instance OF ITS CHOICE while the group has too many.      *)
(***************************************************************************)
EXTENDS Integers, FiniteSets

CONSTANTS Spot,         \* instances the spot group may run
          OnDemand,     \* instances the on-demand group may run
          InitRunning,  \* the instances in service at the start
          MinSize,      \* group -> its minimum size
          MaxSize       \* group -> its maximum size

Groups == {"spot", "ondemand"}

Instances == Spot \cup OnDemand

Members(g) == IF g = "spot" THEN Spot ELSE OnDemand

GroupOf(i) == IF i \in Spot THEN "spot" ELSE "ondemand"

(* The groups are disjoint, finite, and start within their size limits.    *)
ASSUME GroupAssumption ==
  /\ Spot \cap OnDemand = {}
  /\ IsFiniteSet(Instances)
  /\ InitRunning \subseteq Instances
  /\ MinSize \in [Groups -> Nat] /\ MaxSize \in [Groups -> Nat]
  /\ \A g \in Groups :
        Cardinality(InitRunning \cap Members(g)) \in MinSize[g] .. MaxSize[g]

VARIABLES desired,   \* group -> its desired capacity
          state,     \* instance -> "absent", "starting" (InService, not in the
                     \* cluster), "ready", "notready" or "terminating"
          supply     \* EC2 has spot capacity to give

groupVars == <<desired, state, supply>>

GroupTypeOK ==
  /\ desired \in [Groups -> Nat]
  /\ \A g \in Groups : desired[g] \in MinSize[g] .. MaxSize[g]
  /\ state \in [Instances ->
                  {"absent", "starting", "ready", "notready", "terminating"}]
  /\ supply \in BOOLEAN

GroupInit ==
  /\ desired = [g \in Groups |-> Cardinality(InitRunning \cap Members(g))]
  /\ state = [i \in Instances |->
                IF i \in InitRunning THEN "ready" ELSE "absent"]
  /\ supply \in BOOLEAN

InService(g) ==
  {i \in Members(g) : state[i] \in {"starting", "ready", "notready"}}

InServiceCount(g) == Cardinality(InService(g))

(* SetDesiredCapacity: refused outside the size limits of the group.       *)
Accepts(g, n) == n \in MinSize[g] .. MaxSize[g]

SetDesiredCapacity(g, n) ==
  /\ Accepts(g, n)
  /\ desired' = [desired EXCEPT ![g] = n]

(* The service: launch, terminate, reclaim.                                *)
Short(g) == InServiceCount(g) < desired[g]

Becomes(i, from, to) ==
  /\ state[i] \in from
  /\ state' = [state EXCEPT ![i] = to]

Launches(i) ==
  /\ Short(GroupOf(i))
  /\ i \in Spot => supply
  /\ Becomes(i, {"absent"}, "starting")
  /\ UNCHANGED <<desired, supply>>

Terminates(i) ==
  /\ InServiceCount(GroupOf(i)) > desired[GroupOf(i)]
  /\ Becomes(i, {"starting", "ready", "notready"}, "terminating")
  /\ UNCHANGED <<desired, supply>>

Reclaimed(i) ==
  /\ i \in Spot
  /\ Becomes(i, {"starting", "ready", "notready"}, "absent")
  /\ UNCHANGED <<desired, supply>>

Gone(i) ==
  /\ Becomes(i, {"terminating"}, "absent")
  /\ UNCHANGED <<desired, supply>>

SupplyChanges ==
  /\ supply' = ~supply
  /\ UNCHANGED <<desired, state>>

=============================================================================
