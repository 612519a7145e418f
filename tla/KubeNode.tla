------------------------------ MODULE KubeNode ------------------------------
(***************************************************************************)
(* A Kubernetes node as pkg/node/node.go changes it.                       *)
(*                                                                         *)
(* Every operator is one call of the Kubernetes API that succeeds.  A      *)
(* patch or an update of the node is atomic: an update of a node that was  *)
(* read too long ago is refused, and addTaint and removeTaint read it      *)
(* again.  The modules that use this one say when a call fails.            *)
(***************************************************************************)
EXTENDS Integers

CONSTANTS
  ExcludeFromLoadBalancers, TaintNode,
  UseAPIServerCacheToListPods,
  EmitKubernetesEvents        \* without it there is no event recorder

ASSUME NodeAssumption ==
  {ExcludeFromLoadBalancers, TaintNode, UseAPIServerCacheToListPods,
   EmitKubernetesEvents} \subseteq BOOLEAN

VARIABLES
  unschedulable,  \* node.Spec.Unschedulable
  labels,         \* label key -> value, for the labels of interest it has
  taints,         \* kinds of the events whose taints it has
  pods,           \* there are pods a drain would evict
  boot            \* number of the current boot

nodeVars == <<unschedulable, labels, taints, pods, boot>>

LabelKey == {"event-id", "action", "action-time", "exclude"}

TaintKinds == {"spot", "scheduled", "terminate", "rebalance"}

NodeInit(cordoned, excluded) ==
  /\ unschedulable = cordoned
  /\ labels = [k \in IF excluded THEN {"exclude"} ELSE {} |-> "other"]
  /\ taints = {}
  /\ pods = TRUE
  /\ boot = 0

-----------------------------------------------------------------------------
(* Labels *)

With(key, value) ==
  [k \in DOMAIN labels \cup {key} |-> IF k = key THEN value ELSE labels[k]]

SetLabel(key, value) ==
  /\ labels' = With(key, value)
  /\ UNCHANGED <<unschedulable, taints, pods, boot>>

Without(key) ==
  /\ labels' = [k \in DOMAIN labels \ {key} |-> labels[k]]
  /\ UNCHANGED <<unschedulable, taints, pods, boot>>

addLabel(key, value, skipExisting) ==
  IF skipExisting /\ key \in DOMAIN labels
  THEN UNCHANGED nodeVars ELSE SetLabel(key, value)

(* A JSON patch that removes a label the node does not have is refused. *)
removeLabel(key) == key \in DOMAIN labels /\ Without(key)

removeLabelIfValueMatches(key, matchValue) ==
  IF key \notin DOMAIN labels \/ labels[key] = matchValue
  THEN UNCHANGED nodeVars ELSE Without(key)

MarkWithEventID(id) == addLabel("event-id", id, FALSE)

(* The two calls of MarkForUncordonAfterReboot; the time is the boot's. *)
MarkAction == addLabel("action", "UncordonAfterReboot", FALSE)
MarkActionTime == addLabel("action-time", boot, FALSE)

(* RemoveNTHLabels removes these one after the other, until a call fails. *)
RemoveNTHLabel(key) ==
  IF key = "exclude" THEN removeLabelIfValueMatches(key, "nth") ELSE removeLabel(key)

CanRemove(key) == key \in DOMAIN labels \/ key = "exclude"

AfterLabel(key) ==
  CASE key = "event-id" -> "action"
    [] key = "action" -> "action-time"
    [] key = "action-time" -> "exclude"
    [] key = "exclude" -> "taints"

IsLabeledWithAction == {"action", "event-id"} \subseteq DOMAIN labels

(***************************************************************************)
(* UncordonIfRebooted: less time has passed since the label than since the *)
(* boot if the label was added in an earlier one.                          *)
(***************************************************************************)
Rebooted == "action-time" \in DOMAIN labels /\ labels["action-time"] < boot

-----------------------------------------------------------------------------
(* Taints *)

AddTaint(kind) ==
  /\ taints' = IF TaintNode THEN taints \cup {kind} ELSE taints
  /\ UNCHANGED <<unschedulable, labels, pods, boot>>

(* Mutant: one taint is missing in the list of those to remove. *)
RemoveTaintsButScheduled ==
  /\ taints' = IF TaintNode THEN taints \cap {"scheduled"} ELSE taints
  /\ UNCHANGED <<unschedulable, labels, pods, boot>>

RemoveNTHTaints ==
  /\ taints' = IF TaintNode THEN {} ELSE taints
  /\ UNCHANGED <<unschedulable, labels, pods, boot>>

(* It stops at the first taint it cannot remove. *)
RemoveSomeTaints ==
  /\ TaintNode
  /\ taints' \in {taints, taints \ {"spot"}, taints \ {"spot", "scheduled"},
                  taints \ {"spot", "scheduled", "terminate"}}
  /\ UNCHANGED <<unschedulable, labels, pods, boot>>

-----------------------------------------------------------------------------
(* Cordon and drain *)

CordonNode ==
  /\ unschedulable' = TRUE
  /\ UNCHANGED <<labels, taints, pods, boot>>

UncordonNode ==
  /\ unschedulable' = FALSE
  /\ UNCHANGED <<labels, taints, pods, boot>>

MaybeMarkForExclusionFromLoadBalancers ==
  IF ExcludeFromLoadBalancers THEN addLabel("exclude", "nth", TRUE)
                              ELSE UNCHANGED nodeVars

(* CordonAndDrain up to the drain. *)
MarkAndCordon ==
  /\ unschedulable' = TRUE
  /\ labels' = IF ExcludeFromLoadBalancers /\ "exclude" \notin DOMAIN labels
               THEN With("exclude", "nth") ELSE labels
  /\ UNCHANGED <<taints, pods, boot>>

(***************************************************************************)
(* The drain of CordonAndDrain, when it returns no error.  RunNodeDrain    *)
(* lists the pods itself.  With the API server's cache the list is the one *)
(* that was read for the event recorder: there is none without a recorder, *)
(* it is empty when that read failed, whose error is overwritten, and it   *)
(* may be older than the pods.                                             *)
(***************************************************************************)
EvictPods ==
  /\ pods' \in IF ~UseAPIServerCacheToListPods THEN {FALSE}
              ELSE IF EmitKubernetesEvents THEN {FALSE, pods} ELSE {pods}
  /\ UNCHANGED <<unschedulable, labels, taints, boot>>
=============================================================================
