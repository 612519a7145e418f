------------------------------ MODULE ImdsMode ------------------------------
(***************************************************************************)
(* IMDS mode: the handler runs on the node it watches, as a pod of a       *)
(* DaemonSet.                                                              *)
(*                                                                         *)
(* On startup it finishes what it began before a reboot                    *)
(* (handleRebootUncordon).  Then one monitor per kind of notice polls the  *)
(* instance metadata and sends what it finds on interruptionChan or        *)
(* cancelChan, again and again.  The Dispatcher handles the events, whose  *)
(* pre-drain tasks label and taint the node.                               *)
(*                                                                         *)
(* EC2, the operator of the node and the Kubernetes API are external.      *)
(***************************************************************************)
EXTENDS Dispatcher, KubeNode

CONSTANTS
  Notice,           \* notices the instance metadata may show
  NoticeOf,         \* EventID -> the notice an event with that ID comes from
  Restarts,         \* notices of maintenance that reboots the instance
  CordonedBefore,   \* an operator cordoned the node before all this
  ExcludedBefore,   \* somebody else excluded the node from load balancers
  MaxAttempts,      \* how often startup tries handleRebootUncordon
  MaxReboots,       \* bound: reboots of the instance
  MaxFaults,        \* bound: failed calls of the Kubernetes API
  MaxCrashes        \* bound: restarts of the pod without a reboot

ASSUME ImdsAssumption ==
  /\ NoticeOf \in [EventID -> Notice]
  /\ Restarts \subseteq Notice
  /\ Cancellable = {a.id : a \in {b \in Arrival : b.kind = "scheduled"}}
  /\ \A a \in Arrival : a.kind \in TaintKinds
  /\ {CordonedBefore, ExcludedBefore} \subseteq BOOLEAN
  /\ MaxAttempts \in Nat \ {0}
  /\ MaxReboots \in Nat /\ MaxFaults \in Nat /\ MaxCrashes \in Nat
  /\ ~UseProviderId

VARIABLES
  metadata,     \* Notice -> what the instance metadata says of it
  toSend,       \* kind -> what its monitor has read and not yet sent
  startPc,      \* program counter of the startup
  startEvent,   \* eventID in handleRebootUncordon
  attempts,     \* calls of handleRebootUncordon that failed
  task,         \* Object -> where its pre-drain task is
  cleaning,     \* where the clean-up after a cancellation is
  rebootedFor,  \* events whose labels asked for an uncordon after the reboot
  faults, crashes

monitorVars == <<toSend>>
startVars == <<startPc, startEvent, attempts>>
stepVars == <<task, cleaning>>
boundVars == <<faults, crashes, rebootedFor>>
imdsVars == <<nodeVars, metadata, monitorVars, startVars, stepVars, boundVars>>
allVars == <<vars, imdsVars>>

Kinds == {a.kind : a \in Arrival}

Ended == {"canceled", "completed"}

NoticeOfArrival(a) == NoticeOf[a.id]

RestartEvent(a) == NoticeOfArrival(a) \in Restarts

StartPc == {"check", "uncordon", "event-id", "action", "action-time", "exclude",
            "taints", "ignore", "up"}

Up == startPc = "up"

ImdsTypeOK ==
  /\ unschedulable \in BOOLEAN /\ pods \in BOOLEAN /\ boot \in 0 .. MaxReboots
  /\ DOMAIN labels \subseteq LabelKey /\ taints \subseteq TaintKinds
  /\ metadata \in [Notice -> {"none", "active"} \cup Ended]
  /\ \A k \in Kinds : \A x \in toSend[k] : x.event.kind = k /\ x.state # "none"
  /\ startPc \in StartPc /\ startEvent \subseteq EventID
  /\ attempts \in 0 .. MaxAttempts
  /\ \A o \in Object : task[o] # "begin" => pc[o] = "preDrain"
  /\ cleaning # "event-id" => cancelPc = "cleanup"
  /\ startPc # "up" => Busy = {}
  /\ faults \in 0 .. MaxFaults /\ crashes \in 0 .. MaxCrashes

ProcessInit ==
  /\ toSend = [k \in Kinds |-> {}]
  /\ startPc = "check" /\ startEvent = {} /\ attempts = 0
  /\ task = [o \in Object |-> "begin"] /\ cleaning = "event-id"

ImdsInit ==
  /\ Init
  /\ ProcessInit
  /\ NodeInit(CordonedBefore, ExcludedBefore)
  /\ metadata = [n \in Notice |-> "none"]
  /\ faults = 0 /\ crashes = 0 /\ rebootedFor = {}

-----------------------------------------------------------------------------
(* External *)

Fault == faults < MaxFaults /\ faults' = faults + 1

Maintenance == {NoticeOfArrival(a) : a \in {b \in Arrival : b.kind = "scheduled"}}

NoticeAppears(n) ==
  /\ metadata[n] = "none"
  /\ metadata' = [metadata EXCEPT ![n] = "active"]
  /\ UNCHANGED <<vars, nodeVars, monitorVars, startVars, stepVars, boundVars>>

(* Maintenance is cancelled before the reboot, and is complete after it. *)
NoticeEnds(n) ==
  /\ n \in Maintenance
  /\ metadata[n] = "active"
  /\ metadata' = [metadata EXCEPT ![n] = IF boot = 0 THEN "canceled" ELSE "completed"]
  /\ UNCHANGED <<vars, nodeVars, monitorVars, startVars, stepVars, boundVars>>

(* The scheduler puts pods on the node. *)
PodScheduled ==
  /\ ~unschedulable /\ ~pods
  /\ pods' = TRUE
  /\ UNCHANGED <<vars, unschedulable, labels, taints, boot, metadata, monitorVars,
                 startVars, stepVars, boundVars>>

(* Everything in the memory of the process is gone. *)
ProcessStarts ==
  /\ DispatcherRestarts
  /\ toSend' = [k \in Kinds |-> {}]
  /\ startPc' = "check" /\ startEvent' = {} /\ attempts' = 0
  /\ task' = [o \in Object |-> "begin"] /\ cleaning' = "event-id"

Crash ==
  /\ crashes < MaxCrashes
  /\ crashes' = crashes + 1
  /\ ProcessStarts
  /\ UNCHANGED <<nodeVars, metadata, faults, rebootedFor>>

(* The maintenance takes place. *)
Reboot ==
  /\ boot < MaxReboots
  /\ \E n \in Restarts : metadata[n] = "active"
  /\ boot' = boot + 1
  /\ ProcessStarts
  /\ rebootedFor' = IF IsLabeledWithAction /\ "action-time" \in DOMAIN labels
                     THEN rebootedFor \cup {labels["event-id"]} ELSE rebootedFor
  /\ UNCHANGED <<unschedulable, labels, taints, pods, metadata, faults, crashes>>

External ==
  \/ \E n \in Notice : NoticeAppears(n) \/ NoticeEnds(n)
  \/ PodScheduled
  \/ Crash
  \/ Reboot

-----------------------------------------------------------------------------
(* Startup: main calls handleRebootUncordon until it succeeds *)

StartOnly == UNCHANGED <<vars, metadata, monitorVars, stepVars, crashes, rebootedFor>>

StartGoes(to) == startPc' = to /\ UNCHANGED <<startEvent, attempts>>

(* The call returns an error; after MaxAttempts of them main goes on. *)
StartFails ==
  /\ attempts' = attempts + 1
  /\ startPc' = IF attempts + 1 = MaxAttempts THEN "up" ELSE "check"
  /\ startEvent' = {}

(* IsLabeledWithAction, GetEventID and the checks of UncordonIfRebooted. *)
StartCheck(ok) ==
  /\ startPc = "check"
  /\ IF ~ok THEN Fault /\ StartFails
     ELSE /\ UNCHANGED faults
          /\ attempts' = attempts
          /\ startEvent' = IF IsLabeledWithAction THEN {labels["event-id"]} ELSE {}
          /\ startPc' = IF ~IsLabeledWithAction THEN "up"
                        ELSE IF Rebooted THEN "uncordon" ELSE "ignore"
  /\ UNCHANGED nodeVars
  /\ StartOnly

(* Mutant: the labels are left on the node. *)
StartUncordonOnly(ok) ==
  /\ startPc = "uncordon"
  /\ IF ok THEN UncordonNode /\ StartGoes("taints") /\ UNCHANGED faults
           ELSE Fault /\ StartFails /\ UNCHANGED nodeVars
  /\ StartOnly

StartUncordon(ok) ==
  /\ startPc = "uncordon"
  /\ IF ok THEN UncordonNode /\ StartGoes("event-id") /\ UNCHANGED faults
           ELSE Fault /\ StartFails /\ UNCHANGED nodeVars
  /\ StartOnly

(* One label of RemoveNTHLabels. *)
RemovesLabel(key, ok) ==
  IF ok THEN RemoveNTHLabel(key) /\ UNCHANGED faults
        ELSE /\ IF CanRemove(key) THEN Fault ELSE UNCHANGED faults
             /\ UNCHANGED nodeVars

StartRemoveLabel(ok) ==
  /\ startPc \in LabelKey
  /\ RemovesLabel(startPc, ok)
  /\ IF ok THEN StartGoes(AfterLabel(startPc)) ELSE StartFails
  /\ StartOnly

RemovesTaints(ok) ==
  IF ok THEN RemoveNTHTaints /\ UNCHANGED faults ELSE RemoveSomeTaints /\ Fault

StartRemoveTaints(ok) ==
  /\ startPc = "taints"
  /\ RemovesTaints(ok)
  /\ IF ok THEN StartGoes("ignore") ELSE StartFails
  /\ StartOnly

(* Mutant: the event is not ignored when the node has rebooted. *)
StartIgnoreUnlessRebooted ==
  /\ startPc = "ignore"
  /\ IF boot > 0 THEN UNCHANGED storeVars ELSE \E id \in startEvent : IgnoreEvent(id)
  /\ startPc' = "up" /\ startEvent' = {}
  /\ UNCHANGED <<mainVars, slots, workerVars, watcher, cancelVars, attempts, nodeVars,
                 metadata, monitorVars, stepVars, boundVars>>

StartIgnore ==
  /\ startPc = "ignore"
  /\ \E id \in startEvent : IgnoreEvent(id)
  /\ startPc' = "up" /\ startEvent' = {}
  /\ UNCHANGED <<mainVars, slots, workerVars, watcher, cancelVars, attempts, nodeVars,
                 metadata, monitorVars, stepVars, boundVars>>

Startup ==
  \/ \E ok \in BOOLEAN :
       \/ StartCheck(ok) \/ StartUncordon(ok) \/ StartRemoveLabel(ok)
       \/ StartRemoveTaints(ok)
  \/ StartIgnore

-----------------------------------------------------------------------------
(* The monitors *)

MonitorOnly == UNCHANGED <<nodeVars, metadata, startVars, stepVars, boundVars>>

Shown(k) ==
  {[event |-> a, state |-> metadata[NoticeOfArrival(a)]] :
     a \in {b \in Arrival : b.kind = k /\ metadata[NoticeOfArrival(b)] # "none"}}

(* Spot, rebalance and scheduled: the EventID only depends on the notice. *)
Poll(k) ==
  /\ Up /\ toSend[k] = {} /\ k # "terminate"
  /\ toSend' = [toSend EXCEPT ![k] = Shown(k)]
  /\ UNCHANGED vars
  /\ MonitorOnly

(* EventIDs that something still refers to. *)
KnownIds ==
  {Id(o) : o \in Object \ Garbage} \cup ignoredEvents
    \cup {a.id : a \in {b \in Arrival : b = watcher}}
    \cup {labels[key] : key \in {"event-id"} \cap DOMAIN labels}

(***************************************************************************)
(* ASG target lifecycle state: the EventID is made from the time of the    *)
(* poll, so it is a new one.  An EventID nothing refers to is as good as   *)
(* new; at most as many are in use at a time as there are EventIDs.        *)
(***************************************************************************)
PollLifecycleState(k) ==
  /\ Up /\ toSend[k] = {} /\ k = "terminate"
  /\ \E x \in Shown(k) :
       /\ x.event.id \notin KnownIds
       /\ toSend' = [toSend EXCEPT ![k] = {x}]
  /\ UNCHANGED vars
  /\ MonitorOnly

(* Mutant: only completed maintenance is sent on cancelChan. *)
SendOnlyCompleted(k, x) ==
  /\ Up /\ x \in toSend[k]
  /\ IF x.state = "completed" THEN ReceiveCancellation(x.event)
                              ELSE ReceiveInterruption(x.event)
  /\ toSend' = [toSend EXCEPT ![k] = toSend[k] \ {x}]
  /\ MonitorOnly

(* What ended is sent on cancelChan, anything else on interruptionChan. *)
SendEvent(k, x) ==
  /\ Up /\ x \in toSend[k]
  /\ IF x.state \in Ended THEN ReceiveCancellation(x.event)
                          ELSE ReceiveInterruption(x.event)
  /\ toSend' = [toSend EXCEPT ![k] = toSend[k] \ {x}]
  /\ MonitorOnly

MonitorStep(k) ==
  \/ Poll(k) \/ PollLifecycleState(k)
  \/ \E x \in toSend[k] : SendEvent(k, x)

-----------------------------------------------------------------------------
(* The pre-drain tasks *)

TaskOnly == UNCHANGED <<metadata, monitorVars, startVars, cleaning, crashes, rebootedFor>>

(* The task goes on, or it ends there and the handler goes on. *)
TaskGoes(o, to) == task' = [task EXCEPT ![o] = to] /\ UNCHANGED vars
TaskEnds(o) == task' = [task EXCEPT ![o] = "begin"] /\ PreDrain(o)

(* At step "at" of the task of a restart event a call fails. *)
TaskFails(o, at) ==
  /\ pc[o] = "preDrain" /\ RestartEvent(sent[o]) /\ task[o] = at
  /\ at = "taint" => TaintNode
  /\ IF at = "rollback" /\ "action" \notin DOMAIN labels THEN UNCHANGED faults ELSE Fault
  /\ UNCHANGED nodeVars
  /\ IF at = "time" THEN TaskGoes(o, "rollback") ELSE TaskEnds(o)
  /\ TaskOnly

TaskAt(o, at) ==
  pc[o] = "preDrain" /\ RestartEvent(sent[o]) /\ task[o] = at /\ TaskOnly /\ UNCHANGED faults

TaskMarksEvent(o) ==
  TaskAt(o, "begin") /\ MarkWithEventID(Id(o)) /\ TaskGoes(o, "taint")

TaskTaints(o) ==
  TaskAt(o, "taint") /\ AddTaint(sent[o].kind) /\ TaskGoes(o, "check")

(* Mutant: the task does not look whether the node is cordoned already. *)
TaskChecksNothing(o) ==
  TaskAt(o, "check") /\ UNCHANGED nodeVars /\ TaskGoes(o, "action")

(* A node that is unschedulable already gets no action label. *)
TaskChecks(o) ==
  /\ TaskAt(o, "check")
  /\ IF unschedulable THEN TaskEnds(o) ELSE TaskGoes(o, "action")
  /\ UNCHANGED nodeVars

TaskMarksAction(o) == TaskAt(o, "action") /\ MarkAction /\ TaskGoes(o, "time")

TaskMarksTime(o) == TaskAt(o, "time") /\ MarkActionTime /\ TaskEnds(o)

TaskRollsBack(o) == TaskAt(o, "rollback") /\ removeLabel("action") /\ TaskEnds(o)

(* Of the other kinds: set the taint.  An error is only logged. *)
TaintTask(o, ok) ==
  /\ pc[o] = "preDrain" /\ ~RestartEvent(sent[o])
  /\ ok \/ TaintNode
  /\ IF ok THEN AddTaint(sent[o].kind) /\ UNCHANGED faults ELSE Fault /\ UNCHANGED nodeVars
  /\ TaskEnds(o)
  /\ TaskOnly

PreDrainStep(o) ==
  \/ TaskMarksEvent(o) \/ TaskTaints(o) \/ TaskChecks(o)
  \/ TaskMarksAction(o) \/ TaskMarksTime(o) \/ TaskRollsBack(o)
  \/ \E at \in {"begin", "taint", "check", "action", "time", "rollback"} : TaskFails(o, at)
  \/ \E ok \in BOOLEAN : TaintTask(o, ok)

-----------------------------------------------------------------------------
(* The Dispatcher's other steps, and what they do to the node *)

ImdsOnly == UNCHANGED <<metadata, monitorVars, startVars, stepVars, crashes, rebootedFor>>

Local == UNCHANGED imdsVars

(* Only a spot interruption has a StartTime that lies ahead. *)
StoreEvent(o) ==
  /\ AddReceived(o)
  /\ (interruptionEventStore' # interruptionEventStore /\ sent'[o].kind # "spot")
       => due'[o]
  /\ Local

ReadLabels(o, ok) ==
  /\ GetNodeLabels(o, ok)
  /\ IF ok THEN UNCHANGED faults ELSE Fault
  /\ UNCHANGED nodeVars /\ ImdsOnly

(* When it fails, the label for the load balancers may have been added. *)
CordonsNode(o, ok) ==
  /\ Cordon(o, ok)
  /\ IF ok THEN UNCHANGED faults /\ (IF OnlyCordons(o) THEN CordonNode ELSE MarkAndCordon)
           ELSE /\ Fault
                /\ \/ UNCHANGED nodeVars
                   \/ ~OnlyCordons(o) /\ MaybeMarkForExclusionFromLoadBalancers
  /\ ImdsOnly

DrainsNode(o, ok) ==
  /\ Drain(o, ok)
  /\ IF ok THEN UNCHANGED faults /\ EvictPods ELSE Fault /\ UNCHANGED nodeVars
  /\ ImdsOnly

ImdsWorkerStep(o) ==
  \/ GetNodeName(o, TRUE) /\ Local
  \/ \E ok \in BOOLEAN : ReadLabels(o, ok) \/ CordonsNode(o, ok) \/ DrainsNode(o, ok)
  \/ PreDrainStep(o)
  \/ CancelEvent(o) /\ Local
  \/ Mark(o) /\ Local
  \/ ReleaseSlot(o) /\ Local

(* After a cancellation: uncordon, remove the labels, remove the taints. *)
CancelUncordons(ok) ==
  /\ UncordonCancelled
  /\ IF ok THEN UncordonNode /\ UNCHANGED faults ELSE Fault /\ UNCHANGED nodeVars
  /\ ImdsOnly

CancelRemovesLabel(ok) ==
  /\ cancelPc = "cleanup" /\ cleaning \in LabelKey
  /\ RemovesLabel(cleaning, ok)
  /\ cleaning' = IF ok THEN AfterLabel(cleaning) ELSE "taints"
  /\ UNCHANGED <<vars, metadata, monitorVars, startVars, task, crashes,
                 rebootedFor>>

CancelRemovesTaints(ok) ==
  /\ cleaning = "taints"
  /\ CleanUpCancelled
  /\ RemovesTaints(ok)
  /\ cleaning' = "event-id"
  /\ UNCHANGED <<metadata, monitorVars, startVars, task, crashes,
                 rebootedFor>>

ImdsCancellationStep ==
  \/ CancelReceived /\ Local
  \/ CheckUncordon /\ Local
  \/ \E ok \in BOOLEAN :
       CancelUncordons(ok) \/ CancelRemovesLabel(ok) \/ CancelRemovesTaints(ok)

ImdsNext ==
  \/ External
  \/ Startup
  \/ \E k \in Kinds : MonitorStep(k)
  \/ \E o \in Object : StoreEvent(o) \/ (EventBecomesDue(o) /\ Local)
  \/ Up /\ MainStep /\ Local
  \/ \E o \in Object : ImdsWorkerStep(o)
  \/ ImdsCancellationStep

ImdsSpec == ImdsInit /\ [][ImdsNext]_allVars

(* Every goroutine that can move does. *)
ImdsFairness ==
  /\ WF_allVars(Startup)
  /\ \A k \in Kinds : WF_allVars(MonitorStep(k))
  /\ WF_allVars(\E o \in Object : StoreEvent(o))
  /\ WF_allVars(Up /\ MainStep /\ Local)
  /\ \A o \in Object : WF_allVars(ImdsWorkerStep(o))
  /\ WF_allVars(ImdsCancellationStep)
  /\ \A o \in Object : WF_allVars(EventBecomesDue(o) /\ Local)

ImdsLiveSpec == ImdsSpec /\ ImdsFairness

-----------------------------------------------------------------------------
(* Properties *)

NothingEnded == \A n \in Notice : metadata[n] \notin Ended

(* The node is as event o asks for it. *)
NodeSettled(o) == unschedulable /\ (OnlyCordons(o) \/ ~pods)

(***************************************************************************)
(* While an event that counts as processed is in the store, the node is    *)
(* cordoned, and drained if that kind of event asks for it, whatever order *)
(* the notices of several monitors are handled in.  (Maintenance that      *)
(* ended or took place uncordons the node.)                                *)
(***************************************************************************)
ProcessedMeansDrained ==
  (boot = 0 /\ NothingEnded) =>
    \A o \in Object :
      (Stored(o) /\ nodeProcessed[o]) => NodeSettled(o)

(***************************************************************************)
(* MarkAllAsProcessed settles every event of the node when one is handled, *)
(* so all of them have to ask for the same: only cordoned, or drained too. *)
(* And a drain has to list the pods, which the cache does not ensure.      *)
(***************************************************************************)
OneManner ==
  \/ CordonOnly \/ EnableSQSTerminationDraining \/ EnableRebalanceDraining
  \/ \A a, b \in Arrival : a.kind = "rebalance" => b.kind = "rebalance"

PodsListed == ~UseAPIServerCacheToListPods

(* Why: nothing uncordons the node, and a worker that is about to settle   *)
(* its event has done what the event asks for.                             *)
DoneAsAsked(o) ==
  /\ pc[o] = "drain" => unschedulable
  /\ pc[o] = "mark" => NodeSettled(o)
  /\ Stored(o) /\ nodeProcessed[o] => NodeSettled(o)

DrainInv ==
  /\ "action-time" \in DOMAIN labels => labels["action-time"] \in 0 .. boot
  /\ (boot = 0 /\ NothingEnded) =>
       /\ startPc \in {"check", "ignore", "up"}
       /\ cancelPc = "wait"
       /\ \A k \in Kinds : \A y \in toSend[k] : y.state \notin Ended
       /\ \A o \in Object : DoneAsAsked(o)

(***************************************************************************)
(* A node that was cordoned before the maintenance was announced is not    *)
(* uncordoned because of the reboot: uncordonAfterRebootPreDrain sets no   *)
(* action label on it.                                                     *)
(***************************************************************************)
OperatorCordonKept == (CordonedBefore /\ NothingEnded) => unschedulable

(* Why: nothing is on the way that would uncordon the node. *)
OperatorInv ==
  (CordonedBefore /\ NothingEnded) =>
    /\ unschedulable
    /\ "action" \notin DOMAIN labels
    /\ startPc \in {"check", "up"}
    /\ \A o \in Object : task[o] \in {"begin", "taint", "check"}
    /\ cancelPc = "wait"
    /\ \A k \in Kinds : \A y \in toSend[k] : y.state \notin Ended

(***************************************************************************)
(* MarkWithEventID: the event the node was labelled with is ignored after  *)
(* the reboot, although the metadata still shows it.                       *)
(***************************************************************************)
RebootedEventIgnored == \A o \in Busy : Id(o) \notin rebootedFor

(* The reboot is the first restart of the pod, and handleRebootUncordon,   *)
(* which remembers the event only within one call, has not failed.         *)
StartupUndisturbed == crashes = 0 /\ boot <= 1 /\ attempts = 0

(* Why: the event goes from the label to eventID to the ignored events.    *)
RebootInv ==
  /\ boot = 0 => rebootedFor = {}
  /\ \A x, y \in startEvent : x = y
  /\ StartupUndisturbed =>
       /\ (startPc = "check" /\ rebootedFor # {}) =>
             IsLabeledWithAction /\ rebootedFor = {labels["event-id"]}
       /\ startPc \notin {"check", "up"} => rebootedFor \subseteq startEvent
       /\ startPc = "up" => rebootedFor \subseteq ignoredEvents

(***************************************************************************)
(* A reboot is acted on once: while the process is up, through whatever it *)
(* has labelled, drained and cleaned since, the node has no labels of an   *)
(* earlier boot, for which UncordonIfRebooted would uncordon it when the   *)
(* pod restarts.                                                           *)
(***************************************************************************)
UncordonedOnce == (StartupUndisturbed /\ Up) => ~(IsLabeledWithAction /\ Rebooted)

(***************************************************************************)
(* A notice the metadata shows leads to a node that is cordoned and        *)
(* drained, unless it ends or the instance reboots before that.            *)
(***************************************************************************)
InterruptionHandled ==
  \A n \in Notice :
    (metadata[n] = "active")
      ~> ((unschedulable /\ ~pods) \/ metadata[n] # "active" \/ boot > 0)

(***************************************************************************)
(* After the reboot it was labelled for, the node is uncordoned and        *)
(* untainted for good, when nothing else is announced.                     *)
(***************************************************************************)
NodeBackInService == (rebootedFor # {}) ~> [](~unschedulable /\ taints = {})

(***************************************************************************)
(* A node that was cordoned for maintenance that was cancelled, or is      *)
(* complete, is uncordoned and stays so, although a drain that had begun   *)
(* goes on and cordons it after the first cancellation was handled.        *)
(***************************************************************************)
EndedMaintenanceUncordons ==
  (\A n \in Notice : metadata[n] \in Ended) ~> []~unschedulable

(***************************************************************************)
(* removeLabelIfValueMatches: a label of another value is not removed.     *)
(***************************************************************************)
ForeignLabelKept == ExcludedBefore => "exclude" \in DOMAIN labels

(***************************************************************************)
(* The EventID of the ASG target lifecycle state is to prevent duplicates: *)
(* the store has at most one event of a notice.                            *)
(***************************************************************************)
OneEventPerNotice ==
  \A o, p \in Object :
    (Stored(o) /\ Stored(p) /\ NoticeOf[Id(o)] = NoticeOf[Id(p)]) => o = p

(***************************************************************************)
(* A cancellation does not uncordon the node while another interruption    *)
(* event is active.                                                        *)
(***************************************************************************)
NoUncordonWhileActive ==
  [][(cancelPc = "uncordon" /\ unschedulable /\ ~unschedulable')
       => \A o \in Object : Stored(o) => Id(o) \in ignoredEvents]_allVars
=============================================================================
