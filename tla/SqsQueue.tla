------------------------------ MODULE SqsQueue ------------------------------
(***************************************************************************)
(* Queue processor mode: the SQS monitor, the queue and the lifecycle      *)
(* hooks around the Dispatcher.                                            *)
(*                                                                         *)
(* The monitor (pkg/monitor/sqsevent) receives messages, turns each into   *)
(* interruption events and sends them on interruptionChan.  A message      *)
(* stays in the queue until it is deleted, and is delivered again when it  *)
(* was not: by the monitor itself when no event of it is actionable, and   *)
(* by the post-drain task of an event otherwise.  The post-drain task of   *)
(* an ASG lifecycle event first completes the lifecycle action.            *)
(*                                                                         *)
(* Every step is a step of the Dispatcher, or leaves its variables alone,  *)
(* or starts the process again.  SQS, EC2, the ASG and the Kubernetes API  *)
(* are external.  Their failures are counted in "faults".                  *)
(***************************************************************************)
EXTENDS Dispatcher

CONSTANTS
  Message,                \* SQS messages
  Body,                   \* Message -> "events", "test" or "invalid"
  Wrappers,               \* Message -> the interruption events it describes
  CheckIfManaged,
  Managed,                \* nodes whose instance carries the managed tag
  duplicateErrThreshold,
  StaleHandlesWork,       \* SQS honours a receipt handle that is not the newest
  InCluster,              \* nodes that are in the cluster from the start
  MaxFaults,              \* bound: failed calls of an external service
  MaxCrashes              \* bound: crashes of the process

ASSUME QueueAssumption ==
  /\ Wrappers \in [Message -> SUBSET Arrival]
  /\ \A m \in Message : \A a \in Wrappers[m] : a.msg = m
  /\ \A a \in Arrival : a.msg \in Message /\ a \in Wrappers[a.msg]
  /\ {duplicateErrThreshold, MaxFaults, MaxCrashes} \subseteq Nat
  /\ Cancellable = {}

VARIABLES
  queue,              \* Message -> its state in SQS
  hook,               \* Message -> state of the lifecycle action it announces
  instance,           \* NodeName -> whether its EC2 instance still exists
  registered,         \* NodeName -> whether the cluster has the node
  drained,            \* nodes a cordon or drain of which succeeded
  faults, crashes,
  monPc,              \* program counter of SQSMonitor.Monitor
  batch,              \* messages received and not yet looked at
  current,            \* messages being processed (at most one)
  todo,               \* its events that are still to be sent
  noneProcessed,      \* every message of the batch so far failed
  failed,             \* the current message has an event that failed
  previousErr, duplicateErrCount,  \* of the monitor's goroutine in main
  stale,              \* holders of a receipt handle that is not the newest
  continued           \* workers that have completed their lifecycle action

monitorVars == <<monPc, batch, current, todo, noneProcessed, failed>>
errVars == <<previousErr, duplicateErrCount>>
cloudVars == <<queue, hook, instance, registered, drained, faults, crashes>>
handleVars == <<stale, continued>>
queueVars == <<cloudVars, monitorVars, errVars, handleVars>>
allVars == <<vars, queueVars>>

Lifecycle(a) == a.kind \in {"terminate", "launch"}

(***************************************************************************)
(* The events the monitor makes of a message m about node n, and the       *)
(* callbacks each kind has.  All entities of an AWS Health event share one *)
(* EventID.                                                                *)
(***************************************************************************)
QueueEvent(kind, tasks, id, n, m) ==
  [id |-> id, kind |-> kind, nodeName |-> n, providerName |-> n, tasks |-> tasks,
   msg |-> m]

asgTerminationToInterruptionEvent(id, n, m) ==
  QueueEvent("terminate", {"pre", "cancel", "post"}, id, n, m)

createAsgInstanceLaunchEvent(id, n, m) == QueueEvent("launch", {"post"}, id, n, m)

spotITNTerminationToInterruptionEvent(id, n, m) ==
  QueueEvent("spot", {"pre", "post"}, id, n, m)

rebalanceRecommendationToInterruptionEvent(id, n, m) ==
  QueueEvent("rebalance", {"pre", "post"}, id, n, m)

ec2StateChangeToInterruptionEvent(id, n, m) ==
  QueueEvent("stateChange", {"post"}, id, n, m)

scheduledEventToInterruptionEvents(id, entities, m) ==
  {QueueEvent("scheduled", {"pre", "post"}, id, n, m) : n \in entities}

QueueTypeOK ==
  /\ queue \in [Message -> {"unsent", "visible", "inflight", "deleted"}]
  /\ hook \in [Message -> {"none", "waiting", "continued", "expired"}]
  /\ instance \in [NodeName -> {"running", "gone"}]
  /\ registered \in [NodeName -> BOOLEAN]
  /\ drained \subseteq NodeName
  /\ faults \in 0 .. MaxFaults
  /\ crashes \in 0 .. MaxCrashes
  /\ monPc \in {"poll", "batch", "send", "drop"}
  /\ batch \subseteq Message
  /\ current \subseteq Message /\ Cardinality(current) <= 1
  /\ todo \subseteq Arrival
  /\ noneProcessed \in BOOLEAN /\ failed \in BOOLEAN
  /\ previousErr \in {"nil", "receive", "noneProcessed"}
  /\ duplicateErrCount \in 0 .. duplicateErrThreshold
  /\ stale \subseteq Object \cup {"watcher"}
  /\ continued \subseteq Object

QueueInit ==
  /\ Init
  /\ queue = [m \in Message |-> "unsent"]
  /\ hook = [m \in Message |->
               IF \E a \in Wrappers[m] : Lifecycle(a) THEN "waiting" ELSE "none"]
  /\ instance = [n \in NodeName |-> "running"]
  /\ registered = [n \in NodeName |-> n \in InCluster]
  /\ drained = {}
  /\ faults = 0 /\ crashes = 0
  /\ monPc = "poll" /\ batch = {} /\ current = {} /\ todo = {}
  /\ noneProcessed = TRUE /\ failed = FALSE
  /\ previousErr = "nil" /\ duplicateErrCount = 0
  /\ stale = {} /\ continued = {}

-----------------------------------------------------------------------------
(* External services *)

(* A call fails for no reason the program can see; MaxFaults times at most. *)
Fault == faults < MaxFaults /\ faults' = faults + 1

(* A call about node n: it cannot succeed when the cluster has no such node. *)
NodeAnswer(n, ok) ==
  IF ok THEN registered[n] /\ UNCHANGED faults
        ELSE IF registered[n] THEN Fault ELSE UNCHANGED faults

(***************************************************************************)
(* SQS: a delete with a receipt handle that is not the message's newest    *)
(* may be accepted and still leave the message in the queue.               *)
(***************************************************************************)
DeleteMessage(m, isStale) ==
  \/ queue' = [queue EXCEPT ![m] = "deleted"]
  \/ isStale /\ ~StaleHandlesWork /\ UNCHANGED queue

MessageArrives(m) ==
  /\ queue[m] = "unsent"
  /\ queue' = [queue EXCEPT ![m] = "visible"]
  /\ UNCHANGED <<vars, hook, instance, registered, drained, faults, crashes,
                 monitorVars, errVars, handleVars>>

VisibilityExpires(m) ==
  /\ queue[m] = "inflight"
  /\ queue' = [queue EXCEPT ![m] = "visible"]
  /\ UNCHANGED <<vars, hook, instance, registered, drained, faults, crashes,
                 monitorVars, errVars, handleVars>>

(* The hook's heartbeat timeout passes. *)
HookExpires(m) ==
  /\ queue[m] # "unsent"
  /\ hook[m] = "waiting"
  /\ hook' = [hook EXCEPT ![m] = "expired"]
  /\ UNCHANGED <<vars, queue, instance, registered, drained, faults, crashes,
                 monitorVars, errVars, handleVars>>

(***************************************************************************)
(* An instance ends after its interruption was announced.  A termination   *)
(* by the ASG waits for the hook to be continued or to expire.             *)
(***************************************************************************)
Ends(a) ==
  /\ queue[a.msg] # "unsent"
  /\ a.kind # "launch"
  /\ a.kind = "terminate" => hook[a.msg] # "waiting"

InstanceEnds(n) ==
  /\ instance[n] = "running"
  /\ \E a \in Arrival : a.nodeName = n /\ Ends(a)
  /\ instance' = [instance EXCEPT ![n] = "gone"]
  /\ UNCHANGED <<vars, queue, hook, registered, drained, faults, crashes,
                 monitorVars, errVars, handleVars>>

NodeDeregistered(n) ==
  /\ instance[n] = "gone"
  /\ registered[n]
  /\ registered' = [registered EXCEPT ![n] = FALSE]
  /\ UNCHANGED <<vars, queue, hook, instance, drained, faults, crashes,
                 monitorVars, errVars, handleVars>>

(* The node of a launched instance joins the cluster and becomes ready. *)
NodeJoins(n) ==
  /\ instance[n] = "running"
  /\ ~registered[n]
  /\ \E a \in Arrival : a.nodeName = n /\ a.kind = "launch"
  /\ registered' = [registered EXCEPT ![n] = TRUE]
  /\ UNCHANGED <<vars, queue, hook, instance, drained, faults, crashes,
                 monitorVars, errVars, handleVars>>

External ==
  \/ \E m \in Message : MessageArrives(m) \/ VisibilityExpires(m) \/ HookExpires(m)
  \/ \E n \in NodeName : InstanceEnds(n) \/ NodeDeregistered(n) \/ NodeJoins(n)

-----------------------------------------------------------------------------
(* The process starts again. *)

Restart ==
  /\ DispatcherRestarts
  /\ monPc' = "poll" /\ batch' = {} /\ current' = {} /\ todo' = {}
  /\ noneProcessed' = TRUE /\ failed' = FALSE
  /\ previousErr' = "nil" /\ duplicateErrCount' = 0
  /\ stale' = {} /\ continued' = {}

Crash ==
  /\ crashes < MaxCrashes
  /\ crashes' = crashes + 1
  /\ Restart
  /\ UNCHANGED <<queue, hook, instance, registered, drained, faults>>

-----------------------------------------------------------------------------
(* The monitor: Monitor, and the goroutine in main that calls it *)

(* The call returns without an error. *)
MonitorReturns ==
  /\ monPc' = "poll" /\ batch' = {} /\ current' = {} /\ todo' = {}
  /\ noneProcessed' = TRUE /\ failed' = FALSE
  /\ UNCHANGED <<vars, errVars, handleVars>>

(* The call returns error e; too many equal errors stop the process. *)
MonitorFails(e) ==
  LET count == IF previousErr = e THEN duplicateErrCount + 1 ELSE 0
  IN  IF count >= duplicateErrThreshold
      THEN Restart
      ELSE /\ previousErr' = e
           /\ duplicateErrCount' = count
           /\ monPc' = "poll" /\ batch' = {} /\ current' = {} /\ todo' = {}
           /\ noneProcessed' = TRUE /\ failed' = FALSE
           /\ UNCHANGED <<vars, handleVars>>

ReceiveFails ==
  /\ monPc = "poll"
  /\ Fault
  /\ MonitorFails("receive")
  /\ UNCHANGED <<queue, hook, instance, registered, drained, crashes>>

(* Events of message m that somebody still holds (if it makes a difference). *)
Holders(m) == IF StaleHandlesWork THEN {} ELSE
  {o \in Object \ Garbage : sent[o].msg = m}
    \cup (IF watcher # NoArrival /\ watcher.msg = m THEN {"watcher"} ELSE {})

(* A receive makes the handles of earlier deliveries of the message stale. *)
ReceiveMessages(S) ==
  /\ monPc = "poll"
  /\ S # {}
  /\ \A m \in S : queue[m] = "visible"
  /\ monPc' = "batch"
  /\ batch' = S
  /\ queue' = [m \in Message |-> IF m \in S THEN "inflight" ELSE queue[m]]
  /\ stale' = stale \cup UNION {Holders(m) : m \in S}
  /\ UNCHANGED <<vars, hook, instance, registered, drained, faults, crashes,
                 current, todo, noneProcessed, failed, errVars, continued>>

(* processSQSMessage cannot interpret the message, or its source is unknown. *)
RejectMessage(m) ==
  /\ monPc = "batch" /\ m \in batch
  /\ Body[m] = "invalid"
  /\ batch' = batch \ {m}
  /\ UNCHANGED <<vars, cloudVars, monPc, current, todo, noneProcessed, failed,
                 errVars, handleVars>>

(* A test notification is deleted; an error of the delete is only logged. *)
DeleteTestMessage(m, ok) ==
  /\ monPc = "batch" /\ m \in batch
  /\ Body[m] = "test"
  /\ batch' = batch \ {m}
  /\ noneProcessed' = FALSE
  /\ IF ok THEN DeleteMessage(m, FALSE) /\ UNCHANGED faults
           ELSE Fault /\ UNCHANGED queue
  /\ UNCHANGED <<vars, hook, instance, registered, drained, crashes, monPc,
                 current, todo, failed, errVars, handleVars>>

(***************************************************************************)
(* What EC2 says about the instance of an event: the call fails, the       *)
(* instance is gone, or it is there and carries the managed tag or not.    *)
(***************************************************************************)
getNodeInfo(a, errors) ==
  CASE a \in errors -> "error"
    [] a \notin errors /\ instance[a.nodeName] = "gone" -> "skip"
    [] OTHER -> IF a.nodeName \in Managed THEN "managed" ELSE "unmanaged"

(* Mutant: events whose instance EC2 could not describe are dropped. *)
DropsErrors(m, errors) ==
  {a \in Wrappers[m] : \/ getNodeInfo(a, errors) \in {"skip", "error"}
                       \/ CheckIfManaged /\ getNodeInfo(a, errors) = "unmanaged"}

(* The events of the message that processInterruptionEvents drops. *)
Dropped(m, errors) ==
  {a \in Wrappers[m] : \/ getNodeInfo(a, errors) = "skip"
                       \/ CheckIfManaged /\ getNodeInfo(a, errors) = "unmanaged"}

(***************************************************************************)
(* processEventBridgeEvent asks EC2 about the instance of every event of   *)
(* the message.  Events whose call failed are left for a redelivery; the   *)
(* message is deleted when every one of its events is dropped.             *)
(***************************************************************************)
InterpretMessage(m, errors) ==
  /\ monPc = "batch" /\ m \in batch
  /\ Body[m] = "events"
  /\ IF errors = {} THEN UNCHANGED faults ELSE Fault
  /\ batch' = batch \ {m}
  /\ current' = {m}
  /\ todo' = Wrappers[m] \ (Dropped(m, errors) \cup errors)
  /\ failed' = (errors # {})
  /\ monPc' = IF Dropped(m, errors) = Wrappers[m] THEN "drop" ELSE "send"
  /\ UNCHANGED <<vars, queue, hook, instance, registered, drained, crashes,
                 noneProcessed, errVars, handleVars>>

(* The send on the unbuffered interruptionChan meets the watcher's receive. *)
SendEvent(a) ==
  /\ monPc = "send" /\ a \in todo
  /\ ReceiveInterruption(a)
  /\ todo' = todo \ {a}
  /\ stale' = stale \ {"watcher"}
  /\ UNCHANGED <<cloudVars, monPc, batch, current, noneProcessed, failed, errVars,
                 continued>>

MessageProcessed ==
  /\ monPc = "send" /\ todo = {}
  /\ monPc' = "batch"
  /\ current' = {}
  /\ noneProcessed' = (noneProcessed /\ failed)
  /\ failed' = FALSE
  /\ UNCHANGED <<vars, cloudVars, batch, todo, errVars, handleVars>>

(* No event of the message is actionable: delete it. *)
DropMessage(ok) ==
  /\ monPc = "drop"
  /\ \E m \in current :
       IF ok THEN DeleteMessage(m, FALSE) /\ UNCHANGED faults
             ELSE Fault /\ UNCHANGED queue
  /\ monPc' = "batch"
  /\ current' = {}
  /\ noneProcessed' = (noneProcessed /\ ~ok)
  /\ UNCHANGED <<vars, hook, instance, registered, drained, crashes, batch, todo,
                 failed, errVars, handleVars>>

FinishBatch ==
  /\ monPc = "batch" /\ batch = {}
  /\ IF noneProcessed THEN MonitorFails("noneProcessed") ELSE MonitorReturns
  /\ UNCHANGED cloudVars

MonitorStep ==
  \/ ReceiveFails
  \/ \E S \in SUBSET Message : ReceiveMessages(S)
  \/ \E m \in Message : RejectMessage(m)
  \/ \E m \in Message, ok \in BOOLEAN : DeleteTestMessage(m, ok)
  \/ \E m \in Message : \E errors \in SUBSET Wrappers[m] : InterpretMessage(m, errors)
  \/ \E a \in Arrival : SendEvent(a)
  \/ MessageProcessed
  \/ \E ok \in BOOLEAN : DropMessage(ok)
  \/ FinishBatch

-----------------------------------------------------------------------------
(* The Dispatcher's steps, and what they do to the cluster and the queue *)

NodeOf(o) == ResolvedName(sent[o])

(* A step that reaches no external service. *)
Local == UNCHANGED queueVars

(* The StartTime of an event of the queue is past: it is due at once. *)
StoreEvent(o) ==
  /\ AddReceived(o)
  /\ interruptionEventStore' # interruptionEventStore => due'[o]
  /\ stale' = IF "watcher" \in stale THEN stale \cup {o} ELSE stale \ {o}
  /\ UNCHANGED <<cloudVars, monitorVars, errVars, continued>>

(* A Kubernetes call of the worker that changes no node the model tracks. *)
Asks(o, ok) ==
  /\ NodeAnswer(NodeOf(o), ok)
  /\ UNCHANGED <<queue, hook, instance, registered, drained, crashes, monitorVars,
                 errVars, handleVars>>

(* isNodeReady lists the nodes: an empty list and an error are both "no". *)
CheckReady(o) ==
  \/ LaunchReady(o) /\ Asks(o, TRUE)
  \/ LaunchNotReady(o) /\ Asks(o, FALSE)

LookUpName(o, ok) ==
  /\ GetNodeName(o, ok) \/ LaunchNodeName(o, ok)
  /\ IF UseProviderId THEN Asks(o, ok) ELSE Local

ReadLabels(o, ok) == GetNodeLabels(o, ok) /\ Asks(o, ok)

(* The node is cordoned, and that is all that is asked for. *)
CordonsNode(o, ok) ==
  /\ Cordon(o, ok)
  /\ NodeAnswer(NodeOf(o), ok)
  /\ drained' = IF ok /\ OnlyCordons(o) THEN drained \cup {NodeOf(o)} ELSE drained
  /\ UNCHANGED <<queue, hook, instance, registered, crashes, monitorVars, errVars,
                 handleVars>>

DrainsNode(o, ok) ==
  /\ Drain(o, ok)
  /\ NodeAnswer(NodeOf(o), ok)
  /\ drained' = IF ok THEN drained \cup {NodeOf(o)} ELSE drained
  /\ UNCHANGED <<queue, hook, instance, registered, crashes, monitorVars, errVars,
                 handleVars>>

(***************************************************************************)
(* The post-drain task.  For a lifecycle event it completes the lifecycle  *)
(* action first, and returns at once when that call fails.  Then it        *)
(* deletes the message.                                                    *)
(***************************************************************************)
PostTask(o) == LaunchPost(o) \/ PostDrain(o) \/ PostDrainNotFound(o)

AtPost(o) == pc[o] \in {"postLaunch", "post", "postNotFound"}

Pending(o) == Lifecycle(sent[o]) /\ o \notin continued

ContinueLifecycle(o) ==
  LET m == sent[o].msg
  IN  /\ AtPost(o) /\ Pending(o)
      /\ hook[m] = "waiting"
      /\ hook' = [hook EXCEPT ![m] = "continued"]
      /\ continued' = continued \cup {o}
      /\ UNCHANGED <<vars, queue, instance, registered, drained, faults, crashes,
                     monitorVars, errVars, stale>>

ContinueFails(o) ==
  /\ AtPost(o) /\ Pending(o)
  /\ IF hook[sent[o].msg] = "waiting" THEN Fault ELSE UNCHANGED faults
  /\ PostTask(o)
  /\ UNCHANGED <<queue, hook, instance, registered, drained, crashes, monitorVars,
                 errVars, handleVars>>

PostDeletes(o, ok) ==
  /\ AtPost(o) /\ ~Pending(o)
  /\ PostTask(o)
  /\ IF ok THEN DeleteMessage(sent[o].msg, o \in stale) /\ UNCHANGED faults
           ELSE Fault /\ UNCHANGED queue
  /\ UNCHANGED <<hook, instance, registered, drained, crashes, monitorVars, errVars,
                 handleVars>>

Finish(o) ==
  /\ ReleaseSlot(o)
  /\ stale' = stale \ {o}
  /\ continued' = continued \ {o}
  /\ UNCHANGED <<cloudVars, monitorVars, errVars>>

QueueWorkerStep(o) ==
  \/ CheckReady(o)
  \/ LaunchCancel(o) /\ Local
  \/ \E ok \in BOOLEAN : LookUpName(o, ok)
  \/ \E ok \in BOOLEAN : ReadLabels(o, ok)
  \/ PreDrain(o) /\ Local
  \/ \E ok \in BOOLEAN : CordonsNode(o, ok)
  \/ \E ok \in BOOLEAN : DrainsNode(o, ok)
  \/ CancelDrainTask(o) /\ Local
  \/ CancelEvent(o) /\ Local
  \/ Mark(o) /\ Local
  \/ ContinueLifecycle(o)
  \/ ContinueFails(o)
  \/ \E ok \in BOOLEAN : PostDeletes(o, ok)
  \/ TaintOutOfService(o) /\ Local
  \/ Finish(o)

QueueNext ==
  \/ External
  \/ Crash
  \/ MonitorStep
  \/ \E o \in Object : StoreEvent(o)
  \/ MainStep /\ Local
  \/ \E o \in Object : QueueWorkerStep(o)

QueueSpec == QueueInit /\ [][QueueNext]_allVars

(***************************************************************************)
(* Fairness.  Every goroutine that can move does.  Time passes, so a       *)
(* message becomes visible again.  A message that is visible again and     *)
(* again is received some day (SQS).                                       *)
(***************************************************************************)
QueueFairness ==
  /\ WF_allVars(MonitorStep)
  /\ \A m \in Message :
       /\ SF_allVars(\E S \in SUBSET Message : m \in S /\ ReceiveMessages(S))
       /\ WF_allVars(VisibilityExpires(m))
  /\ WF_allVars(\E o \in Object : StoreEvent(o))
  /\ WF_allVars(MainStep /\ Local)
  /\ \A o \in Object : WF_allVars(QueueWorkerStep(o))

QueueLiveSpec == QueueSpec /\ QueueFairness

-----------------------------------------------------------------------------
(* Properties *)

(* Nothing is left to do for the event: its node was drained, ... *)
Settled(a) ==
  \/ instance[a.nodeName] = "gone"
  \/ CheckIfManaged /\ a.nodeName \notin Managed
  \/ IF a.kind = "launch" THEN registered[ResolvedName(a)]
                          ELSE ResolvedName(a) \in drained

(***************************************************************************)
(* A message that describes interruptions leaves the queue only when       *)
(* nothing is left to do for any of them: no crash, failed call, duplicate *)
(* delivery or stale handle loses an interruption.                         *)
(***************************************************************************)
NoInterruptionLost ==
  \A m \in Message :
    (queue[m] = "deleted" /\ Body[m] = "events") => \A a \in Wrappers[m] : Settled(a)

(***************************************************************************)
(* The ASG is told to go on with a termination only after the node was     *)
(* drained, and with a launch only after the node joined the cluster.      *)
(***************************************************************************)
ContinuedOnlyWhenDone ==
  \A m \in Message : hook[m] = "continued" => \A a \in Wrappers[m] : Settled(a)

(***************************************************************************)
(* README: "Once a node becomes ready, NTH will complete the lifecycle     *)
(* hook".                                                                  *)
(***************************************************************************)
ReadyLaunchCompleted ==
  \A m \in Message :
    (queue[m] = "visible" /\ \A a \in Wrappers[m] : registered[ResolvedName(a)])
      ~> (hook[m] # "waiting")

(***************************************************************************)
(* deleteSqsMsgIfNodeNotFound: the message of a node that is not in the    *)
(* cluster is deleted in the end.                                          *)
(***************************************************************************)
NotFoundMessageDeleted ==
  \A m \in Message :
    (queue[m] = "visible" /\ \A a \in Wrappers[m] : ~registered[ResolvedName(a)])
      ~> (queue[m] = "deleted")

(***************************************************************************)
(* deleteSqsMsgIfNodeNotFound deletes a message whose interruption was not *)
(* settled only if the node is not in the cluster.                         *)
(***************************************************************************)
UnsettledOnlyIfNotFound ==
  \A m \in Message :
    queue[m] = "deleted"
      => \A a \in Wrappers[m] : Settled(a) \/ ~registered[ResolvedName(a)]

(***************************************************************************)
(* Every message that describes events leaves the queue in the end,        *)
(* although calls fail and the process crashes (finitely often).  With     *)
(* NoInterruptionLost: every announced interruption is settled.  A drain   *)
(* or a completion of the hook that failed is tried again, because the     *)
(* message is delivered again and the store forgets the failed and the     *)
(* processed event; when the hook expires first, the monitor deletes the   *)
(* message once the instance is gone.                                      *)
(***************************************************************************)
EveryMessageDeleted ==
  \A m \in Message :
    (queue[m] = "visible" /\ Body[m] # "invalid") ~> (queue[m] = "deleted")

(* The instances whose interruption was announced do end. *)
EndingSpec == QueueLiveSpec /\ \A n \in NodeName : WF_allVars(InstanceEnds(n))
=============================================================================
