--------------------------- MODULE ImdsMode_proofs ---------------------------
(***************************************************************************)
(* Proofs about IMDS mode, for every set of notices, events and heap       *)
(* cells, every number of workers, and every pattern of failed calls, pod  *)
(* restarts and reboots.                                                   *)
(*                                                                         *)
(* Until the startup is over nothing else has happened in the process      *)
(* (Fresh).  So the one call of IgnoreEvent comes as early as the          *)
(* Dispatcher assumes, and the Dispatcher's invariant holds in IMDS mode.  *)
(***************************************************************************)
EXTENDS ImdsMode, Dispatcher_proofs

(* The steps are many and wide, and need little arithmetic; where they do, *)
(* the leaf names the SMT solver.                                          *)
USE Zenon

(* Nothing has come in yet, and nothing runs. *)
Fresh ==
  /\ \A id \in EventID : interruptionEventStore[id] = NoObject
  /\ ignoredEvents = {} /\ ~atLeastOneEvent /\ callsSinceLastClean = 0
  /\ watcher = NoArrival /\ mainPc = "tick" /\ cancelPc = "wait"
  /\ \A o \in Object : pc[o] = "idle"

LabelledWithID == "event-id" \in DOMAIN labels => labels["event-id"] \in EventID

NoticeState == {"none", "active"} \cup Ended

StepTypes ==
  /\ metadata \in [Notice -> NoticeState]
  /\ toSend \in [Kinds -> SUBSET [event : Arrival, state : NoticeState]]
  /\ task \in [Object -> {"begin", "taint", "check", "action", "time", "rollback"}]

ImdsInv ==
  /\ DispatcherInv
  /\ startPc # "up" => Fresh
  /\ startEvent \subseteq EventID
  /\ LabelledWithID
  /\ StepTypes

-----------------------------------------------------------------------------
(* The Dispatcher inside IMDS mode *)

(* A worker's step in IMDS mode is one of the Dispatcher, or leaves it alone. *)
LEMMA ImdsWorkerSteps ==
  ASSUME NEW o \in Object, ImdsWorkerStep(o)
  PROVE  UNCHANGED vars \/ WorkerStep(o)
<1>1. CASE PreDrainStep(o)
  BY <1>1 DEF PreDrainStep, TaskMarksEvent, TaskTaints, TaskChecks, TaskMarksAction,
              TaskMarksTime, TaskRollsBack, TaskFails, TaintTask, TaskGoes, TaskEnds,
              WorkerStep
<1>2. CASE ~PreDrainStep(o)
  BY <1>2, ImdsWorkerStep(o) DEF ImdsWorkerStep, ReadLabels, CordonsNode, DrainsNode,
              WorkerStep
<1> QED BY <1>1, <1>2

(* Before the startup is over, no other goroutine of the process moves. *)
LEMMA OnlyStartup ==
  ASSUME ImdsInv, startPc # "up", [ImdsNext]_allVars, ~StartIgnore
  PROVE  UNCHANGED vars \/ DispatcherRestarts
<1>0. Fresh
  BY DEF ImdsInv
<1>1. CASE External
  BY <1>1 DEF External, NoticeAppears, NoticeEnds, PodScheduled, Crash, Reboot, ProcessStarts
<1>2. CASE Startup
  BY <1>2, ~StartIgnore DEF Startup, StartCheck, StartUncordon, StartRemoveLabel, StartRemoveTaints,
              StartOnly
<1>3. CASE \E k \in Kinds : MonitorStep(k)
  BY <1>3 DEF MonitorStep, Poll, PollLifecycleState, SendEvent, Up
<1>4. CASE \E o \in Object : StoreEvent(o) \/ (EventBecomesDue(o) /\ Local)
  <2>1. PICK o \in Object : StoreEvent(o) \/ EventBecomesDue(o)
    BY <1>4
  <2>2. ~StoreEvent(o)
    BY <1>0 DEF Fresh, StoreEvent, AddReceived
  <2>3. sent[o].id \in EventID
    BY StoreAssumption DEF ImdsInv, DispatcherInv, DispatcherTypeOK, StoreTypeOK
  <2>4. ~EventBecomesDue(o)
    BY <1>0, <2>3, StoreAssumption DEF Fresh, EventBecomesDue, BecomeDue, Stored, Id
  <2> QED BY <2>1, <2>2, <2>4
<1>5. CASE Up /\ MainStep /\ Local
  BY <1>5 DEF Up
<1>6. ASSUME NEW o \in Object, ImdsWorkerStep(o)
      PROVE  UNCHANGED vars
  <2>1. CASE WorkerStep(o)
    <3>1. pc[o] = "idle"
      BY <1>0 DEF Fresh
    <3> QED BY <2>1, <3>1 DEF WorkerStep, LaunchReady, LaunchNotReady, LaunchCancel, LaunchNodeName,
              LaunchPost, GetNodeName, GetNodeLabels, PreDrain, Cordon, Drain, CancelDrainTask,
              CancelEvent, Mark, PostDrain, PostDrainNotFound, TaintOutOfService, ReleaseSlot, Goto
  <2> QED BY <1>6, <2>1, ImdsWorkerSteps
<1>7. CASE ImdsCancellationStep
  BY <1>7, <1>0 DEF Fresh, ImdsCancellationStep, CancelReceived, CheckUncordon, CancelUncordons,
              UncordonCancelled, CancelRemovesLabel, CancelRemovesTaints, CleanUpCancelled
<1> QED BY <1>1, <1>2, <1>3, <1>4, <1>5, <1>6, <1>7 DEF ImdsNext, allVars

(* What handleRebootUncordon ignores, it ignores before anything comes in. *)
LEMMA IgnoresAtStartup ==
  ASSUME ImdsInv, StartIgnore
  PROVE  Next
<1>1. PICK id \in startEvent : IgnoreEvent(id)
  BY DEF StartIgnore
<1>2. id \in EventID /\ Fresh
  BY <1>1 DEF ImdsInv, StartIgnore
<1>3. IgnoreAtStartup(id)
  BY <1>1, <1>2 DEF Fresh, IgnoreAtStartup, StartIgnore
<1> QED BY <1>2, <1>3 DEF Next

(* A step of IMDS mode is a step of the Dispatcher, or leaves it alone, or *)
(* starts the process again.                                               *)
LEMMA ImdsSteps ==
  ASSUME ImdsInv, [ImdsNext]_allVars
  PROVE  [Next]_vars \/ DispatcherRestarts
<1>1. CASE External
  BY <1>1 DEF External, NoticeAppears, NoticeEnds, PodScheduled, Crash, Reboot, ProcessStarts
<1>2. CASE Startup
  BY <1>2, IgnoresAtStartup DEF Startup, StartCheck, StartUncordon, StartRemoveLabel,
              StartRemoveTaints, StartOnly
<1>3. ASSUME NEW k \in Kinds, MonitorStep(k)
      PROVE  [Next]_vars
  <2>1. CASE \E x \in toSend[k] : SendEvent(k, x)
    <3>1. PICK x \in toSend[k] : SendEvent(k, x)
      BY <2>1
    <3>2. x.event \in Arrival
      BY SMT, <3>1 DEF ImdsInv, StepTypes
    <3> QED BY <3>1, <3>2 DEF SendEvent, Next
  <2> QED BY <1>3, <2>1 DEF MonitorStep, Poll, PollLifecycleState
<1>4. CASE \E o \in Object : StoreEvent(o) \/ (EventBecomesDue(o) /\ Local)
  BY <1>4 DEF StoreEvent, Next
<1>5. CASE Up /\ MainStep /\ Local
  BY <1>5 DEF Next
<1>6. ASSUME NEW o \in Object, ImdsWorkerStep(o)
      PROVE  [Next]_vars
  BY <1>6, ImdsWorkerSteps DEF Next
<1>7. CASE ImdsCancellationStep
  BY <1>7 DEF ImdsCancellationStep, CancelUncordons, CancelRemovesLabel, CancelRemovesTaints,
              CancellationStep, Next
<1> QED BY <1>1, <1>2, <1>3, <1>4, <1>5, <1>6, <1>7 DEF ImdsNext, allVars

(* Only the startup and a restart of the process change the startup's state. *)
LEMMA StartFrame ==
  ASSUME [ImdsNext]_allVars, ~External, ~Startup
  PROVE  UNCHANGED startVars
<1>1. CASE \E k \in Kinds : MonitorStep(k)
  BY <1>1 DEF MonitorStep, Poll, PollLifecycleState, SendEvent, MonitorOnly
<1>2. CASE \E o \in Object : StoreEvent(o) \/ (EventBecomesDue(o) /\ Local)
  BY <1>2 DEF StoreEvent, Local, imdsVars
<1>3. CASE Up /\ MainStep /\ Local
  BY <1>3 DEF Local, imdsVars
<1>4. CASE \E o \in Object : ImdsWorkerStep(o)
  BY <1>4 DEF ImdsWorkerStep, PreDrainStep, TaskMarksEvent, TaskTaints, TaskChecks,
              TaskMarksAction, TaskMarksTime, TaskRollsBack, TaskFails, TaintTask, TaskAt,
              TaskOnly, ReadLabels, CordonsNode, DrainsNode, ImdsOnly, Local, imdsVars
<1>5. CASE ImdsCancellationStep
  BY <1>5 DEF ImdsCancellationStep, CancelUncordons, CancelRemovesLabel,
              CancelRemovesTaints, ImdsOnly, Local, imdsVars
<1> QED BY <1>1, <1>2, <1>3, <1>4, <1>5 DEF ImdsNext, allVars, imdsVars

LEMMA FreshKept ==
  ASSUME ImdsInv, [ImdsNext]_allVars, startPc' # "up"
  PROVE  Fresh'
<1>1. CASE UNCHANGED vars /\ startPc # "up"
  BY <1>1 DEF ImdsInv, Fresh, vars, storeVars, mainVars, workerVars, cancelVars
<1>2. CASE DispatcherRestarts
  BY <1>2 DEF DispatcherRestarts, Fresh
<1>3. CASE startPc = "up"
  <2>1. CASE External
    BY <1>2, <1>3, <2>1 DEF External, NoticeAppears, NoticeEnds, PodScheduled, Crash,
              Reboot, ProcessStarts, startVars
  <2>2. ~Startup
    BY <1>3 DEF Startup, StartCheck, StartUncordon, StartRemoveLabel, StartRemoveTaints,
              StartIgnore, LabelKey
  <2> QED BY <1>3, <2>1, <2>2, StartFrame DEF startVars
<1>4. CASE startPc # "up"
  <2>1. ~StartIgnore
    BY DEF StartIgnore
  <2> QED BY <1>1, <1>2, <1>4, <2>1, OnlyStartup
<1> QED BY <1>3, <1>4

LEMMA StartEventKept ==
  ASSUME ImdsInv, [ImdsNext]_allVars
  PROVE  startEvent' \subseteq EventID
<1>0. startEvent \subseteq EventID /\ LabelledWithID
  BY DEF ImdsInv
<1>1. CASE External
  BY <1>0, <1>1 DEF External, NoticeAppears, NoticeEnds, PodScheduled, Crash, Reboot,
              ProcessStarts, startVars
<1>2. CASE Startup
  BY <1>0, <1>2 DEF Startup, StartCheck, StartUncordon, StartRemoveLabel, StartRemoveTaints,
              StartIgnore, StartFails, StartGoes, LabelledWithID, IsLabeledWithAction
<1>3. CASE ~External /\ ~Startup
  BY <1>0, <1>3, StartFrame DEF startVars
<1> QED BY <1>1, <1>2, <1>3

-----------------------------------------------------------------------------
(* The node *)

(* A step that leaves the node's labels alone, or changes one of them. *)
LabelStep ==
  \/ UNCHANGED labels
  \/ \E key \in LabelKey : Without(key)
  \/ \E o \in Object : SetLabel("event-id", Id(o))
  \/ labels' = With("exclude", "nth")
  \/ \E o \in Object : TaskMarksAction(o) \/ TaskMarksTime(o)

LEMMA RemovalOfLabel ==
  ASSUME NEW key \in LabelKey, NEW ok, RemovesLabel(key, ok)
  PROVE  UNCHANGED nodeVars \/ Without(key)
  BY DEF RemovesLabel, RemoveNTHLabel, removeLabel, removeLabelIfValueMatches

LEMMA WorkerLabels ==
  ASSUME NEW o \in Object, ImdsWorkerStep(o)
  PROVE  LabelStep
<1> USE DEF LabelStep, nodeVars
<1>1. CASE PreDrainStep(o)
  <2>1. CASE TaskMarksEvent(o)
    BY <2>1 DEF TaskMarksEvent, MarkWithEventID, addLabel
  <2>2. CASE TaskRollsBack(o)
    BY <2>2 DEF TaskRollsBack, removeLabel, LabelKey
  <2>3. CASE TaskTaints(o) \/ TaskChecks(o)
    BY <2>3 DEF TaskTaints, TaskChecks, AddTaint
  <2>4. CASE (\E at \in {"begin", "taint", "check", "action", "time", "rollback"} : TaskFails(o, at))
             \/ \E ok \in BOOLEAN : TaintTask(o, ok)
    BY <2>4 DEF TaskFails, TaintTask, AddTaint
  <2> QED BY <1>1, <2>1, <2>2, <2>3, <2>4 DEF PreDrainStep
<1>2. CASE \E ok \in BOOLEAN : CordonsNode(o, ok)
  BY <1>2 DEF CordonsNode, CordonNode, MarkAndCordon, addLabel, SetLabel,
              MaybeMarkForExclusionFromLoadBalancers
<1>3. CASE \E ok \in BOOLEAN : ReadLabels(o, ok) \/ DrainsNode(o, ok)
  BY <1>3 DEF ReadLabels, DrainsNode, EvictPods
<1> QED BY <1>1, <1>2, <1>3 DEF ImdsWorkerStep, Local, imdsVars

LEMMA LabelSteps ==
  ASSUME [ImdsNext]_allVars
  PROVE  LabelStep
<1> USE DEF LabelStep, nodeVars
<1>1. CASE External
  BY <1>1 DEF External, NoticeAppears, NoticeEnds, PodScheduled, Crash, Reboot
<1>2. CASE Startup
  <2>1. CASE \E ok \in BOOLEAN : StartRemoveLabel(ok)
    BY <2>1, RemovalOfLabel DEF StartRemoveLabel
  <2>2. CASE \E ok \in BOOLEAN : StartCheck(ok) \/ StartUncordon(ok) \/ StartRemoveTaints(ok)
    BY <2>2 DEF StartCheck, StartUncordon, UncordonNode, StartRemoveTaints, RemovesTaints,
                RemoveNTHTaints, RemoveSomeTaints
  <2>3. CASE StartIgnore
    BY <2>3 DEF StartIgnore
  <2> QED BY <1>2, <2>1, <2>2, <2>3 DEF Startup
<1>3. CASE \E k \in Kinds : MonitorStep(k)
  BY <1>3 DEF MonitorStep, Poll, PollLifecycleState, SendEvent, MonitorOnly
<1>4. CASE \E o \in Object : StoreEvent(o) \/ (EventBecomesDue(o) /\ Local)
  BY <1>4 DEF StoreEvent, Local, imdsVars
<1>5. CASE Up /\ MainStep /\ Local
  BY <1>5 DEF Local, imdsVars
<1>6. CASE ImdsCancellationStep
  <2>1. CASE \E ok \in BOOLEAN : CancelRemovesLabel(ok)
    BY <2>1, RemovalOfLabel DEF CancelRemovesLabel
  <2>2. CASE \E ok \in BOOLEAN : CancelUncordons(ok) \/ CancelRemovesTaints(ok)
    BY <2>2 DEF CancelUncordons, UncordonNode, CancelRemovesTaints, RemovesTaints,
                RemoveNTHTaints, RemoveSomeTaints
  <2> QED BY <1>6, <2>1, <2>2 DEF ImdsCancellationStep, Local, imdsVars
<1> QED BY <1>1, <1>2, <1>3, <1>4, <1>5, <1>6, WorkerLabels DEF ImdsNext, allVars, imdsVars

(* The label of an event names an event. *)
LEMMA LabelledKept ==
  ASSUME ImdsInv, [ImdsNext]_allVars
  PROVE  LabelledWithID'
<1>0. LabelledWithID /\ \A o \in Object : Id(o) \in EventID
  BY StoreAssumption DEF ImdsInv, DispatcherInv, DispatcherTypeOK, StoreTypeOK, Id
<1>1. CASE UNCHANGED labels
  BY <1>0, <1>1 DEF LabelledWithID
<1>2. CASE \E key \in LabelKey : Without(key)
  BY <1>0, <1>2 DEF LabelledWithID, Without
<1>3. CASE \E o \in Object : SetLabel("event-id", Id(o))
  BY <1>0, <1>3 DEF LabelledWithID, SetLabel, With
<1>4. CASE labels' = With("exclude", "nth")
  BY <1>0, <1>4 DEF LabelledWithID, With
<1>5. CASE \E o \in Object : TaskMarksAction(o) \/ TaskMarksTime(o)
  BY SMT, <1>0, <1>5 DEF LabelledWithID, TaskMarksAction, TaskMarksTime, MarkAction, MarkActionTime,
              addLabel, SetLabel, With
<1> QED BY <1>1, <1>2, <1>3, <1>4, <1>5, LabelSteps DEF LabelStep

-----------------------------------------------------------------------------
(* The invariant *)

(* A monitor has read what the metadata says. *)
LEMMA ShownTyped ==
  ASSUME StepTypes, NEW k \in Kinds
  PROVE  /\ Shown(k) \subseteq [event : Arrival, state : NoticeState]
         /\ \A x \in Shown(k) : \E n \in Notice : x.state = metadata[n]
<1>1. \A a \in Arrival : NoticeOfArrival(a) \in Notice
  BY StoreAssumption, ImdsAssumption DEF NoticeOfArrival
<1> QED BY SMT, <1>1 DEF Shown, StepTypes

(* A task goes from one of its points to another. *)
LEMMA TaskSteps ==
  ASSUME StepTypes, NEW o \in Object, PreDrainStep(o)
  PROVE  /\ UNCHANGED <<metadata, toSend>>
         /\ task' \in [Object -> {"begin", "taint", "check", "action", "time", "rollback"}]
<1>1. UNCHANGED <<metadata, toSend>>
  BY DEF PreDrainStep, TaskMarksEvent, TaskTaints, TaskChecks, TaskMarksAction,
         TaskMarksTime, TaskRollsBack, TaskFails, TaintTask, TaskAt, TaskOnly, monitorVars
<1>2. \E to \in {"begin", "taint", "check", "action", "time", "rollback"} :
        task' = [task EXCEPT ![o] = to]
  BY DEF PreDrainStep, TaskMarksEvent, TaskTaints, TaskChecks, TaskMarksAction,
         TaskMarksTime, TaskRollsBack, TaskFails, TaintTask, TaskGoes, TaskEnds
<1> QED BY <1>1, <1>2 DEF StepTypes

LEMMA StepTypesKept ==
  ASSUME ImdsInv, [ImdsNext]_allVars
  PROVE  StepTypes'
<1>0. StepTypes
  BY DEF ImdsInv
<1> USE DEF monitorVars, stepVars
<1>1. CASE External
  <2>1. CASE \E n \in Notice : NoticeAppears(n) \/ NoticeEnds(n)
    BY <1>0, <2>1 DEF NoticeAppears, NoticeEnds, StepTypes, NoticeState, Ended
  <2>2. CASE PodScheduled
    BY <1>0, <2>2 DEF PodScheduled, StepTypes
  <2>3. CASE Crash \/ Reboot
    BY <1>0, <2>3 DEF Crash, Reboot, ProcessStarts, StepTypes
  <2> QED BY <1>1, <2>1, <2>2, <2>3 DEF External
<1>2. CASE Startup
  BY <1>0, <1>2 DEF Startup, StartCheck, StartUncordon, StartRemoveLabel, StartRemoveTaints,
              StartIgnore, StartOnly, StepTypes
<1>3. ASSUME NEW k \in Kinds, MonitorStep(k)
      PROVE  StepTypes'
  <2>1. PICK S \in SUBSET [event : Arrival, state : NoticeState] :
          toSend' = [toSend EXCEPT ![k] = S]
    <3>1. CASE Poll(k) \/ PollLifecycleState(k)
      BY <1>0, <3>1, ShownTyped DEF Poll, PollLifecycleState
    <3>2. CASE \E x \in toSend[k] : SendEvent(k, x)
      BY <1>0, <3>2 DEF SendEvent, StepTypes
    <3> QED BY <1>3, <3>1, <3>2 DEF MonitorStep
  <2>2. UNCHANGED <<metadata, task>>
    BY <1>3 DEF MonitorStep, Poll, PollLifecycleState, SendEvent, MonitorOnly
  <2> QED BY <1>0, <2>1, <2>2 DEF StepTypes
<1>4. CASE \E o \in Object : StoreEvent(o) \/ (EventBecomesDue(o) /\ Local)
  BY <1>0, <1>4 DEF StoreEvent, Local, imdsVars, StepTypes
<1>5. CASE Up /\ MainStep /\ Local
  BY <1>0, <1>5 DEF Local, imdsVars, StepTypes
<1>6. ASSUME NEW o \in Object, ImdsWorkerStep(o)
      PROVE  StepTypes'
  <2>1. CASE PreDrainStep(o)
    BY <1>0, <2>1, TaskSteps DEF StepTypes
  <2> QED BY <1>0, <1>6, <2>1 DEF ImdsWorkerStep, ReadLabels, CordonsNode, DrainsNode,
              ImdsOnly, Local, imdsVars, StepTypes
<1>7. CASE ImdsCancellationStep
  BY <1>0, <1>7 DEF ImdsCancellationStep, CancelUncordons, CancelRemovesLabel,
              CancelRemovesTaints, ImdsOnly, Local, imdsVars, StepTypes
<1>8. CASE UNCHANGED allVars
  BY <1>0, <1>8 DEF allVars, imdsVars, StepTypes
<1> QED BY <1>1, <1>2, <1>3, <1>4, <1>5, <1>6, <1>7, <1>8 DEF ImdsNext

LEMMA ImdsInitInv == ImdsInit => ImdsInv
<1> SUFFICES ASSUME ImdsInit PROVE ImdsInv
  OBVIOUS
<1>1. DispatcherInv /\ Fresh
  BY InitInv DEF ImdsInit, Init, StoreInit, Fresh
<1>2. startEvent = {} /\ StepTypes
  BY DEF ImdsInit, ProcessInit, StepTypes, NoticeState
<1>3. LabelledWithID
  BY DEF ImdsInit, NodeInit, LabelledWithID
<1> QED BY <1>1, <1>2, <1>3 DEF ImdsInv

LEMMA ImdsNextInv == ImdsInv /\ [ImdsNext]_allVars => ImdsInv'
<1> SUFFICES ASSUME ImdsInv, [ImdsNext]_allVars PROVE ImdsInv'
  OBVIOUS
<1>1. DispatcherInv'
  BY ImdsSteps, RestartInv, NextInv DEF ImdsInv
<1> QED BY <1>1, FreshKept, StartEventKept, LabelledKept, StepTypesKept DEF ImdsInv

LEMMA ImdsInvariance == ImdsSpec => []ImdsInv
  BY ImdsInitInv, ImdsNextInv, PTL DEF ImdsSpec

(***************************************************************************)
(* In IMDS mode, too, an event that handleRebootUncordon ignored is never  *)
(* given to a worker, whatever the monitors send and however often the pod *)
(* restarts or the instance reboots.                                       *)
(***************************************************************************)
THEOREM ImdsIgnoredRespected == ImdsSpec => []IgnoredNeverHandled
<1>1. ImdsInv => IgnoredNeverHandled
  BY DEF ImdsInv, DispatcherInv, EventInv, IgnoredNeverHandled, Busy
<1> QED BY <1>1, ImdsInvariance, PTL

(***************************************************************************)
(* In IMDS mode, too, two workers never handle one exclusive event,        *)
(* although every poll sends the notice again.                             *)
(***************************************************************************)
THEOREM ImdsHandlingExclusive == ImdsSpec => []NoConcurrentHandling
<1>1. ImdsInv => NoConcurrentHandling
  BY StoredUnique DEF ImdsInv, DispatcherInv, EventInv, NoConcurrentHandling
<1> QED BY <1>1, ImdsInvariance, PTL

-----------------------------------------------------------------------------
(* The operator's cordon *)

(* What has ended stays so. *)
LEMMA EndedForGood ==
  ASSUME StepTypes, [ImdsNext]_allVars, NothingEnded'
  PROVE  NothingEnded
<1>1. CASE \E n \in Notice : NoticeAppears(n) \/ NoticeEnds(n)
  BY <1>1 DEF NoticeAppears, NoticeEnds, NothingEnded, StepTypes, Ended
<1>2. CASE UNCHANGED metadata
  BY <1>2 DEF NothingEnded
<1>3. CASE External
  BY <1>1, <1>2, <1>3 DEF External, PodScheduled, Crash, Reboot
<1>4. CASE Startup
  BY <1>2, <1>4 DEF Startup, StartCheck, StartUncordon, StartRemoveLabel, StartRemoveTaints,
              StartIgnore, StartOnly
<1>5. CASE \E k \in Kinds : MonitorStep(k)
  BY <1>2, <1>5 DEF MonitorStep, Poll, PollLifecycleState, SendEvent, MonitorOnly
<1>6. CASE \E o \in Object : ImdsWorkerStep(o)
  BY <1>2, <1>6, TaskSteps DEF ImdsWorkerStep, ReadLabels, CordonsNode, DrainsNode,
              ImdsOnly, Local, imdsVars
<1>7. CASE ImdsCancellationStep
  BY <1>2, <1>7 DEF ImdsCancellationStep, CancelUncordons, CancelRemovesLabel,
              CancelRemovesTaints, ImdsOnly, Local, imdsVars
<1> QED BY <1>2, <1>3, <1>4, <1>5, <1>6, <1>7
        DEF ImdsNext, StoreEvent, Local, allVars, imdsVars

(* While nothing has ended, there is nothing to cancel. *)
LEMMA NothingToCancel ==
  ASSUME ImdsInv, [ImdsNext]_allVars, NothingEnded, cancelPc = "wait",
         \A k \in Kinds : \A y \in toSend[k] : y.state \notin Ended
  PROVE  /\ cancelPc' = "wait"
         /\ \A k \in Kinds : \A y \in toSend'[k] : y.state \notin Ended
<1>0. StepTypes
  BY DEF ImdsInv
<1>1. CASE UNCHANGED <<cancelPc, toSend>>
  BY <1>1
<1> USE DEF vars, cancelVars, monitorVars
<1>2. CASE External
  <2>1. CASE Crash \/ Reboot
    BY <2>1 DEF Crash, Reboot, ProcessStarts, DispatcherRestarts
  <2> QED BY <1>1, <1>2, <2>1 DEF External, NoticeAppears, NoticeEnds, PodScheduled
<1>3. CASE Startup
  BY <1>1, <1>3 DEF Startup, StartCheck, StartUncordon, StartRemoveLabel, StartRemoveTaints,
              StartIgnore, StartOnly
<1>4. ASSUME NEW k \in Kinds, MonitorStep(k)
      PROVE  /\ UNCHANGED cancelPc
             /\ \A j \in Kinds : \A y \in toSend'[j] : y.state \notin Ended
  <2>1. UNCHANGED cancelPc
    BY <1>4 DEF MonitorStep, Poll, PollLifecycleState, SendEvent, ReceiveInterruption
  <2>2. \A y \in Shown(k) : y.state \notin Ended
    BY <1>0, ShownTyped DEF NothingEnded
  <2>3. PICK S : toSend' = [toSend EXCEPT ![k] = S] /\ \A y \in S : y.state \notin Ended
    <3>1. CASE Poll(k)
      BY <2>2, <3>1 DEF Poll
    <3>2. CASE PollLifecycleState(k)
      <4>1. PICK x \in Shown(k) : toSend' = [toSend EXCEPT ![k] = {x}]
        BY <3>2 DEF PollLifecycleState
      <4> QED BY <2>2, <4>1
    <3>3. CASE \E x \in toSend[k] : SendEvent(k, x)
      <4>1. PICK x : toSend' = [toSend EXCEPT ![k] = toSend[k] \ {x}]
        BY <3>3 DEF SendEvent
      <4> QED BY <4>1
    <3> QED BY <1>4, <3>1, <3>2, <3>3 DEF MonitorStep
  <2> QED BY <1>0, <2>1, <2>3 DEF StepTypes
<1>5. CASE \E o \in Object : StoreEvent(o) \/ (EventBecomesDue(o) /\ Local)
  BY <1>1, <1>5 DEF StoreEvent, AddReceived, EventBecomesDue, Local, imdsVars
<1>6. CASE Up /\ MainStep /\ Local
  BY <1>1, <1>6 DEF MainStep, TakeSignal, CleanStore, SelectEvent, SelectNone, StartWorker,
              AllWorkersBusy, Local, imdsVars
<1>7. ASSUME NEW o \in Object, ImdsWorkerStep(o)
      PROVE  UNCHANGED <<cancelPc, toSend>>
  <2>1. UNCHANGED cancelPc
    BY <1>7, ImdsWorkerSteps DEF WorkerStep, LaunchReady, LaunchNotReady, LaunchCancel,
              LaunchNodeName, LaunchPost, GetNodeName, GetNodeLabels, PreDrain, Cordon, Drain,
              CancelDrainTask, CancelEvent, CancelByWorker, Mark, PostDrain, PostDrainNotFound,
              TaintOutOfService, ReleaseSlot, WorkerOnly
  <2> QED BY <1>0, <1>7, <2>1, TaskSteps DEF ImdsWorkerStep, ReadLabels, CordonsNode,
              DrainsNode, ImdsOnly, Local, imdsVars
<1>8. ~ImdsCancellationStep
  BY DEF ImdsCancellationStep, CancelReceived, CheckUncordon, CancelUncordons,
         UncordonCancelled, CancelRemovesLabel, CancelRemovesTaints, CleanUpCancelled
<1>9. CASE UNCHANGED allVars
  BY <1>1, <1>9 DEF allVars, imdsVars
<1> QED BY <1>1, <1>2, <1>3, <1>4, <1>5, <1>6, <1>7, <1>8, <1>9 DEF ImdsNext

(* Nothing but these steps of a task sets or needs the label of the action. *)
LEMMA OperatorTask ==
  ASSUME StepTypes, NEW o \in Object, PreDrainStep(o), unschedulable,
         \A p \in Object : task[p] \in {"begin", "taint", "check"},
         "action" \notin DOMAIN labels
  PROVE  /\ UNCHANGED <<unschedulable, startPc, cancelPc, toSend>>
         /\ \A p \in Object : task'[p] \in {"begin", "taint", "check"}
         /\ "action" \notin DOMAIN labels'
<1> USE DEF TaskOnly, TaskAt, TaskGoes, TaskEnds, PreDrain, WorkerOnly, monitorVars,
            startVars, nodeVars, vars, cancelVars
<1>0. task[o] \in {"begin", "taint", "check"} /\ task = [p \in Object |-> task[p]]
  BY DEF StepTypes
<1>1. CASE TaskMarksEvent(o)
  BY SMT, <1>0, <1>1 DEF TaskMarksEvent, MarkWithEventID, addLabel, SetLabel, With
<1>2. CASE TaskTaints(o)
  BY <1>0, <1>2 DEF TaskTaints, AddTaint
<1>3. CASE TaskChecks(o)
  BY <1>0, <1>3 DEF TaskChecks
<1>4. CASE TaskMarksAction(o) \/ TaskMarksTime(o) \/ TaskRollsBack(o)
  BY <1>0, <1>4 DEF TaskMarksAction, TaskMarksTime, TaskRollsBack
<1>5. ASSUME NEW at \in {"begin", "taint", "check", "action", "time", "rollback"},
             TaskFails(o, at)
      PROVE  UNCHANGED nodeVars /\ TaskEnds(o) /\ TaskOnly
  BY <1>0, <1>5 DEF TaskFails
<1>6. CASE \E ok \in BOOLEAN : TaintTask(o, ok)
  BY <1>0, <1>6 DEF TaintTask, AddTaint
<1> QED BY <1>0, <1>1, <1>2, <1>3, <1>4, <1>5, <1>6 DEF PreDrainStep

LEMMA OperatorNext == ImdsInv /\ OperatorInv /\ [ImdsNext]_allVars => OperatorInv'
<1> SUFFICES ASSUME ImdsInv, OperatorInv, [ImdsNext]_allVars, CordonedBefore, NothingEnded'
             PROVE  OperatorInv'
  BY DEF OperatorInv
<1>0. /\ unschedulable
      /\ "action" \notin DOMAIN labels
      /\ startPc \in {"check", "up"}
      /\ \A o \in Object : task[o] \in {"begin", "taint", "check"}
      /\ cancelPc = "wait"
      /\ \A k \in Kinds : \A y \in toSend[k] : y.state \notin Ended
      /\ NothingEnded /\ StepTypes
  BY EndedForGood DEF OperatorInv, ImdsInv
<1>1. CASE /\ UNCHANGED <<unschedulable, labels, startPc, task, cancelPc>>
           /\ \A k \in Kinds : \A y \in toSend'[k] : y.state \notin Ended
  BY <1>0, <1>1 DEF OperatorInv
<1>2. CASE UNCHANGED <<unschedulable, labels, startPc, task, cancelPc, toSend>>
  BY <1>0, <1>1, <1>2
<1> USE DEF vars, cancelVars, imdsVars, nodeVars, startVars, stepVars, monitorVars, Local
<1>3. CASE External
  <2>1. CASE Crash \/ Reboot
    BY <1>0, <2>1 DEF Crash, Reboot, ProcessStarts, DispatcherRestarts, OperatorInv
  <2> QED BY <1>2, <1>3, <2>1 DEF External, NoticeAppears, NoticeEnds, PodScheduled
<1>4. CASE Startup
  <2>1. PICK ok \in BOOLEAN : StartCheck(ok)
    BY <1>0, <1>4 DEF Startup, StartUncordon, StartRemoveLabel, StartRemoveTaints,
                StartIgnore, LabelKey
  <2>2. startPc' \in {"check", "up"}
    BY <1>0, <2>1 DEF StartCheck, StartFails, IsLabeledWithAction
  <2>3. UNCHANGED <<unschedulable, labels, task, cancelPc, toSend>>
    BY <2>1 DEF StartCheck, StartOnly
  <2> QED BY <1>0, <2>2, <2>3 DEF OperatorInv
<1>5. ASSUME NEW k \in Kinds, MonitorStep(k)
      PROVE  OperatorInv'
  <2>1. UNCHANGED <<unschedulable, labels, startPc, task>>
    BY <1>5 DEF MonitorStep, Poll, PollLifecycleState, SendEvent, MonitorOnly
  <2> QED BY <1>0, <1>1, <2>1, NothingToCancel
<1>6. CASE \E o \in Object : StoreEvent(o) \/ (EventBecomesDue(o) /\ Local)
  BY <1>2, <1>6 DEF StoreEvent, AddReceived, EventBecomesDue
<1>7. CASE Up /\ MainStep /\ Local
  BY <1>2, <1>7 DEF MainStep, TakeSignal, CleanStore, SelectEvent, SelectNone, StartWorker,
              AllWorkersBusy
<1>8. ASSUME NEW o \in Object, ImdsWorkerStep(o)
      PROVE  OperatorInv'
  <2>1. CASE PreDrainStep(o)
    BY <1>0, <2>1, OperatorTask DEF OperatorInv
  <2>2. CASE \E ok \in BOOLEAN : CordonsNode(o, ok)
    <3>1. UNCHANGED <<startPc, task, cancelPc, toSend>>
      BY <2>2 DEF CordonsNode, ImdsOnly, Cordon, WorkerOnly
    <3>2. unschedulable'
      <4>1. CordonNode \/ MarkAndCordon \/ UNCHANGED unschedulable
        BY <2>2 DEF CordonsNode, addLabel, SetLabel, MaybeMarkForExclusionFromLoadBalancers
      <4> QED BY <1>0, <4>1 DEF CordonNode, MarkAndCordon
    <3>3. "action" \notin DOMAIN labels'
      <4>1. UNCHANGED labels \/ labels' = With("exclude", "nth")
        BY <2>2 DEF CordonsNode, CordonNode, MarkAndCordon, addLabel, SetLabel,
                    MaybeMarkForExclusionFromLoadBalancers
      <4> QED BY SMT, <1>0, <4>1 DEF With
    <3> QED BY <1>0, <3>1, <3>2, <3>3 DEF OperatorInv
  <2>3. CASE \E ok \in BOOLEAN : ReadLabels(o, ok) \/ DrainsNode(o, ok)
    BY <1>2, <2>3 DEF ReadLabels, DrainsNode, EvictPods, ImdsOnly, GetNodeLabels, Drain,
                WorkerOnly
  <2>4. CASE (GetNodeName(o, TRUE) \/ CancelEvent(o) \/ Mark(o) \/ ReleaseSlot(o)) /\ Local
    BY <1>2, <2>4 DEF GetNodeName, CancelEvent, CancelByWorker, Mark, ReleaseSlot, WorkerOnly
  <2> QED BY <1>8, <2>1, <2>2, <2>3, <2>4 DEF ImdsWorkerStep
<1>9. ~ImdsCancellationStep
  BY <1>0 DEF ImdsCancellationStep, CancelReceived, CheckUncordon, CancelUncordons,
              UncordonCancelled, CancelRemovesLabel, CancelRemovesTaints, CleanUpCancelled
<1>10. CASE UNCHANGED allVars
  BY <1>2, <1>10 DEF allVars
<1> QED BY <1>3, <1>4, <1>5, <1>6, <1>7, <1>8, <1>9, <1>10 DEF ImdsNext

(***************************************************************************)
(* A node that its operator cordoned stays cordoned through failed calls,  *)
(* restarts of the pod and reboots of the instance, for every set of       *)
(* notices, until maintenance is cancelled or completed.                   *)
(***************************************************************************)
THEOREM OperatorRespected == ImdsSpec => []OperatorCordonKept
<1>1. ImdsInit => OperatorInv
  BY DEF ImdsInit, Init, ProcessInit, NodeInit, OperatorInv
<1>2. OperatorInv => OperatorCordonKept
  BY DEF OperatorInv, OperatorCordonKept
<1> QED BY <1>1, <1>2, ImdsInvariance, OperatorNext, PTL DEF ImdsSpec

-----------------------------------------------------------------------------
(* What a step does to the node *)

(* One call of the Kubernetes API, or none. *)
NodeStep ==
  \/ UNCHANGED nodeVars
  \/ \E key \in LabelKey : Without(key)
  \/ \E key \in LabelKey : \E value : SetLabel(key, value)
  \/ \E o \in Object : AddTaint(sent[o].kind)
  \/ RemoveNTHTaints
  \/ RemoveSomeTaints
  \/ CordonNode
  \/ MarkAndCordon
  \/ EvictPods
  \/ (startPc = "uncordon" \/ cancelPc = "uncordon") /\ UncordonNode

LEMMA WorkerNode ==
  ASSUME NEW o \in Object, ImdsWorkerStep(o)
  PROVE  NodeStep
<1> USE DEF NodeStep
<1>1. CASE PreDrainStep(o)
  <2>1. CASE TaskMarksEvent(o) \/ TaskMarksAction(o) \/ TaskMarksTime(o)
    BY <2>1 DEF TaskMarksEvent, TaskMarksAction, TaskMarksTime, MarkWithEventID, MarkAction,
                MarkActionTime, addLabel, LabelKey
  <2>2. CASE TaskRollsBack(o)
    BY <2>2 DEF TaskRollsBack, removeLabel, LabelKey
  <2>3. CASE TaskTaints(o) \/ TaskChecks(o)
    BY <2>3 DEF TaskTaints, TaskChecks
  <2>4. CASE (\E at \in {"begin", "taint", "check", "action", "time", "rollback"} : TaskFails(o, at))
             \/ \E ok \in BOOLEAN : TaintTask(o, ok)
    BY <2>4 DEF TaskFails, TaintTask
  <2> QED BY <1>1, <2>1, <2>2, <2>3, <2>4 DEF PreDrainStep
<1>2. CASE \E ok \in BOOLEAN : CordonsNode(o, ok)
  BY <1>2 DEF CordonsNode, addLabel, MaybeMarkForExclusionFromLoadBalancers, LabelKey
<1>3. CASE \E ok \in BOOLEAN : ReadLabels(o, ok) \/ DrainsNode(o, ok)
  BY <1>3 DEF ReadLabels, DrainsNode
<1> QED BY <1>1, <1>2, <1>3 DEF ImdsWorkerStep, Local, imdsVars

LEMMA StartupNode ==
  ASSUME Startup
  PROVE  NodeStep
<1> USE DEF NodeStep
<1>1. CASE \E ok \in BOOLEAN : StartRemoveLabel(ok)
  BY <1>1, RemovalOfLabel DEF StartRemoveLabel
<1>2. CASE \E ok \in BOOLEAN : StartCheck(ok) \/ StartUncordon(ok) \/ StartRemoveTaints(ok)
  BY <1>2 DEF StartCheck, StartUncordon, StartRemoveTaints, RemovesTaints
<1>3. CASE StartIgnore
  BY <1>3 DEF StartIgnore
<1> QED BY <1>1, <1>2, <1>3 DEF Startup

LEMMA NodeSteps ==
  ASSUME [ImdsNext]_allVars, ~External
  PROVE  NodeStep
<1> USE DEF NodeStep
<1>1. CASE Startup
  BY <1>1, StartupNode
<1>2. CASE \E k \in Kinds : MonitorStep(k)
  BY <1>2 DEF MonitorStep, Poll, PollLifecycleState, SendEvent, MonitorOnly
<1>3. CASE ImdsCancellationStep
  <2>1. CASE \E ok \in BOOLEAN : CancelRemovesLabel(ok)
    BY <2>1, RemovalOfLabel DEF CancelRemovesLabel
  <2>2. CASE \E ok \in BOOLEAN : CancelUncordons(ok) \/ CancelRemovesTaints(ok)
    BY <2>2 DEF CancelUncordons, UncordonCancelled, CancelRemovesTaints, RemovesTaints
  <2> QED BY <1>3, <2>1, <2>2 DEF ImdsCancellationStep, Local, imdsVars
<1> QED BY <1>1, <1>2, <1>3, WorkerNode DEF ImdsNext, StoreEvent, Local, allVars, imdsVars

(* Only a reboot begins another boot. *)
LEMMA SameBoot ==
  ASSUME NodeStep
  PROVE  UNCHANGED boot
  BY DEF NodeStep, nodeVars, Without, SetLabel, AddTaint, RemoveNTHTaints, RemoveSomeTaints,
         CordonNode, MarkAndCordon, EvictPods, UncordonNode

LEMMA BootFrame ==
  ASSUME [ImdsNext]_allVars, ~Reboot
  PROVE  UNCHANGED boot
<1>1. CASE External
  BY <1>1, ~Reboot DEF External, NoticeAppears, NoticeEnds, PodScheduled, Crash, nodeVars
<1> QED BY <1>1, NodeSteps, SameBoot

-----------------------------------------------------------------------------
(* Types *)

NodeTypes ==
  /\ unschedulable \in BOOLEAN
  /\ pods \in BOOLEAN
  /\ boot \in 0 .. MaxReboots
  /\ DOMAIN labels \subseteq LabelKey
  /\ taints \subseteq TaintKinds

LEMMA NodeTypesKept ==
  ASSUME ImdsInv, NodeTypes, [ImdsNext]_allVars
  PROVE  NodeTypes'
<1> USE DEF NodeTypes
<1>0. \A o \in Object : sent[o].kind \in TaintKinds
  BY ImdsAssumption DEF ImdsInv, DispatcherInv, DispatcherTypeOK, StoreTypeOK
<1>1. CASE External
  <2>1. CASE Reboot
    BY SMT, <2>1, ImdsAssumption DEF Reboot
  <2>2. CASE PodScheduled
    BY <2>2 DEF PodScheduled
  <2> QED BY <1>1, <2>1, <2>2 DEF External, NoticeAppears, NoticeEnds, Crash, nodeVars
<1>2. CASE UNCHANGED nodeVars
  BY <1>2 DEF nodeVars
<1>3. CASE \E key \in LabelKey : Without(key)
  BY <1>3 DEF Without
<1>4. CASE \E key \in LabelKey : \E value : SetLabel(key, value)
  BY <1>4 DEF SetLabel, With
<1>5. CASE \E o \in Object : AddTaint(sent[o].kind)
  BY <1>0, <1>5 DEF AddTaint
<1>6. CASE RemoveNTHTaints \/ RemoveSomeTaints
  BY <1>6 DEF RemoveNTHTaints, RemoveSomeTaints
<1>7. CASE CordonNode \/ UncordonNode \/ EvictPods
  BY <1>7 DEF CordonNode, UncordonNode, EvictPods
<1>8. CASE MarkAndCordon
  BY <1>8 DEF MarkAndCordon, With, LabelKey
<1> QED BY <1>1, <1>2, <1>3, <1>4, <1>5, <1>6, <1>7, <1>8, NodeSteps DEF NodeStep

(* An attempt that fails is counted; the last one ends the startup. *)
StartTypes ==
  /\ startPc \in StartPc
  /\ attempts \in 0 .. MaxAttempts
  /\ startPc # "up" => attempts < MaxAttempts

LEMMA StartTypesKept ==
  ASSUME StartTypes, [ImdsNext]_allVars
  PROVE  StartTypes'
<1> USE ImdsAssumption DEF StartTypes
<1>1. CASE External
  BY SMT, <1>1 DEF External, NoticeAppears, NoticeEnds, PodScheduled, Crash, Reboot, ProcessStarts,
              startVars, StartPc
<1>2. CASE Startup
  <2>1. CASE startPc # "up" /\ StartFails
    BY SMT, <2>1 DEF StartFails, StartPc
  <2>2. CASE \E ok \in BOOLEAN : StartCheck(ok)
    BY <2>1, <2>2 DEF StartCheck, StartPc
  <2>3. CASE \E ok \in BOOLEAN : StartUncordon(ok) \/ StartRemoveTaints(ok)
    BY <2>1, <2>3 DEF StartUncordon, StartRemoveTaints, StartGoes, StartPc
  <2>4. CASE \E ok \in BOOLEAN : StartRemoveLabel(ok)
    <3>1. startPc # "up" /\ AfterLabel(startPc) \in StartPc
      BY <2>4 DEF StartRemoveLabel, AfterLabel, LabelKey, StartPc
    <3> QED BY <2>1, <2>4, <3>1 DEF StartRemoveLabel, StartGoes
  <2>5. CASE StartIgnore
    BY <2>5 DEF StartIgnore, StartPc
  <2> QED BY <1>2, <2>2, <2>3, <2>4, <2>5 DEF Startup
<1>3. CASE ~External /\ ~Startup
  BY <1>3, StartFrame DEF startVars
<1> QED BY <1>1, <1>2, <1>3

(* A monitor sends events of its kind that the metadata shows. *)
SendTypes == \A k \in Kinds : \A x \in toSend[k] : x.event.kind = k /\ x.state # "none"

LEMMA SendTypesKept ==
  ASSUME ImdsInv, SendTypes, [ImdsNext]_allVars
  PROVE  SendTypes'
<1>0. StepTypes
  BY DEF ImdsInv
<1>1. CASE \A k \in Kinds : toSend'[k] \subseteq toSend[k]
  BY <1>1 DEF SendTypes
<1>2. CASE UNCHANGED toSend
  BY <1>1, <1>2
<1> USE DEF monitorVars
<1>3. CASE External
  <2>1. CASE Crash \/ Reboot
    BY <1>1, <2>1 DEF Crash, Reboot, ProcessStarts
  <2> QED BY <1>2, <1>3, <2>1 DEF External, NoticeAppears, NoticeEnds, PodScheduled
<1>4. CASE Startup
  BY <1>2, <1>4 DEF Startup, StartCheck, StartUncordon, StartRemoveLabel, StartRemoveTaints,
              StartIgnore, StartOnly
<1>5. ASSUME NEW k \in Kinds, MonitorStep(k)
      PROVE  SendTypes'
  <2>1. \A x \in Shown(k) : x.event.kind = k /\ x.state # "none"
    BY SMT DEF Shown
  <2>2. PICK S : /\ toSend' = [toSend EXCEPT ![k] = S]
                 /\ \A x \in S : x.event.kind = k /\ x.state # "none"
    <3>1. CASE Poll(k)
      BY <2>1, <3>1 DEF Poll
    <3>2. CASE PollLifecycleState(k)
      <4>1. PICK x \in Shown(k) : toSend' = [toSend EXCEPT ![k] = {x}]
        BY <3>2 DEF PollLifecycleState
      <4> QED BY <2>1, <4>1
    <3>3. CASE \E x \in toSend[k] : SendEvent(k, x)
      <4>1. PICK x : toSend' = [toSend EXCEPT ![k] = toSend[k] \ {x}]
        BY <3>3 DEF SendEvent
      <4>2. \A y \in toSend[k] \ {x} : y.event.kind = k /\ y.state # "none"
        BY DEF SendTypes
      <4> QED BY <4>1, <4>2
    <3> QED BY <1>5, <3>1, <3>2, <3>3 DEF MonitorStep
  <2> QED BY <1>0, <2>2 DEF StepTypes, SendTypes
<1>6. CASE \E o \in Object : ImdsWorkerStep(o)
  BY <1>0, <1>2, <1>6, TaskSteps DEF ImdsWorkerStep, ReadLabels, CordonsNode, DrainsNode,
              ImdsOnly, Local, imdsVars
<1>7. CASE ImdsCancellationStep
  BY <1>2, <1>7 DEF ImdsCancellationStep, CancelUncordons, CancelRemovesLabel,
              CancelRemovesTaints, ImdsOnly, Local, imdsVars
<1> QED BY <1>2, <1>3, <1>4, <1>5, <1>6, <1>7 DEF ImdsNext, StoreEvent, Local, allVars, imdsVars

(* Only a restart, a pre-drain task and a clean-up change where those are. *)
LEMMA StepFrame ==
  ASSUME [ImdsNext]_allVars, ~Crash, ~Reboot,
         \A o \in Object : ~PreDrainStep(o),
         \A ok \in BOOLEAN : ~CancelRemovesLabel(ok) /\ ~CancelRemovesTaints(ok)
  PROVE  UNCHANGED <<task, cleaning>>
<1> USE DEF stepVars
<1>1. CASE External
  BY <1>1 DEF External, NoticeAppears, NoticeEnds, PodScheduled
<1>2. CASE Startup
  BY <1>2 DEF Startup, StartCheck, StartUncordon, StartRemoveLabel, StartRemoveTaints,
              StartIgnore, StartOnly
<1>3. CASE \E k \in Kinds : MonitorStep(k)
  BY <1>3 DEF MonitorStep, Poll, PollLifecycleState, SendEvent, MonitorOnly
<1>4. CASE \E o \in Object : ImdsWorkerStep(o)
  BY <1>4 DEF ImdsWorkerStep, ReadLabels, CordonsNode, DrainsNode, ImdsOnly, Local, imdsVars
<1>5. CASE ImdsCancellationStep
  BY <1>5 DEF ImdsCancellationStep, CancelUncordons, ImdsOnly, Local, imdsVars
<1> QED BY <1>1, <1>2, <1>3, <1>4, <1>5 DEF ImdsNext, StoreEvent, Local, allVars, imdsVars

(* No other step takes a worker away from its pre-drain task, or the *)
(* watcher away from its clean-up.                                   *)
LEMMA TaskStays ==
  ASSUME ImdsInv, [ImdsNext]_allVars, ~Crash, ~Reboot,
         \A o \in Object : ~PreDrainStep(o),
         NEW p \in Object, pc[p] = "preDrain"
  PROVE  pc'[p] = "preDrain"
<1>0. pc \in [Object -> WorkerPc]
  BY DEF ImdsInv, DispatcherInv, DispatcherTypeOK
<1>1. CASE UNCHANGED pc
  BY <1>1
<1> USE DEF vars, workerVars
<1>2. CASE External \/ Startup
  BY <1>1, <1>2 DEF External, NoticeAppears, NoticeEnds, PodScheduled, Startup, StartCheck,
              StartUncordon, StartRemoveLabel, StartRemoveTaints, StartIgnore, StartOnly
<1>3. CASE \E k \in Kinds : MonitorStep(k)
  BY <1>1, <1>3 DEF MonitorStep, Poll, PollLifecycleState, SendEvent, ReceiveInterruption,
              ReceiveCancellation
<1>4. CASE \E o \in Object : StoreEvent(o) \/ (EventBecomesDue(o) /\ Local)
  BY <1>1, <1>4 DEF StoreEvent, AddReceived, EventBecomesDue
<1>5. CASE Up /\ MainStep /\ Local
  <2>1. ASSUME NEW o \in Object, StartWorker(o)
        PROVE  pc'[p] = "preDrain"
    <3>1. pc[o] = "idle"
      BY <2>1, StoreAssumption DEF StartWorker, ImdsInv, DispatcherInv, MainHolds
    <3> QED BY <1>0, <2>1, <3>1 DEF StartWorker
  <2> QED BY <1>1, <1>5, <2>1 DEF MainStep, TakeSignal, CleanStore, SelectEvent, SelectNone,
              AllWorkersBusy
<1>6. ASSUME NEW o \in Object, ImdsWorkerStep(o)
      PROVE  pc'[p] = "preDrain"
  <2>1. \E from \in WorkerPc \ {"preDrain"} : \E to : Goto(o, from, to)
    BY <1>6 DEF ImdsWorkerStep, ReadLabels, CordonsNode, DrainsNode, GetNodeName,
              GetNodeLabels, Cordon, Drain, CancelEvent, Mark, ReleaseSlot,
              WorkerPc, Running, Handling, Finishing
  <2> QED BY <1>0, <2>1 DEF Goto
<1>7. CASE ImdsCancellationStep
  BY <1>1, <1>7 DEF ImdsCancellationStep, CancelReceived, CheckUncordon, CancelUncordons,
              UncordonCancelled, CancelRemovesLabel, CancelRemovesTaints, CleanUpCancelled
<1> QED BY <1>1, <1>2, <1>3, <1>4, <1>5, <1>6, <1>7 DEF ImdsNext, allVars

LEMMA CleanUpStays ==
  ASSUME [ImdsNext]_allVars, ~Crash, ~Reboot, \A ok \in BOOLEAN : ~CancelRemovesTaints(ok),
         cancelPc = "cleanup"
  PROVE  cancelPc' = "cleanup"
<1> USE DEF vars, cancelVars
<1>1. CASE External \/ Startup
  BY <1>1 DEF External, NoticeAppears, NoticeEnds, PodScheduled, Startup, StartCheck,
              StartUncordon, StartRemoveLabel, StartRemoveTaints, StartIgnore, StartOnly
<1>2. CASE \E k \in Kinds : MonitorStep(k)
  BY <1>2 DEF MonitorStep, Poll, PollLifecycleState, SendEvent, ReceiveInterruption,
              ReceiveCancellation
<1>3. CASE \E o \in Object : StoreEvent(o) \/ (EventBecomesDue(o) /\ Local)
  BY <1>3 DEF StoreEvent, AddReceived, EventBecomesDue
<1>4. CASE Up /\ MainStep /\ Local
  BY <1>4 DEF MainStep, TakeSignal, CleanStore, SelectEvent, SelectNone, StartWorker,
              AllWorkersBusy
<1>5. ASSUME NEW o \in Object, ImdsWorkerStep(o)
      PROVE  UNCHANGED cancelPc
  BY <1>5, ImdsWorkerSteps DEF WorkerStep, LaunchReady, LaunchNotReady, LaunchCancel,
              LaunchNodeName, LaunchPost, GetNodeName, GetNodeLabels, PreDrain, Cordon, Drain,
              CancelDrainTask, CancelEvent, CancelByWorker, Mark, PostDrain, PostDrainNotFound,
              TaintOutOfService, ReleaseSlot, WorkerOnly
<1>6. CASE ImdsCancellationStep
  BY <1>6 DEF ImdsCancellationStep, CancelReceived, CheckUncordon, CancelUncordons,
              UncordonCancelled, CancelRemovesLabel
<1> QED BY <1>1, <1>2, <1>3, <1>4, <1>5, <1>6 DEF ImdsNext, allVars

(* A task and a clean-up are under way only while their goroutine is there. *)
Places ==
  /\ \A o \in Object : task[o] # "begin" => pc[o] = "preDrain"
  /\ cleaning # "event-id" => cancelPc = "cleanup"

LEMMA PlacesKept ==
  ASSUME ImdsInv, Places, [ImdsNext]_allVars
  PROVE  Places'
<1>0. StepTypes /\ pc \in [Object -> WorkerPc]
  BY DEF ImdsInv, DispatcherInv, DispatcherTypeOK
<1>1. CASE Crash \/ Reboot
  BY <1>1 DEF Crash, Reboot, ProcessStarts, Places
<1>2. ASSUME NEW o \in Object, PreDrainStep(o)
      PROVE  Places'
  <2>1. pc[o] = "preDrain" /\ UNCHANGED cleaning
    BY <1>2 DEF PreDrainStep, TaskMarksEvent, TaskTaints, TaskChecks, TaskMarksAction,
         TaskMarksTime, TaskRollsBack, TaskFails, TaintTask, TaskAt, TaskOnly
  <2>2. TaskEnds(o) \/ \E to : TaskGoes(o, to)
    BY <1>2 DEF PreDrainStep, TaskMarksEvent, TaskTaints, TaskChecks, TaskMarksAction,
         TaskMarksTime, TaskRollsBack, TaskFails, TaintTask
  <2>3. UNCHANGED cancelPc
    BY <2>2 DEF TaskEnds, TaskGoes, PreDrain, WorkerOnly, vars, cancelVars
  <2>4. \A p \in Object : task'[p] # "begin" => pc'[p] = "preDrain"
    <3>1. CASE TaskEnds(o)
      BY <1>0, <3>1 DEF TaskEnds, PreDrain, Goto, Places, StepTypes
    <3>2. CASE \E to : TaskGoes(o, to)
      BY <1>0, <2>1, <3>2 DEF TaskGoes, Places, StepTypes, vars, workerVars
    <3> QED BY <2>2, <3>1, <3>2
  <2> QED BY <2>1, <2>3, <2>4 DEF Places
<1>3. ASSUME NEW ok \in BOOLEAN, CancelRemovesLabel(ok) \/ CancelRemovesTaints(ok)
      PROVE  Places'
  BY <1>3 DEF CancelRemovesLabel, CancelRemovesTaints, CleanUpCancelled, Places, vars,
              workerVars, cancelVars
<1>4. CASE /\ ~Crash /\ ~Reboot /\ \A o \in Object : ~PreDrainStep(o)
           /\ \A ok \in BOOLEAN : ~CancelRemovesLabel(ok) /\ ~CancelRemovesTaints(ok)
  BY <1>4, StepFrame, TaskStays, CleanUpStays DEF Places
<1> QED BY <1>1, <1>2, <1>3, <1>4

(* The counters of the bounds keep them. *)
Counted == faults \in 0 .. MaxFaults /\ crashes \in 0 .. MaxCrashes

LEMMA CountedKept ==
  ASSUME Counted, [ImdsNext]_allVars
  PROVE  Counted'
<1> USE ImdsAssumption DEF Counted, boundVars
<1>1. CASE Fault /\ UNCHANGED crashes
  BY SMT, <1>1 DEF Fault
<1>2. CASE UNCHANGED <<faults, crashes>>
  BY <1>2
<1>3. CASE Crash
  BY SMT, <1>3 DEF Crash
<1>4. (Fault \/ UNCHANGED faults) /\ (Crash \/ UNCHANGED crashes)
  <2>1. CASE External
    BY <2>1 DEF External, NoticeAppears, NoticeEnds, PodScheduled, Crash, Reboot
  <2>2. CASE Startup
    BY <2>2 DEF Startup, StartCheck, StartUncordon, StartRemoveLabel, RemovesLabel,
                StartRemoveTaints, RemovesTaints, StartIgnore, StartOnly
  <2>3. CASE \E k \in Kinds : MonitorStep(k)
    BY <2>3 DEF MonitorStep, Poll, PollLifecycleState, SendEvent, MonitorOnly
  <2>4. ASSUME NEW o \in Object, PreDrainStep(o)
        PROVE  (Fault \/ UNCHANGED faults) /\ UNCHANGED crashes
    BY <2>4 DEF PreDrainStep, TaskMarksEvent, TaskTaints, TaskChecks, TaskMarksAction,
         TaskMarksTime, TaskRollsBack, TaskFails, TaintTask, TaskAt, TaskOnly
  <2>5. CASE \E o \in Object : ImdsWorkerStep(o)
    BY <2>4, <2>5 DEF ImdsWorkerStep, ReadLabels, CordonsNode, DrainsNode, ImdsOnly, Local,
                imdsVars
  <2>6. CASE ImdsCancellationStep
    BY <2>6 DEF ImdsCancellationStep, CancelUncordons, CancelRemovesLabel, RemovesLabel,
                CancelRemovesTaints, RemovesTaints, ImdsOnly, Local, imdsVars
  <2> QED BY <2>1, <2>2, <2>3, <2>5, <2>6 DEF ImdsNext, StoreEvent, Local, allVars, imdsVars
<1> QED BY <1>1, <1>2, <1>3, <1>4

Types == NodeTypes /\ StartTypes /\ SendTypes /\ Places /\ Counted

LEMMA TypesInit == ImdsInit => Types
<1> SUFFICES ASSUME ImdsInit PROVE Types
  OBVIOUS
<1>1. NodeTypes
  BY SMT, ImdsAssumption DEF ImdsInit, NodeInit, NodeTypes, LabelKey
<1>2. StartTypes /\ SendTypes /\ Places
  BY SMT, ImdsAssumption DEF ImdsInit, ProcessInit, StartTypes, StartPc, SendTypes, Places
<1>3. Counted
  BY SMT, ImdsAssumption DEF ImdsInit, Counted
<1> QED BY <1>1, <1>2, <1>3 DEF Types

LEMMA TypesInvariance == ImdsSpec => []Types
<1>1. ImdsInv /\ Types /\ [ImdsNext]_allVars => Types'
  BY NodeTypesKept, StartTypesKept, SendTypesKept, PlacesKept, CountedKept DEF Types
<1> QED BY <1>1, TypesInit, ImdsInvariance, PTL DEF ImdsSpec

(***************************************************************************)
(* Every component of IMDS mode's state stays in its range, for every set  *)
(* of notices and every pattern of failures: the startup gives up after    *)
(* MaxAttempts calls of handleRebootUncordon, a pre-drain task is under    *)
(* way only while its worker runs it, and no worker runs before the        *)
(* startup is over.                                                        *)
(***************************************************************************)
THEOREM ImdsTypeCorrect == ImdsSpec => []ImdsTypeOK
<1>1. ImdsInv /\ Types => ImdsTypeOK
  <2> SUFFICES ASSUME ImdsInv, Types PROVE ImdsTypeOK
    OBVIOUS
  <2>1. startPc # "up" => Busy = {}
    BY DEF ImdsInv, Fresh, Busy, Running, Handling, Finishing
  <2>2. metadata \in [Notice -> {"none", "active"} \cup Ended] /\ startEvent \subseteq EventID
    BY DEF ImdsInv, StepTypes, NoticeState
  <2> QED BY <2>1, <2>2 DEF ImdsTypeOK, Types, NodeTypes, StartTypes, SendTypes, Places, Counted
<1> QED BY <1>1, ImdsInvariance, TypesInvariance, PTL

-----------------------------------------------------------------------------
(* The event of the reboot *)

(* Only a restart and the startup touch what RebootInv speaks of, up to the *)
(* labels, which are read at the startup's beginning.                       *)
LEMMA RebootFrame ==
  ASSUME [ImdsNext]_allVars, ~Crash, ~Reboot, ~Startup
  PROVE  UNCHANGED <<startVars, boot, crashes, rebootedFor, ignoredEvents>>
<1> USE DEF boundVars, vars, storeVars
<1>1. CASE External
  BY <1>1 DEF External, NoticeAppears, NoticeEnds, PodScheduled, nodeVars
<1>2. UNCHANGED boot /\ (~External => UNCHANGED startVars)
  BY BootFrame, StartFrame
<1>3. CASE \E k \in Kinds : MonitorStep(k)
  BY <1>1, <1>2, <1>3 DEF MonitorStep, Poll, PollLifecycleState, SendEvent, MonitorOnly,
              ReceiveInterruption, ReceiveCancellation
<1>4. CASE \E o \in Object : StoreEvent(o) \/ (EventBecomesDue(o) /\ Local)
  BY <1>1, <1>2, <1>4 DEF StoreEvent, AddReceived, AddInterruptionEvent, EventBecomesDue,
              BecomeDue, Local, imdsVars
<1>5. CASE Up /\ MainStep /\ Local
  BY <1>1, <1>2, <1>5 DEF MainStep, TakeSignal, CleanStore, cleanPeriodically, SelectEvent,
              SelectNone, StartWorker, AllWorkersBusy, Local, imdsVars
<1>6. ASSUME NEW o \in Object, ImdsWorkerStep(o)
      PROVE  UNCHANGED <<crashes, rebootedFor, ignoredEvents>>
  <2>1. UNCHANGED ignoredEvents
    BY <1>6, ImdsWorkerSteps DEF WorkerStep, LaunchReady, LaunchNotReady, LaunchCancel,
              LaunchNodeName, LaunchPost, GetNodeName, GetNodeLabels, PreDrain, Cordon, Drain,
              CancelDrainTask, CancelEvent, CancelByWorker, CancelInterruptionEvent, Mark,
              MarkAllAsProcessed, PostDrain, PostDrainNotFound, TaintOutOfService,
              ReleaseSlot, WorkerOnly
  <2>2. CASE PreDrainStep(o)
    BY <2>1, <2>2 DEF PreDrainStep, TaskMarksEvent, TaskTaints, TaskChecks, TaskMarksAction,
         TaskMarksTime, TaskRollsBack, TaskFails, TaintTask, TaskAt, TaskOnly
  <2> QED BY <1>6, <2>1, <2>2 DEF ImdsWorkerStep, ReadLabels, CordonsNode, DrainsNode,
              ImdsOnly, Local, imdsVars
<1>7. CASE ImdsCancellationStep
  BY <1>1, <1>2, <1>7 DEF ImdsCancellationStep, CancelReceived, CancelInterruptionEvent,
              CheckUncordon, CancelUncordons, UncordonCancelled, CancelRemovesLabel,
              CancelRemovesTaints, CleanUpCancelled, ImdsOnly, Local, imdsVars
<1>8. CASE UNCHANGED allVars
  BY <1>8 DEF allVars, imdsVars, nodeVars
<1> QED BY <1>1, <1>2, <1>3, <1>4, <1>5, <1>6, <1>7, <1>8 DEF ImdsNext

(* A process that has not come up has no goroutine that labels the node. *)
LEMMA LabelsWait ==
  ASSUME ImdsInv, [ImdsNext]_allVars, ~Startup, startPc = "check"
  PROVE  UNCHANGED labels
<1>0. /\ cancelPc = "wait"
      /\ \A o \in Object : pc[o] = "idle"
  BY DEF ImdsInv, Fresh
<1>1. CASE External
  BY <1>1 DEF External, NoticeAppears, NoticeEnds, PodScheduled, Crash, Reboot, nodeVars
<1>2. CASE \E k \in Kinds : MonitorStep(k)
  BY <1>2 DEF MonitorStep, Poll, PollLifecycleState, SendEvent, Up
<1>3. ASSUME NEW o \in Object, ImdsWorkerStep(o)
      PROVE  FALSE
  <2>1. pc[o] # "idle"
    <3>1. CASE PreDrainStep(o)
      BY <3>1 DEF PreDrainStep, TaskMarksEvent, TaskTaints, TaskChecks, TaskMarksAction,
         TaskMarksTime, TaskRollsBack, TaskFails, TaintTask, TaskAt
    <3> QED BY <1>3, <3>1 DEF ImdsWorkerStep, ReadLabels, CordonsNode, DrainsNode, GetNodeName,
              GetNodeLabels, Cordon, Drain, CancelEvent, Mark, ReleaseSlot, Goto
  <2> QED BY <1>0, <2>1
<1>4. ~ImdsCancellationStep
  BY <1>0 DEF ImdsCancellationStep, CancelReceived, CheckUncordon, CancelUncordons,
              UncordonCancelled, CancelRemovesLabel, CancelRemovesTaints, CleanUpCancelled
<1> QED BY <1>1, <1>2, <1>3, <1>4
        DEF ImdsNext, StoreEvent, Local, allVars, imdsVars, nodeVars

LEMMA RebootNext ==
  ASSUME ImdsInv, Types, RebootInv, [ImdsNext]_allVars
  PROVE  RebootInv'
<1>0. boot \in Nat /\ crashes \in Nat /\ attempts \in Nat
  BY SMT, ImdsAssumption DEF Types, NodeTypes, StartTypes, Counted
<1>1. CASE Crash
  BY SMT, <1>0, <1>1 DEF Crash, ProcessStarts, nodeVars, RebootInv, StartupUndisturbed
<1>2. CASE Reboot
  <2>1. boot' = boot + 1 /\ startEvent' = {} /\ startPc' = "check" /\ UNCHANGED labels
    BY <1>2 DEF Reboot, ProcessStarts
  <2>2. ASSUME boot = 0, rebootedFor' # {}
        PROVE  IsLabeledWithAction' /\ rebootedFor' = {labels'["event-id"]}
    BY <1>2, <2>1, <2>2 DEF Reboot, RebootInv, IsLabeledWithAction
  <2>3. boot' # 0 /\ (boot' <= 1 => boot = 0)
    BY SMT, <1>0, <2>1
  <2> QED BY <2>1, <2>2, <2>3 DEF RebootInv, StartupUndisturbed
<1>3. CASE Startup
  <2>1. UNCHANGED <<boot, crashes, rebootedFor>> /\ startPc # "up"
    <3>1. UNCHANGED boot
      BY <1>3, StartupNode, SameBoot
    <3> QED BY <1>3, <3>1 DEF Startup, StartCheck, StartUncordon, StartRemoveLabel,
                StartRemoveTaints, StartIgnore, StartOnly, boundVars, LabelKey
  <2>2. CASE StartFails
    BY SMT, <1>0, <2>1, <2>2 DEF StartFails, RebootInv, StartupUndisturbed
  <2>3. CASE \E ok \in BOOLEAN : StartCheck(ok)
    <3>1. CASE ~StartFails
      <4>1. /\ startPc = "check" /\ UNCHANGED attempts
            /\ startEvent' = IF IsLabeledWithAction THEN {labels["event-id"]} ELSE {}
            /\ startPc' = IF ~IsLabeledWithAction THEN "up"
                          ELSE IF Rebooted THEN "uncordon" ELSE "ignore"
        BY <2>3, <3>1 DEF StartCheck
      <4>2. \A x, y \in startEvent' : x = y
        BY <4>1
      <4>3. StartupUndisturbed' => rebootedFor' \subseteq startEvent'
        BY <2>1, <4>1 DEF RebootInv, StartupUndisturbed
      <4>4. StartupUndisturbed' /\ startPc' = "up" => rebootedFor' = {}
        BY <2>1, <4>1, <4>3
      <4>5. startPc' # "check"
        BY <4>1
      <4> QED BY <2>1, <4>2, <4>3, <4>4, <4>5 DEF RebootInv
    <3> QED BY <2>2, <3>1
  <2>4. CASE StartIgnore
    <3>1. PICK id \in startEvent : ignoredEvents' = ignoredEvents \cup {id}
      BY <2>4 DEF StartIgnore, IgnoreEvent
    <3>2. startPc = "ignore" /\ startPc' = "up" /\ startEvent' = {} /\ UNCHANGED attempts
      BY <2>4 DEF StartIgnore
    <3>3. StartupUndisturbed' => rebootedFor' \subseteq ignoredEvents'
      BY <2>1, <3>1, <3>2 DEF RebootInv, StartupUndisturbed
    <3> QED BY <2>1, <3>2, <3>3 DEF RebootInv
  <2>5. CASE /\ startPc \notin {"check", "up"} /\ startPc' \notin {"check", "up"}
             /\ UNCHANGED <<startEvent, attempts>>
    BY <2>1, <2>5 DEF RebootInv, StartupUndisturbed
  <2>6. CASE \E ok \in BOOLEAN : StartUncordon(ok) \/ StartRemoveLabel(ok) \/ StartRemoveTaints(ok)
    BY <2>2, <2>5, <2>6 DEF StartUncordon, StartRemoveLabel, StartRemoveTaints, StartGoes,
              AfterLabel, LabelKey
  <2> QED BY <1>3, <2>3, <2>4, <2>6 DEF Startup
<1>4. CASE ~Crash /\ ~Reboot /\ ~Startup
  <2>1. UNCHANGED <<startPc, startEvent, attempts, boot, crashes, rebootedFor, ignoredEvents>>
    BY <1>4, RebootFrame DEF startVars
  <2>2. startPc = "check" => UNCHANGED labels
    BY <1>4, LabelsWait
  <2> QED BY <2>1, <2>2 DEF RebootInv, StartupUndisturbed, IsLabeledWithAction
<1> QED BY <1>1, <1>2, <1>3, <1>4

(***************************************************************************)
(* MarkWithEventID does what it is for: after the reboot an event asked    *)
(* for, no worker is given that event, although the metadata still shows   *)
(* it and the monitor sends it.  handleRebootUncordon reads the label,     *)
(* removes it and only then ignores the event, so this needs a reboot that *)
(* is the first restart of the pod and a first call that does not fail.    *)
(***************************************************************************)
THEOREM RebootRespected == ImdsSpec => [](StartupUndisturbed => RebootedEventIgnored)
<1>1. ImdsInit => RebootInv
  BY DEF ImdsInit, ProcessInit, RebootInv
<1>2. ImdsInv /\ Types /\ RebootInv /\ [ImdsNext]_allVars => RebootInv'
  BY RebootNext
<1>3. ImdsInv /\ RebootInv => (StartupUndisturbed => RebootedEventIgnored)
  <2> SUFFICES ASSUME ImdsInv, RebootInv, StartupUndisturbed, NEW o \in Busy
               PROVE  Id(o) \notin rebootedFor
    BY DEF RebootedEventIgnored
  <2>1. startPc = "up"
    BY DEF ImdsInv, Fresh, Busy, Running, Handling, Finishing
  <2>2. Id(o) \notin ignoredEvents
    BY DEF ImdsInv, DispatcherInv, EventInv, Busy
  <2> QED BY <2>1, <2>2 DEF RebootInv
<1> QED BY <1>1, <1>2, <1>3, ImdsInvariance, TypesInvariance, PTL DEF ImdsSpec

-----------------------------------------------------------------------------
(* A processed event *)

(* The label of the time names a boot that has begun. *)
LEMMA ActionTimeKept ==
  ASSUME Types, [ImdsNext]_allVars,
         "action-time" \in DOMAIN labels => labels["action-time"] \in 0 .. boot
  PROVE  "action-time" \in DOMAIN labels' => labels'["action-time"] \in 0 .. boot'
<1>0. boot \in Nat /\ (UNCHANGED boot \/ boot' = boot + 1)
  BY SMT, BootFrame, ImdsAssumption DEF Types, NodeTypes, Reboot
<1>1. CASE UNCHANGED labels
  BY SMT, <1>0, <1>1
<1>2. CASE \E key \in LabelKey : Without(key)
  BY <1>0, <1>2 DEF Without
<1>3. CASE \E o \in Object : SetLabel("event-id", Id(o))
  BY <1>0, <1>3 DEF SetLabel, With
<1>4. CASE labels' = With("exclude", "nth")
  BY SMT, <1>0, <1>4 DEF With
<1>5. CASE \E o \in Object : TaskMarksAction(o)
  BY <1>0, <1>5 DEF TaskMarksAction, MarkAction, addLabel, SetLabel, With
<1>6. CASE \E o \in Object : TaskMarksTime(o)
  <2>1. UNCHANGED boot /\ labels' = With("action-time", boot)
    BY <1>6 DEF TaskMarksTime, MarkActionTime, addLabel, SetLabel
  <2> QED BY SMT, <1>0, <2>1 DEF With
<1> QED BY <1>1, <1>2, <1>3, <1>4, <1>5, <1>6, LabelSteps DEF LabelStep

(* A node that nothing uncordons stays as it is. *)
LEMMA NodeKept ==
  ASSUME Types, [ImdsNext]_allVars, startPc # "uncordon", cancelPc # "uncordon", unschedulable
  PROVE  unschedulable' /\ (~pods => ~pods')
<1>0. pods \in BOOLEAN
  BY DEF Types, NodeTypes
<1>1. CASE UNCHANGED <<unschedulable, pods>>
  BY <1>1
<1>2. CASE CordonNode \/ MarkAndCordon
  BY SMT, <1>2 DEF CordonNode, MarkAndCordon
<1>3. CASE EvictPods
  BY <1>0, <1>3 DEF EvictPods
<1>4. CASE External
  BY <1>1, <1>4 DEF External, NoticeAppears, NoticeEnds, PodScheduled, Crash, Reboot, nodeVars
<1>5. CASE NodeStep
  BY <1>1, <1>2, <1>3, <1>5 DEF NodeStep, nodeVars, Without, SetLabel, AddTaint,
              RemoveNTHTaints, RemoveSomeTaints
<1> QED BY <1>4, <1>5, NodeSteps

LEMMA SameManner ==
  ASSUME OneManner, DispatcherTypeOK, NEW o \in Object, NEW p \in Object, OnlyCordons(o)
  PROVE  OnlyCordons(p)
<1>1. sent[o] \in Arrival /\ sent[p] \in Arrival
  BY DEF DispatcherTypeOK, StoreTypeOK
<1> QED BY <1>1 DEF OneManner, OnlyCordons

(* A step after which the event's worker is at neither of its two points, *)
(* unless it was there before, and nothing more is settled.               *)
LEMMA DoneFrame ==
  ASSUME DispatcherTypeOK, NEW p \in Object, DoneAsAsked(p),
         unschedulable => (unschedulable' /\ (~pods => ~pods')),
         UNCHANGED <<sent, nodeProcessed>>,
         \A id \in EventID : interruptionEventStore'[id] \in {interruptionEventStore[id], NoObject},
         pc'[p] \in {"drain", "mark"} => UNCHANGED pc[p]
  PROVE  DoneAsAsked(p)'
<1>1. NodeSettled(p) => NodeSettled(p)'
  BY DEF NodeSettled, OnlyCordons
<1>2. Stored(p)' => Stored(p)
  BY StoreAssumption DEF Stored, Id, DispatcherTypeOK, StoreTypeOK
<1> QED BY <1>1, <1>2 DEF DoneAsAsked

(* What a step makes of the events, while nothing uncordons the node. *)
LEMMA DoneKept ==
  ASSUME OneManner, PodsListed, ImdsInv, [ImdsNext]_allVars,
         unschedulable => (unschedulable' /\ (~pods => ~pods')),
         cancelPc = "wait",
         \A o \in Object : DoneAsAsked(o)
  PROVE  \A o \in Object : DoneAsAsked(o)'
<1>0. DispatcherTypeOK /\ \A o \in Object : Id(o) \in EventID
  BY StoreAssumption DEF ImdsInv, DispatcherInv, DispatcherTypeOK, StoreTypeOK, Id
<1> DEFINE Kept == /\ UNCHANGED <<sent, nodeProcessed>>
                   /\ \A id \in EventID :
                        interruptionEventStore'[id] \in {interruptionEventStore[id], NoObject}
<1>1. ASSUME Kept, \A p \in Object : pc'[p] \in {"drain", "mark"} => UNCHANGED pc[p]
      PROVE  \A p \in Object : DoneAsAsked(p)'
  BY <1>0, <1>1, DoneFrame
<1>2. CASE UNCHANGED <<interruptionEventStore, sent, nodeProcessed, pc>>
  BY <1>1, <1>2
<1> USE DEF vars, storeVars, heapVars, workerVars
<1>3. CASE External
  <2>1. CASE Crash \/ Reboot
    <3>1. DispatcherRestarts
      BY <2>1 DEF Crash, Reboot, ProcessStarts
    <3> QED BY <3>1, StoreAssumption DEF DispatcherRestarts, DoneAsAsked
  <2> QED BY <1>2, <1>3, <2>1 DEF External, NoticeAppears, NoticeEnds, PodScheduled
<1>4. CASE Startup
  BY <1>2, <1>4 DEF Startup, StartCheck, StartUncordon, StartRemoveLabel, StartRemoveTaints,
              StartIgnore, IgnoreEvent, StartOnly
<1>5. CASE \E k \in Kinds : MonitorStep(k)
  BY <1>2, <1>5 DEF MonitorStep, Poll, PollLifecycleState, SendEvent, ReceiveInterruption,
              ReceiveCancellation
<1>6. ASSUME NEW o \in Object, StoreEvent(o)
      PROVE  \A p \in Object : DoneAsAsked(p)'
  <2>1. CASE UNCHANGED storeVars
    BY <1>2, <1>6, <2>1 DEF StoreEvent, AddReceived
  <2>2. CASE ~UNCHANGED storeVars
    <3>1. /\ sent' = [sent EXCEPT ![o] = watcher]
          /\ nodeProcessed' = [nodeProcessed EXCEPT ![o] = FALSE]
          /\ interruptionEventStore' = [interruptionEventStore EXCEPT ![watcher.id] = o]
          /\ UNCHANGED pc /\ o \in Garbage
      BY <1>6, <2>2 DEF StoreEvent, AddReceived, AddInterruptionEvent
    <3>2. DoneAsAsked(o)'
      <4>1. pc'[o] \notin {"drain", "mark"}
        BY <3>1 DEF Garbage, Running, Handling
      <4>2. ~nodeProcessed'[o]
        BY <1>0, <3>1 DEF DispatcherTypeOK, StoreTypeOK
      <4> QED BY <4>1, <4>2 DEF DoneAsAsked
    <3>3. ASSUME NEW p \in Object, p # o
          PROVE  DoneAsAsked(p)'
      <4>1. sent'[p] = sent[p] /\ nodeProcessed'[p] = nodeProcessed[p] /\ pc'[p] = pc[p]
        BY <1>0, <3>1, <3>3 DEF DispatcherTypeOK, StoreTypeOK
      <4>2. Stored(p)' => Stored(p)
        BY <1>0, <3>1, <3>3, <4>1 DEF Stored, Id, DispatcherTypeOK, StoreTypeOK
      <4>3. NodeSettled(p) => NodeSettled(p)'
        BY <4>1 DEF NodeSettled, OnlyCordons
      <4> QED BY <4>1, <4>2, <4>3 DEF DoneAsAsked
    <3> QED BY <3>2, <3>3
  <2> QED BY <2>1, <2>2
<1>7. CASE \E o \in Object : EventBecomesDue(o) /\ Local
  BY <1>2, <1>7 DEF EventBecomesDue, BecomeDue
<1>8. CASE Up /\ MainStep /\ Local
  <2>1. CASE CleanStore
    <3>1. Kept /\ UNCHANGED pc
      BY <1>0, <2>1 DEF CleanStore, cleanPeriodically, DispatcherTypeOK, StoreTypeOK
    <3> QED BY <1>1, <3>1
  <2>2. ASSUME NEW o \in Object, StartWorker(o)
        PROVE  \A p \in Object : DoneAsAsked(p)'
    <3>1. Kept
      BY <2>2 DEF StartWorker
    <3>2. \A p \in Object : pc'[p] \in {"drain", "mark"} => UNCHANGED pc[p]
      BY <1>0, <2>2 DEF StartWorker, FirstPc, DispatcherTypeOK
    <3> QED BY <1>1, <3>1, <3>2
  <2> QED BY <1>2, <1>8, <2>1, <2>2 DEF MainStep, TakeSignal, SelectEvent, SelectNone,
              AllWorkersBusy
<1>9. ASSUME NEW o \in Object, ImdsWorkerStep(o)
      PROVE  \A p \in Object : DoneAsAsked(p)'
  <2>0. pc \in [Object -> WorkerPc]
    BY <1>0 DEF DispatcherTypeOK
  <2>1. ASSUME Kept, NEW from, NEW to, Goto(o, from, to), to \notin {"drain", "mark"}
        PROVE  \A p \in Object : DoneAsAsked(p)'
    <3>1. \A p \in Object : pc'[p] \in {"drain", "mark"} => UNCHANGED pc[p]
      BY <2>0, <2>1 DEF Goto
    <3> QED BY <1>1, <2>1, <3>1
  <2>2. ASSUME UNCHANGED storeVars, NEW from, NEW to, Goto(o, from, to),
               to = "drain" => unschedulable', to = "mark" => NodeSettled(o)'
        PROVE  \A p \in Object : DoneAsAsked(p)'
    <3>1. ASSUME NEW p \in Object, p # o
          PROVE  DoneAsAsked(p)'
      <4>1. UNCHANGED pc[p]
        BY <2>0, <2>2, <3>1 DEF Goto
      <4> QED BY <1>0, <2>2, <4>1, DoneFrame
    <3>2. DoneAsAsked(o)'
      <4>1. pc'[o] = to
        BY <2>0, <2>2 DEF Goto
      <4>2. NodeSettled(o) => NodeSettled(o)'
        BY <2>2 DEF NodeSettled, OnlyCordons
      <4> QED BY <2>2, <4>1, <4>2 DEF DoneAsAsked, Stored, Id
    <3> QED BY <3>1, <3>2
  <2>3. CASE \E ok \in BOOLEAN : CordonsNode(o, ok)
    <3>1. PICK ok \in BOOLEAN : CordonsNode(o, ok)
      BY <2>3
    <3> DEFINE to == IF ~ok THEN AfterFailure(o) ELSE IF OnlyCordons(o) THEN "mark" ELSE "drain"
    <3>2. Goto(o, "cordon", to) /\ UNCHANGED storeVars
      BY <3>1 DEF CordonsNode, Cordon, WorkerOnly
    <3>3. CASE ~ok
      <4>1. to \notin {"drain", "mark"}
        BY <3>3 DEF AfterFailure
      <4> QED BY <2>2, <3>2, <4>1
    <3>4. CASE ok
      <4>1. unschedulable'
        BY <3>1, <3>4 DEF CordonsNode, CordonNode, MarkAndCordon
      <4>2. OnlyCordons(o)' = OnlyCordons(o)
        BY <3>2 DEF OnlyCordons
      <4>3. to = "mark" => NodeSettled(o)'
        BY <3>4, <4>1, <4>2 DEF NodeSettled
      <4> QED BY <2>2, <3>2, <4>1, <4>3
    <3> QED BY <3>3, <3>4
  <2>4. CASE \E ok \in BOOLEAN : DrainsNode(o, ok)
    <3>1. PICK ok \in BOOLEAN : DrainsNode(o, ok)
      BY <2>4
    <3> DEFINE to == IF ok THEN "mark" ELSE AfterFailure(o)
    <3>2. Goto(o, "drain", to) /\ UNCHANGED storeVars
      BY <3>1 DEF DrainsNode, Drain, WorkerOnly
    <3>3. CASE ~ok
      <4>1. to \notin {"drain", "mark"}
        BY <3>3 DEF AfterFailure
      <4> QED BY <2>2, <3>2, <4>1
    <3>4. CASE ok
      <4>1. unschedulable'
        BY <3>2 DEF Goto, DoneAsAsked
      <4>2. ~pods'
        BY <3>1, <3>4 DEF DrainsNode, EvictPods, PodsListed
      <4>3. NodeSettled(o)'
        BY <4>1, <4>2 DEF NodeSettled
      <4> QED BY <2>2, <3>2, <3>4, <4>1, <4>3
    <3> QED BY <3>3, <3>4
  <2>5. CASE Mark(o)
    <3>1. /\ pc[o] = "mark" /\ UNCHANGED <<interruptionEventStore, sent>>
          /\ \A p \in Object : pc'[p] \in {"drain", "mark"} => UNCHANGED pc[p]
      BY <2>0, <2>5 DEF Mark, MarkAllAsProcessed, Goto, AfterPost
    <3>2. \A p \in Object : NodeSettled(p) => NodeSettled(p)'
      BY <3>1 DEF NodeSettled, OnlyCordons
    <3>3. \A p \in Object : NodeSettled(p)
      BY <1>0, <3>1, SameManner DEF DoneAsAsked, NodeSettled
    <3> QED BY <3>1, <3>2, <3>3 DEF DoneAsAsked
  <2>6. CASE PreDrainStep(o)
    <3>1. UNCHANGED vars \/ PreDrain(o)
      BY <2>6 DEF PreDrainStep, TaskMarksEvent, TaskTaints, TaskChecks, TaskMarksAction,
              TaskMarksTime, TaskRollsBack, TaskFails, TaintTask, TaskGoes, TaskEnds
    <3> QED BY <1>2, <2>1, <3>1 DEF PreDrain, WorkerOnly
  <2>7. CASE GetNodeName(o, TRUE) \/ (\E ok \in BOOLEAN : ReadLabels(o, ok)) \/ ReleaseSlot(o)
    <3>1. Kept
      BY <2>7 DEF GetNodeName, ReadLabels, GetNodeLabels, ReleaseSlot, WorkerOnly
    <3>2. \/ Goto(o, "nodeName", "nodeLabels") \/ Goto(o, "release", "idle")
          \/ Goto(o, "nodeLabels", "preDrain") \/ Goto(o, "nodeLabels", "cordon")
      BY <2>7 DEF GetNodeName, ReadLabels, GetNodeLabels, ReleaseSlot
    <3> QED BY <2>1, <3>1, <3>2
  <2>8. CASE CancelEvent(o)
    <3>1. Kept
      BY <1>0, <2>8 DEF CancelEvent, CancelByWorker, CancelInterruptionEvent, DispatcherTypeOK,
                StoreTypeOK
    <3>2. Goto(o, "cancelEvent", AfterCancel(o))
      BY <2>8 DEF CancelEvent
    <3>3. AfterCancel(o) \notin {"drain", "mark"}
      BY DEF AfterCancel
    <3> QED BY <2>1, <3>1, <3>2, <3>3
  <2> QED BY <1>9, <2>3, <2>4, <2>5, <2>6, <2>7, <2>8 DEF ImdsWorkerStep
<1>10. ~ImdsCancellationStep
  BY DEF ImdsCancellationStep, CancelReceived, CheckUncordon, CancelUncordons,
         UncordonCancelled, CancelRemovesLabel, CancelRemovesTaints, CleanUpCancelled
<1>11. CASE UNCHANGED allVars
  BY <1>2, <1>11 DEF allVars
<1> QED BY <1>3, <1>4, <1>5, <1>6, <1>7, <1>8, <1>9, <1>10, <1>11 DEF ImdsNext

LEMMA DrainNext ==
  ASSUME OneManner, PodsListed, ImdsInv, Types, DrainInv, [ImdsNext]_allVars
  PROVE  DrainInv'
<1>1. "action-time" \in DOMAIN labels' => labels'["action-time"] \in 0 .. boot'
  BY ActionTimeKept DEF DrainInv
<1>2. ASSUME boot' = 0, NothingEnded'
      PROVE  /\ startPc' \in {"check", "ignore", "up"}
             /\ cancelPc' = "wait"
             /\ \A k \in Kinds : \A y \in toSend'[k] : y.state \notin Ended
             /\ \A o \in Object : DoneAsAsked(o)'
  <2>1. boot = 0 /\ ~Reboot
    <3>1. boot \in Nat
      BY SMT, ImdsAssumption DEF Types, NodeTypes
    <3>2. ~Reboot
      BY SMT, <1>2, <3>1 DEF Reboot
    <3> QED BY <1>2, <3>2, BootFrame
  <2>2. NothingEnded
    BY <1>2, EndedForGood DEF ImdsInv
  <2>3. /\ startPc \in {"check", "ignore", "up"}
        /\ cancelPc = "wait"
        /\ \A k \in Kinds : \A y \in toSend[k] : y.state \notin Ended
        /\ \A o \in Object : DoneAsAsked(o)
    BY <2>1, <2>2 DEF DrainInv
  <2>4. startPc' \in {"check", "ignore", "up"}
    <3>1. CASE External
      BY <2>3, <3>1 DEF External, NoticeAppears, NoticeEnds, PodScheduled, Crash, Reboot,
                ProcessStarts, startVars
    <3>2. CASE Startup
      <4>1. ~Rebooted
        BY SMT, <2>1 DEF Rebooted, DrainInv
      <4> QED BY <2>3, <3>2, <4>1 DEF Startup, StartCheck, StartFails, StartUncordon,
                StartRemoveLabel, StartRemoveTaints, StartIgnore, LabelKey
    <3> QED BY <2>3, <3>1, <3>2, StartFrame DEF startVars
  <2>5. /\ cancelPc' = "wait"
        /\ \A k \in Kinds : \A y \in toSend'[k] : y.state \notin Ended
    BY <2>2, <2>3, NothingToCancel
  <2>6. unschedulable => (unschedulable' /\ (~pods => ~pods'))
    BY <2>3, NodeKept
  <2>7. \A o \in Object : DoneAsAsked(o)'
    BY <2>3, <2>6, DoneKept
  <2> QED BY <2>4, <2>5, <2>7
<1> QED BY <1>1, <1>2 DEF DrainInv

(***************************************************************************)
(* While maintenance has neither taken place nor ended, an event that      *)
(* MarkAllAsProcessed has settled means a node that is cordoned, and       *)
(* drained if the event asks for it, for every set of notices, every       *)
(* number of workers, and every pattern of failed calls and restarts of    *)
(* the pod, provided that the configuration asks the same of every event   *)
(* and that a drain knows the pods.  Without one of these two conditions   *)
(* the property fails (ImdsRebalance.cfg, ImdsCache.cfg).                  *)
(***************************************************************************)
THEOREM ProcessedIsDrained ==
  ASSUME OneManner, PodsListed
  PROVE  ImdsSpec => []ProcessedMeansDrained
<1>1. ImdsInit => DrainInv
  <2> SUFFICES ASSUME ImdsInit PROVE DrainInv
    OBVIOUS
  <2>1. "action-time" \notin DOMAIN labels
    BY DEF ImdsInit, NodeInit
  <2>2. \A o \in Object : DoneAsAsked(o)
    BY DEF ImdsInit, Init, StoreInit, DoneAsAsked
  <2> QED BY <2>1, <2>2 DEF ImdsInit, Init, ProcessInit, DrainInv
<1>2. ImdsInv /\ Types /\ DrainInv /\ [ImdsNext]_allVars => DrainInv'
  BY DrainNext
<1>3. DrainInv => ProcessedMeansDrained
  BY DEF DrainInv, DoneAsAsked, ProcessedMeansDrained
<1> QED BY <1>1, <1>2, <1>3, ImdsInvariance, TypesInvariance, PTL DEF ImdsSpec
=============================================================================
