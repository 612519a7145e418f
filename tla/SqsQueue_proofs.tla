--------------------------- MODULE SqsQueue_proofs ---------------------------
(***************************************************************************)
(* Proofs about queue processor mode, for every set of messages, nodes and *)
(* heap cells, every number of workers, and every pattern of failed calls, *)
(* crashes, redeliveries and stale receipt handles.                        *)
(*                                                                         *)
(* The Dispatcher's own invariant is kept by every step, the restarts of   *)
(* the process included (BaseInv).  What queue mode promises on top of it  *)
(* holds in a SafeSetting, and rests on DoneInv: a worker that has come as *)
(* far as its post-drain task has settled its event, and what is settled   *)
(* stays settled, whatever happens to the process.                         *)
(***************************************************************************)
EXTENDS SqsQueue, Dispatcher_proofs

(***************************************************************************)
(* No message describes two events (an AWS Health event with two entities  *)
(* does), a lookup by provider ID gives the event's own node, and the      *)
(* message of a node that is not found is kept.                            *)
(***************************************************************************)
SafeSetting ==
  /\ \A m \in Message : \A a, b \in Wrappers[m] : a = b
  /\ \A a \in Arrival : ResolvedName(a) = a.nodeName
  /\ ~DeleteSqsMsgIfNodeNotFound

BaseInv == DispatcherInv /\ QueueTypeOK

(* The worker of o has done what its event asks for, from "mark" on. *)
WorkerDone(o) ==
  /\ pc[o] \in {"checkReady", "launchNodeName", "postLaunch"} => sent[o].kind = "launch"
  /\ pc[o] \in {"nodeName", "nodeLabels", "preDrain", "cordon", "drain", "mark", "post"}
       => sent[o].kind # "launch"
  /\ pc[o] \in {"launchNodeName", "postLaunch", "mark", "post"} => Settled(sent[o])
  /\ pc[o] # "postNotFound"

DropHolds ==
  monPc = "drop" => \A m \in current : \A a \in Wrappers[m] : Settled(a)

DoneInv ==
  /\ SafeSetting
  /\ BaseInv
  /\ \A o \in Object : WorkerDone(o)
  /\ DropHolds
  /\ NoInterruptionLost
  /\ ContinuedOnlyWhenDone

-----------------------------------------------------------------------------
(* The Dispatcher inside queue mode *)

(* A step of queue mode is a step of the Dispatcher, or leaves it alone,   *)
(* or starts the process again.                                            *)
LEMMA StepsOfDispatcher ==
  ASSUME [QueueNext]_allVars
  PROVE  [Next]_vars \/ DispatcherRestarts
<1> USE DEF queueVars
<1>1. CASE External
  BY <1>1 DEF External, MessageArrives, VisibilityExpires, HookExpires, InstanceEnds,
              NodeDeregistered, NodeJoins
<1>2. CASE Crash
  BY <1>2 DEF Crash, Restart
<1>3. CASE MonitorStep
  <2>1. CASE \E a \in Arrival : SendEvent(a)
    BY <2>1 DEF SendEvent, Next
  <2>2. CASE ReceiveFails \/ FinishBatch
    BY <2>2 DEF ReceiveFails, FinishBatch, MonitorFails, MonitorReturns, Restart
  <2>3. CASE ~(ReceiveFails \/ FinishBatch \/ \E a \in Arrival : SendEvent(a))
    BY <1>3, <2>3 DEF MonitorStep, ReceiveMessages, RejectMessage, DeleteTestMessage,
                 InterpretMessage, MessageProcessed, DropMessage
  <2> QED BY <2>1, <2>2, <2>3
<1>4. CASE \E o \in Object : StoreEvent(o)
  BY <1>4 DEF StoreEvent, Next
<1>5. CASE MainStep /\ Local
  BY <1>5 DEF Next
<1>6. ASSUME NEW o \in Object, QueueWorkerStep(o)
      PROVE  [Next]_vars
  <2>1. UNCHANGED vars \/ WorkerStep(o)
    BY <1>6 DEF QueueWorkerStep, CheckReady, LookUpName, ReadLabels, CordonsNode,
                DrainsNode, ContinueLifecycle, ContinueFails, PostDeletes, PostTask,
                Finish, WorkerStep
  <2> QED BY <2>1 DEF Next
<1> QED BY <1>1, <1>2, <1>3, <1>4, <1>5, <1>6 DEF QueueNext, allVars

LEMMA DispatcherKept ==
  ASSUME DispatcherInv, [QueueNext]_allVars
  PROVE  DispatcherInv'
  BY StepsOfDispatcher, RestartInv, NextInv

-----------------------------------------------------------------------------
(* Types *)

LEMMA QueueInitTypes == QueueInit => BaseInv
<1> SUFFICES ASSUME QueueInit PROVE BaseInv
  OBVIOUS
<1>1. DispatcherInv
  BY InitInv DEF QueueInit
<1>2. /\ queue \in [Message -> {"unsent", "visible", "inflight", "deleted"}]
      /\ hook \in [Message -> {"none", "waiting", "continued", "expired"}]
      /\ instance \in [NodeName -> {"running", "gone"}]
  BY DEF QueueInit
<1>3. registered \in [NodeName -> BOOLEAN] /\ noneProcessed \in BOOLEAN /\ failed \in BOOLEAN
  <2>1. registered = [n \in NodeName |-> n \in InCluster]
    BY DEF QueueInit
  <2>2. \A n \in NodeName : (n \in InCluster) \in BOOLEAN
    OBVIOUS
  <2>3. registered \in [NodeName -> BOOLEAN]
    BY <2>1, <2>2
  <2>4. noneProcessed \in BOOLEAN /\ failed \in BOOLEAN
    BY DEF QueueInit
  <2> QED BY <2>3, <2>4
<1>4. /\ faults \in 0 .. MaxFaults /\ crashes \in 0 .. MaxCrashes
      /\ duplicateErrCount \in 0 .. duplicateErrThreshold
  BY QueueAssumption DEF QueueInit
<1>5. Cardinality(current) <= 1
  BY FS_EmptySet DEF QueueInit
<1> QED BY <1>1, <1>2, <1>3, <1>4, <1>5 DEF BaseInv, QueueTypeOK, QueueInit

(* A failed call is counted within the bound. *)
LEMMA FaultTyped ==
  ASSUME faults \in 0 .. MaxFaults, Fault \/ UNCHANGED faults
  PROVE  faults' \in 0 .. MaxFaults
  BY QueueAssumption DEF Fault

(* A monitor that starts over, with its process or without it. *)
LEMMA MonitorStartsOver ==
  ASSUME monPc' = "poll", batch' = {}, current' = {}, todo' = {},
         noneProcessed' = TRUE, failed' = FALSE
  PROVE  /\ monPc' \in {"poll", "batch", "send", "drop"} /\ batch' \subseteq Message
         /\ current' \subseteq Message /\ Cardinality(current') <= 1
         /\ todo' \subseteq Arrival /\ noneProcessed' \in BOOLEAN /\ failed' \in BOOLEAN
<1>1. Cardinality(current') <= 1
  BY FS_EmptySet
<1> QED BY <1>1

(* What the monitor of a queue keeps of its types, by itself. *)
MonitorTyped ==
  /\ monPc \in {"poll", "batch", "send", "drop"} /\ batch \subseteq Message
  /\ current \subseteq Message /\ Cardinality(current) <= 1
  /\ todo \subseteq Arrival /\ noneProcessed \in BOOLEAN /\ failed \in BOOLEAN

ErrTyped ==
  /\ previousErr \in {"nil", "receive", "noneProcessed"}
  /\ duplicateErrCount \in 0 .. duplicateErrThreshold

HandleTyped == stale \subseteq Object \cup {"watcher"} /\ continued \subseteq Object

CloudTyped ==
  /\ queue \in [Message -> {"unsent", "visible", "inflight", "deleted"}]
  /\ hook \in [Message -> {"none", "waiting", "continued", "expired"}]
  /\ instance \in [NodeName -> {"running", "gone"}]
  /\ registered \in [NodeName -> BOOLEAN]
  /\ drained \subseteq NodeName
  /\ faults \in 0 .. MaxFaults
  /\ crashes \in 0 .. MaxCrashes

LEMMA TypesTogether == QueueTypeOK <=> CloudTyped /\ MonitorTyped /\ ErrTyped /\ HandleTyped
  BY DEF QueueTypeOK, CloudTyped, MonitorTyped, ErrTyped, HandleTyped

LEMMA ErrorsTyped ==
  ASSUME MonitorTyped, ErrTyped, HandleTyped,
         NEW e \in {"receive", "noneProcessed"}, MonitorFails(e)
  PROVE  MonitorTyped' /\ ErrTyped' /\ HandleTyped'
<1> DEFINE count == IF previousErr = e THEN duplicateErrCount + 1 ELSE 0
<1>0. duplicateErrThreshold \in Nat
  BY QueueAssumption
<1>1. MonitorTyped'
  BY MonitorStartsOver DEF MonitorFails, Restart, MonitorTyped
<1>2. CASE count >= duplicateErrThreshold
  <2>1. Restart
    BY <1>2 DEF MonitorFails
  <2> QED BY <1>0, <1>1, <2>1 DEF Restart, ErrTyped, HandleTyped
<1>3. CASE ~(count >= duplicateErrThreshold)
  <2>1. count \in 0 .. duplicateErrThreshold
    <3>1. duplicateErrCount \in Nat
      BY <1>0 DEF ErrTyped
    <3>2. CASE previousErr = e
      BY <1>0, <1>3, <3>1, <3>2
    <3>3. CASE previousErr # e
      BY <1>0, <3>3
    <3> QED BY <3>2, <3>3
  <2>2. previousErr' = e /\ duplicateErrCount' = count /\ UNCHANGED handleVars
    BY <1>3 DEF MonitorFails
  <2> QED BY <1>1, <2>1, <2>2 DEF ErrTyped, HandleTyped, handleVars
<1> QED BY <1>1, <1>2, <1>3

LEMMA ExternalTyped == QueueTypeOK /\ External => QueueTypeOK'
<1> SUFFICES ASSUME CloudTyped, MonitorTyped, ErrTyped, HandleTyped, External
             PROVE  CloudTyped' /\ MonitorTyped' /\ ErrTyped' /\ HandleTyped'
  BY TypesTogether, PTL
<1> USE DEF External, MessageArrives, VisibilityExpires, HookExpires, InstanceEnds,
            NodeDeregistered, NodeJoins
<1>1. MonitorTyped' /\ ErrTyped' /\ HandleTyped'
  BY DEF monitorVars, errVars, handleVars, MonitorTyped, ErrTyped, HandleTyped
<1>2. registered' \in [NodeName -> BOOLEAN]
  BY DEF CloudTyped
<1>3. /\ queue' \in [Message -> {"unsent", "visible", "inflight", "deleted"}]
      /\ hook' \in [Message -> {"none", "waiting", "continued", "expired"}]
      /\ instance' \in [NodeName -> {"running", "gone"}]
  BY DEF CloudTyped
<1>4. UNCHANGED <<drained, faults, crashes>>
  OBVIOUS
<1> QED BY <1>1, <1>2, <1>3, <1>4 DEF CloudTyped

(* A step that leaves the cloud alone but for the queue and the faults. *)
LEMMA CloudMostlyKept ==
  ASSUME CloudTyped, Fault \/ UNCHANGED faults,
         queue' \in [Message -> {"unsent", "visible", "inflight", "deleted"}],
         UNCHANGED <<hook, instance, registered, drained, crashes>>
  PROVE  CloudTyped'
<1>1. faults' \in 0 .. MaxFaults
  BY FaultTyped DEF CloudTyped
<1> QED BY <1>1 DEF CloudTyped

LEMMA MonitorStepTyped == QueueTypeOK /\ MonitorStep => QueueTypeOK'
<1> SUFFICES ASSUME CloudTyped, MonitorTyped, ErrTyped, HandleTyped, MonitorStep
             PROVE  CloudTyped' /\ MonitorTyped' /\ ErrTyped' /\ HandleTyped'
  BY TypesTogether, PTL
<1> USE DEF cloudVars, errVars, handleVars
<1>1. CASE ReceiveFails
  <2>1. CloudTyped'
    BY <1>1, CloudMostlyKept DEF ReceiveFails, CloudTyped
  <2> QED BY <1>1, <2>1, ErrorsTyped DEF ReceiveFails
<1>2. CASE FinishBatch
  <2>1. CloudTyped'
    BY <1>2 DEF FinishBatch, CloudTyped
  <2>2. CASE MonitorFails("noneProcessed")
    BY <2>1, <2>2, ErrorsTyped
  <2>3. CASE MonitorReturns
    BY <2>1, <2>3, MonitorStartsOver DEF MonitorReturns, MonitorTyped, ErrTyped, HandleTyped
  <2> QED BY <1>2, <2>2, <2>3 DEF FinishBatch
<1>3. ASSUME NEW S \in SUBSET Message, ReceiveMessages(S)
      PROVE  CloudTyped' /\ MonitorTyped' /\ ErrTyped' /\ HandleTyped'
  <2>1. CloudTyped'
    BY <1>3, CloudMostlyKept DEF ReceiveMessages, CloudTyped
  <2>2. MonitorTyped' /\ ErrTyped'
    BY <1>3 DEF ReceiveMessages, MonitorTyped, ErrTyped
  <2>3. \A m \in S : Holders(m) \subseteq Object \cup {"watcher"}
    BY DEF Holders
  <2>4. HandleTyped'
    BY <1>3, <2>3 DEF ReceiveMessages, HandleTyped
  <2> QED BY <2>1, <2>2, <2>4
<1>4. ASSUME NEW m \in Message, RejectMessage(m)
      PROVE  CloudTyped' /\ MonitorTyped' /\ ErrTyped' /\ HandleTyped'
  BY <1>4 DEF RejectMessage, CloudTyped, MonitorTyped, ErrTyped, HandleTyped
<1>5. ASSUME NEW m \in Message, NEW ok \in BOOLEAN, DeleteTestMessage(m, ok)
      PROVE  CloudTyped' /\ MonitorTyped' /\ ErrTyped' /\ HandleTyped'
  <2>1. CloudTyped'
    BY <1>5, CloudMostlyKept DEF DeleteTestMessage, DeleteMessage, CloudTyped
  <2> QED BY <1>5, <2>1 DEF DeleteTestMessage, MonitorTyped, ErrTyped, HandleTyped
<1>6. ASSUME NEW m \in Message, NEW errors \in SUBSET Wrappers[m], InterpretMessage(m, errors)
      PROVE  CloudTyped' /\ MonitorTyped' /\ ErrTyped' /\ HandleTyped'
  <2>1. CloudTyped'
    BY <1>6, CloudMostlyKept DEF InterpretMessage, CloudTyped
  <2>2. current' = {m} /\ Cardinality({m}) = 1
    BY <1>6, FS_Singleton DEF InterpretMessage
  <2>3. Wrappers[m] \subseteq Arrival
    BY QueueAssumption
  <2>4. /\ todo' \subseteq Arrival /\ batch' \subseteq Message
        /\ monPc' \in {"send", "drop"} /\ UNCHANGED noneProcessed
    BY <1>6, <2>3 DEF InterpretMessage, MonitorTyped
  <2>5. failed' \in BOOLEAN
    BY <1>6 DEF InterpretMessage
  <2>6. MonitorTyped'
    BY <2>2, <2>4, <2>5 DEF MonitorTyped
  <2> QED BY <1>6, <2>1, <2>6 DEF InterpretMessage, ErrTyped, HandleTyped
<1>7. ASSUME NEW a \in Arrival, SendEvent(a)
      PROVE  CloudTyped' /\ MonitorTyped' /\ ErrTyped' /\ HandleTyped'
  BY <1>7 DEF SendEvent, CloudTyped, MonitorTyped, ErrTyped, HandleTyped
<1>8. CASE MessageProcessed
  <2>1. noneProcessed' \in BOOLEAN /\ failed' \in BOOLEAN
    BY <1>8 DEF MessageProcessed, MonitorTyped
  <2>2. Cardinality(current') <= 1
    BY <1>8, FS_EmptySet DEF MessageProcessed
  <2> QED BY <1>8, <2>1, <2>2
          DEF MessageProcessed, CloudTyped, MonitorTyped, ErrTyped, HandleTyped
<1>9. ASSUME NEW ok \in BOOLEAN, DropMessage(ok)
      PROVE  CloudTyped' /\ MonitorTyped' /\ ErrTyped' /\ HandleTyped'
  <2>1. PICK m \in current : IF ok THEN DeleteMessage(m, FALSE) /\ UNCHANGED faults
                                   ELSE Fault /\ UNCHANGED queue
    BY <1>9 DEF DropMessage
  <2>2. m \in Message
    BY DEF MonitorTyped
  <2>3. CloudTyped'
    BY <1>9, <2>1, <2>2, CloudMostlyKept DEF DropMessage, DeleteMessage, CloudTyped
  <2>4. noneProcessed' \in BOOLEAN
    BY <1>9 DEF DropMessage, MonitorTyped
  <2>5. Cardinality(current') <= 1
    BY <1>9, FS_EmptySet DEF DropMessage
  <2> QED BY <1>9, <2>3, <2>4, <2>5 DEF DropMessage, MonitorTyped, ErrTyped, HandleTyped
<1> QED BY <1>1, <1>2, <1>3, <1>4, <1>5, <1>6, <1>7, <1>8, <1>9 DEF MonitorStep

LEMMA WorkerStepTyped ==
  ASSUME DispatcherTypeOK, QueueTypeOK, NEW o \in Object, QueueWorkerStep(o)
  PROVE  QueueTypeOK'
<1> SUFFICES ASSUME CloudTyped, MonitorTyped, ErrTyped, HandleTyped
             PROVE  CloudTyped' /\ MonitorTyped' /\ ErrTyped' /\ HandleTyped'
  BY TypesTogether, PTL
<1> USE DEF cloudVars, monitorVars, errVars, handleVars
<1>0. sent[o] \in Arrival /\ sent[o].msg \in Message /\ NodeOf(o) \in NodeName
  BY StoreAssumption, QueueAssumption
     DEF DispatcherTypeOK, StoreTypeOK, NodeOf, ResolvedName
<1>1. CASE Local
  BY <1>1 DEF Local, queueVars, CloudTyped, MonitorTyped, ErrTyped, HandleTyped
<1>2. ASSUME NEW ok \in BOOLEAN, Asks(o, ok)
      PROVE  CloudTyped' /\ MonitorTyped' /\ ErrTyped' /\ HandleTyped'
  <2>1. CloudTyped'
    BY <1>2, CloudMostlyKept DEF Asks, NodeAnswer, CloudTyped
  <2> QED BY <1>2, <2>1 DEF Asks, MonitorTyped, ErrTyped, HandleTyped
<1>3. ASSUME NEW ok \in BOOLEAN, CordonsNode(o, ok) \/ DrainsNode(o, ok)
      PROVE  CloudTyped' /\ MonitorTyped' /\ ErrTyped' /\ HandleTyped'
  <2>1. faults' \in 0 .. MaxFaults
    BY <1>3, FaultTyped DEF CordonsNode, DrainsNode, NodeAnswer, CloudTyped
  <2>2. drained' \subseteq NodeName
    BY <1>0, <1>3 DEF CordonsNode, DrainsNode, CloudTyped
  <2> QED BY <1>3, <2>1, <2>2
          DEF CordonsNode, DrainsNode, CloudTyped, MonitorTyped, ErrTyped, HandleTyped
<1>4. CASE ContinueLifecycle(o)
  BY <1>0, <1>4 DEF ContinueLifecycle, CloudTyped, MonitorTyped, ErrTyped, HandleTyped
<1>5. ASSUME ContinueFails(o) \/ \E ok \in BOOLEAN : PostDeletes(o, ok)
      PROVE  CloudTyped' /\ MonitorTyped' /\ ErrTyped' /\ HandleTyped'
  <2>1. CloudTyped'
    BY <1>0, <1>5, CloudMostlyKept
       DEF ContinueFails, PostDeletes, DeleteMessage, CloudTyped
  <2> QED BY <1>5, <2>1 DEF ContinueFails, PostDeletes, MonitorTyped, ErrTyped, HandleTyped
<1>6. CASE Finish(o)
  BY <1>6 DEF Finish, CloudTyped, MonitorTyped, ErrTyped, HandleTyped
<1> QED BY <1>1, <1>2, <1>3, <1>4, <1>5, <1>6
        DEF QueueWorkerStep, CheckReady, LookUpName, ReadLabels

LEMMA BaseKept == BaseInv /\ [QueueNext]_allVars => BaseInv'
<1> SUFFICES ASSUME DispatcherInv, QueueTypeOK, [QueueNext]_allVars
             PROVE  DispatcherInv' /\ QueueTypeOK'
  BY DEF BaseInv
<1>1. DispatcherInv'
  BY DispatcherKept
<1>2. CASE External \/ MonitorStep
  BY <1>1, <1>2, ExternalTyped, MonitorStepTyped
<1>3. ASSUME NEW o \in Object, QueueWorkerStep(o) PROVE QueueTypeOK'
  BY <1>3, WorkerStepTyped DEF DispatcherInv
<1>4. CASE Crash
  <2>1. MonitorTyped' /\ ErrTyped' /\ HandleTyped'
    <3>1. MonitorTyped'
      BY <1>4, MonitorStartsOver DEF Crash, Restart, MonitorTyped
    <3>2. ErrTyped' /\ HandleTyped'
      BY <1>4, QueueAssumption DEF Crash, Restart, ErrTyped, HandleTyped
    <3> QED BY <3>1, <3>2
  <2>2. crashes' \in 0 .. MaxCrashes
    BY <1>4, QueueAssumption DEF Crash, QueueTypeOK
  <2>3. CloudTyped'
    BY <1>4, <2>2 DEF Crash, QueueTypeOK, CloudTyped
  <2> QED BY <1>1, <2>1, <2>3, TypesTogether, PTL
<1>5. ASSUME NEW o \in Object, StoreEvent(o) PROVE QueueTypeOK'
  BY <1>5 DEF StoreEvent, QueueTypeOK, cloudVars, monitorVars, errVars
<1>6. CASE Local
  BY <1>1, <1>6 DEF Local, queueVars, QueueTypeOK, cloudVars, monitorVars, errVars, handleVars
<1> QED BY <1>1, <1>2, <1>3, <1>4, <1>5, <1>6 DEF QueueNext, allVars, Local

(* The Dispatcher's inductive invariant and the types of the queue hold in *)
(* queue mode, through every restart of the process.                       *)
THEOREM BaseInvariance == QueueSpec => []BaseInv
  BY QueueInitTypes, BaseKept, PTL DEF QueueSpec

-----------------------------------------------------------------------------
(* What is settled stays settled *)

(* EC2 instances do not come back, a node leaves the cluster only after    *)
(* its instance, and nobody forgets that a node was drained.               *)
LEMMA CloudMonotone ==
  ASSUME QueueTypeOK, [QueueNext]_allVars
  PROVE  /\ \A n \in NodeName : instance[n] = "gone" => instance'[n] = "gone"
         /\ \A n \in NodeName : registered[n] => registered'[n] \/ instance[n] = "gone"
         /\ drained \subseteq drained'
<1> USE DEF cloudVars
<1>1. CASE UNCHANGED <<instance, registered, drained>>
  BY <1>1
<1>2. CASE External
  BY <1>2 DEF External, MessageArrives, VisibilityExpires, HookExpires, InstanceEnds,
              NodeDeregistered, NodeJoins, QueueTypeOK
<1>3. CASE MonitorStep
  BY <1>1, <1>3 DEF MonitorStep, ReceiveFails, ReceiveMessages, RejectMessage,
              DeleteTestMessage, InterpretMessage, SendEvent, MessageProcessed,
              DropMessage, FinishBatch
<1>4. ASSUME NEW o \in Object, QueueWorkerStep(o)
      PROVE  UNCHANGED <<instance, registered>> /\ drained \subseteq drained'
  BY <1>4 DEF QueueWorkerStep, CheckReady, LookUpName, ReadLabels, Asks, Local, queueVars,
              CordonsNode, DrainsNode, ContinueLifecycle, ContinueFails, PostDeletes, Finish
<1>5. CASE Crash \/ (\E o \in Object : StoreEvent(o)) \/ Local
  BY <1>1, <1>5 DEF Crash, StoreEvent, Local, queueVars
<1> QED BY <1>1, <1>2, <1>3, <1>4, <1>5 DEF QueueNext, allVars, queueVars

LEMMA SettledStays ==
  ASSUME SafeSetting, QueueTypeOK, [QueueNext]_allVars, NEW a \in Arrival, Settled(a)
  PROVE  Settled(a)'
<1>1. a.nodeName \in NodeName /\ ResolvedName(a) = a.nodeName
  BY StoreAssumption DEF SafeSetting
<1> QED BY <1>1, CloudMonotone DEF Settled, ResolvedName

-----------------------------------------------------------------------------
(* The workers *)

(* Only the watcher puts an event in a cell, and only in one that no       *)
(* worker runs on; only the main loop starts a worker; a worker moves      *)
(* nobody's program counter but its own.                                   *)
LEMMA OtherWorkers ==
  ASSUME BaseInv, QueueNext, NEW o \in Object,
         ~QueueWorkerStep(o), ~StartWorker(o), pc'[o] \in Running
  PROVE  pc'[o] = pc[o] /\ sent'[o] = sent[o]
<1> USE DEF storeVars, mainVars, cancelVars, heapVars, workerVars
<1>0. /\ pc \in [Object -> WorkerPc] /\ sent \in [Object -> Arrival]
      /\ "idle" \notin Running
  BY DEF BaseInv, DispatcherInv, DispatcherTypeOK, StoreTypeOK, Running, Handling, Finishing
<1>1. CASE UNCHANGED vars
  BY <1>1 DEF vars
<1>2. CASE DispatcherRestarts
  BY <1>0, <1>2 DEF DispatcherRestarts
<1>3. CASE \E a \in Arrival : ReceiveInterruption(a)
  BY <1>3 DEF ReceiveInterruption
<1>4. ASSUME NEW c \in Object, AddReceived(c)
      PROVE  pc'[o] = pc[o] /\ sent'[o] = sent[o]
  <2>1. pc[c] \notin Running /\ UNCHANGED pc
    BY <1>4 DEF AddReceived, Garbage
  <2>2. c # o
    BY <2>1
  <2> QED BY <1>0, <1>4, <2>1, <2>2 DEF AddReceived, AddInterruptionEvent
<1>5. CASE MainStep
  <2>1. ASSUME NEW p \in Object, StartWorker(p)
        PROVE  pc'[o] = pc[o] /\ sent'[o] = sent[o]
    BY <1>0, <2>1 DEF StartWorker
  <2> QED BY <1>5, <2>1 DEF MainStep, TakeSignal, CleanStore, cleanPeriodically,
             SelectEvent, SelectNone, AllWorkersBusy
<1>6. ASSUME NEW p \in Object, p # o, WorkerStep(p)
      PROVE  pc'[o] = pc[o] /\ sent'[o] = sent[o]
  BY <1>0, <1>6 DEF WorkerStep, Goto, WorkerOnly, CancelByWorker, CancelInterruptionEvent,
     LaunchReady, LaunchNotReady, LaunchCancel, LaunchNodeName, LaunchPost, GetNodeName,
     GetNodeLabels, PreDrain, Cordon, Drain, CancelDrainTask, CancelEvent, Mark,
     MarkAllAsProcessed, PostDrain, PostDrainNotFound, TaintOutOfService, ReleaseSlot
<1>7. ASSUME NEW p \in Object, QueueWorkerStep(p)
      PROVE  UNCHANGED vars \/ WorkerStep(p)
  BY <1>7 DEF QueueWorkerStep, CheckReady, LookUpName, ReadLabels, CordonsNode,
              DrainsNode, ContinueLifecycle, ContinueFails, PostDeletes, PostTask,
              Finish, WorkerStep
<1>8. CASE MonitorStep
  <2>1. UNCHANGED vars \/ DispatcherRestarts \/ \E a \in Arrival : ReceiveInterruption(a)
    BY <1>8 DEF MonitorStep, ReceiveFails, ReceiveMessages, RejectMessage,
                DeleteTestMessage, InterpretMessage, SendEvent, MessageProcessed,
                DropMessage, FinishBatch, MonitorFails, MonitorReturns, Restart
  <2> QED BY <1>1, <1>2, <1>3, <2>1
<1>9. CASE External
  BY <1>1, <1>9 DEF External, MessageArrives, VisibilityExpires, HookExpires,
                    InstanceEnds, NodeDeregistered, NodeJoins
<1>10. CASE Crash \/ \E c \in Object : StoreEvent(c)
  BY <1>2, <1>4, <1>10 DEF Crash, Restart, StoreEvent
<1> QED BY <1>1, <1>5, <1>6, <1>7, <1>8, <1>9, <1>10 DEF QueueNext

(* A worker reaches its post-drain task only through a successful cordon   *)
(* or drain, or through a node that is ready.                              *)
LEMMA OwnWorker ==
  ASSUME SafeSetting, BaseInv, NEW o \in Object, WorkerDone(o), QueueWorkerStep(o),
         Settled(sent[o]) => Settled(sent[o])'
  PROVE  WorkerDone(o)'
<1> USE DEF storeVars, mainVars, cancelVars, heapVars, workerVars, Goto, WorkerOnly
<1>0. /\ pc \in [Object -> WorkerPc] /\ sent[o] \in Arrival
      /\ ~DeleteSqsMsgIfNodeNotFound
  BY DEF BaseInv, DispatcherInv, DispatcherTypeOK, StoreTypeOK, SafeSetting
<1>1. CASE UNCHANGED <<pc, sent>>
  BY <1>1 DEF WorkerDone
<1>2. CASE LaunchReady(o) /\ Asks(o, TRUE)
  <2>1. /\ pc[o] = "checkReady" /\ pc'[o] = "launchNodeName" /\ sent' = sent
        /\ registered' = registered /\ registered[NodeOf(o)]
    BY <1>0, <1>2 DEF LaunchReady, Asks, NodeAnswer
  <2>2. sent[o].kind = "launch"
    BY <2>1 DEF WorkerDone
  <2>3. Settled(sent[o])'
    BY <2>1, <2>2 DEF Settled, NodeOf, ResolvedName
  <2> QED BY <2>1, <2>2, <2>3 DEF WorkerDone
<1>3. CASE \E ok \in BOOLEAN : LaunchNodeName(o, ok)
  <2>1. /\ pc[o] = "launchNodeName" /\ pc'[o] \in {"postLaunch", "release"} /\ sent' = sent
    BY <1>0, <1>3 DEF LaunchNodeName
  <2> QED BY <2>1 DEF WorkerDone
<1>4. ASSUME pc'[o] \in {"release", "cancelLaunch", "cancelTask", "cancelEvent", "taint",
                         "idle"}
      PROVE  WorkerDone(o)'
  BY <1>4 DEF WorkerDone
<1>5. ASSUME pc[o] \in {"nodeName", "nodeLabels", "preDrain", "cordon"},
             pc'[o] \in {"nodeLabels", "preDrain", "cordon", "drain"}, sent' = sent
      PROVE  WorkerDone(o)'
  BY <1>5 DEF WorkerDone
<1>6. ASSUME NEW ok \in BOOLEAN, CordonsNode(o, ok) \/ DrainsNode(o, ok), pc'[o] = "mark"
      PROVE  WorkerDone(o)'
  <2>1. /\ pc[o] \in {"cordon", "drain"} /\ sent' = sent
        /\ drained' = drained \cup {NodeOf(o)}
    BY <1>0, <1>6 DEF CordonsNode, DrainsNode, Cordon, Drain, AfterFailure
  <2>2. sent[o].kind # "launch"
    BY <2>1 DEF WorkerDone
  <2>3. Settled(sent[o])'
    BY <2>1, <2>2 DEF Settled, NodeOf, ResolvedName
  <2> QED BY <1>6, <2>1, <2>2, <2>3 DEF WorkerDone
<1>7. CASE Mark(o)
  <2>1. /\ pc[o] = "mark" /\ pc'[o] \in {"post", "taint", "release"} /\ sent' = sent
    BY <1>0, <1>7 DEF Mark, MarkAllAsProcessed, AfterPost
  <2> QED BY <2>1 DEF WorkerDone
<1>8. ASSUME (LaunchNotReady(o) \/ LaunchCancel(o) \/ CancelDrainTask(o) \/ CancelEvent(o)
              \/ PostTask(o) \/ TaintOutOfService(o) \/ ReleaseSlot(o))
      PROVE  WorkerDone(o)'
  <2>1. pc'[o] \in {"release", "cancelLaunch", "cancelTask", "cancelEvent", "taint", "idle"}
    BY <1>0, <1>8 DEF LaunchNotReady, LaunchCancel, CancelDrainTask, CancelEvent,
       AfterCancel, PostTask, LaunchPost, PostDrain, PostDrainNotFound, AfterPost,
       TaintOutOfService, ReleaseSlot
  <2> QED BY <1>4, <2>1
<1>9. ASSUME NEW ok \in BOOLEAN, GetNodeName(o, ok) \/ GetNodeLabels(o, ok) \/ PreDrain(o)
      PROVE  WorkerDone(o)'
  <2>1. /\ pc[o] \in {"nodeName", "nodeLabels", "preDrain"} /\ sent' = sent
        /\ pc'[o] \in {"nodeLabels", "preDrain", "cordon", "release"}
    BY <1>0, <1>9 DEF GetNodeName, GetNodeLabels, PreDrain
  <2> QED BY <1>4, <1>5, <2>1
<1>10. ASSUME NEW ok \in BOOLEAN, CordonsNode(o, ok) \/ DrainsNode(o, ok)
      PROVE  WorkerDone(o)'
  <2>1. /\ pc[o] = "cordon" \/ (pc[o] = "drain" /\ pc'[o] # "drain")
        /\ sent' = sent /\ pc'[o] \in {"mark", "drain", "cancelTask", "cancelEvent"}
    BY <1>0, <1>10 DEF CordonsNode, DrainsNode, Cordon, Drain, AfterFailure
  <2> QED BY <1>4, <1>5, <1>6, <1>10, <2>1
<1>11. CASE ContinueLifecycle(o)
  BY <1>1, <1>11 DEF ContinueLifecycle, vars
<1> QED BY <1>2, <1>3, <1>7, <1>8, <1>9, <1>10, <1>11
        DEF QueueWorkerStep, CheckReady, LookUpName, ReadLabels, ContinueFails,
            PostDeletes, Finish

LEMMA WorkersDone ==
  ASSUME DoneInv, [QueueNext]_allVars, NEW o \in Object
  PROVE  WorkerDone(o)'
<1>0. /\ SafeSetting /\ BaseInv /\ QueueTypeOK /\ WorkerDone(o)
      /\ pc \in [Object -> WorkerPc] /\ sent[o] \in Arrival
  BY DEF DoneInv, BaseInv, DispatcherInv, DispatcherTypeOK, StoreTypeOK
<1>1. Settled(sent[o]) => Settled(sent[o])' \/ sent'[o] # sent[o]
  <2>1. PICK a \in Arrival : a = sent[o]
    BY <1>0
  <2>2. Settled(a) => Settled(a)'
    BY <1>0, SettledStays
  <2>3. sent'[o] = a => (Settled(sent[o])' <=> Settled(a)')
    OBVIOUS
  <2> QED BY <2>1, <2>2, <2>3
<1>2. CASE UNCHANGED allVars
  BY <1>0, <1>1, <1>2 DEF allVars, vars, storeVars, workerVars, WorkerDone
<1>3. CASE QueueWorkerStep(o)
  <2>1. sent' = sent
    BY <1>3 DEF QueueWorkerStep, CheckReady, LookUpName, ReadLabels, CordonsNode,
       DrainsNode, ContinueLifecycle, ContinueFails, PostDeletes, PostTask, Finish,
       WorkerOnly, CancelByWorker, CancelInterruptionEvent, LaunchReady, LaunchNotReady,
       LaunchCancel, LaunchNodeName, LaunchPost, GetNodeName, GetNodeLabels, PreDrain,
       Cordon, Drain, CancelDrainTask, CancelEvent, Mark, MarkAllAsProcessed, PostDrain,
       PostDrainNotFound, TaintOutOfService, ReleaseSlot, vars, storeVars, heapVars
  <2> QED BY <1>0, <1>1, <1>3, <2>1, OwnWorker
<1>4. CASE StartWorker(o)
  <2>1. /\ pc'[o] = IF sent[o].kind = "launch" THEN "checkReady" ELSE "nodeName"
        /\ sent' = sent
    BY <1>0, <1>4 DEF StartWorker, FirstPc
  <2> QED BY <2>1 DEF WorkerDone
<1>5. CASE QueueNext /\ ~QueueWorkerStep(o) /\ ~StartWorker(o) /\ pc'[o] \in Running
  <2>1. pc'[o] = pc[o] /\ sent'[o] = sent[o]
    BY <1>0, <1>5, OtherWorkers
  <2> QED BY <1>0, <1>1, <2>1 DEF WorkerDone
<1>6. CASE pc'[o] \notin Running
  BY <1>6 DEF Running, Handling, Finishing, WorkerDone
<1> QED BY <1>2, <1>3, <1>4, <1>5, <1>6

-----------------------------------------------------------------------------
(* The monitor, the queue and the hooks *)

(* The message of an event describes this event and no other. *)
LEMMA OnlyEvent ==
  ASSUME SafeSetting, NEW a \in Arrival, NEW b \in Wrappers[a.msg]
  PROVE  b = a
  BY QueueAssumption DEF SafeSetting

(* What all the events of a message have settled stays settled. *)
LEMMA MessageStaysSettled ==
  ASSUME SafeSetting, QueueTypeOK, [QueueNext]_allVars, NEW m \in Message,
         \A a \in Wrappers[m] : Settled(a)
  PROVE  \A a \in Wrappers[m] : Settled(a)'
  BY SettledStays, QueueAssumption

(* The monitor drops a message only if EC2 has said of the instance of     *)
(* each of its events that it is gone or not managed.                      *)
LEMMA DropStep ==
  ASSUME DoneInv, [QueueNext]_allVars
  PROVE  DropHolds'
<1>0. SafeSetting /\ QueueTypeOK /\ DropHolds /\ current \subseteq Message
  BY DEF DoneInv, BaseInv, QueueTypeOK
<1>1. CASE UNCHANGED <<monPc, current>>
  <2> SUFFICES ASSUME monPc = "drop", NEW m \in current
               PROVE  \A a \in Wrappers[m] : Settled(a)'
    BY <1>1 DEF DropHolds
  <2> QED BY <1>0, MessageStaysSettled DEF DropHolds
<1>2. ASSUME NEW m \in Message, NEW errors \in SUBSET Wrappers[m], InterpretMessage(m, errors)
      PROVE  DropHolds'
  <2> SUFFICES ASSUME Dropped(m, errors) = Wrappers[m], NEW a \in Wrappers[m]
               PROVE  Settled(a)'
    BY <1>2 DEF DropHolds, InterpretMessage
  <2>1. Settled(a)
    BY DEF Dropped, getNodeInfo, Settled
  <2> QED BY <1>0, <2>1, SettledStays, QueueAssumption
<1>3. CASE monPc' # "drop"
  BY <1>3 DEF DropHolds
<1>4. ASSUME MonitorStep,
             ~\E m \in Message : \E errors \in SUBSET Wrappers[m] : InterpretMessage(m, errors)
      PROVE  monPc' # "drop" \/ UNCHANGED <<monPc, current>>
  BY <1>4 DEF MonitorStep, ReceiveFails, ReceiveMessages, RejectMessage,
     DeleteTestMessage, SendEvent, MessageProcessed, DropMessage, FinishBatch,
     MonitorFails, MonitorReturns, Restart
<1>5. ASSUME External \/ (\E o \in Object : StoreEvent(o)) \/ Local
             \/ (\E o \in Object : QueueWorkerStep(o)) \/ Crash
      PROVE  monPc' # "drop" \/ UNCHANGED <<monPc, current>>
  <2> USE DEF monitorVars, queueVars
  <2>1. CASE \E o \in Object : QueueWorkerStep(o)
    BY <2>1 DEF QueueWorkerStep, CheckReady, LookUpName, ReadLabels, Asks, Local,
       CordonsNode, DrainsNode, ContinueLifecycle, ContinueFails, PostDeletes, Finish
  <2>2. CASE ~\E o \in Object : QueueWorkerStep(o)
    BY <1>5, <2>2 DEF External, MessageArrives, VisibilityExpires, HookExpires,
       InstanceEnds, NodeDeregistered, NodeJoins, StoreEvent, Local, Crash, Restart
  <2> QED BY <2>1, <2>2
<1> QED BY <1>1, <1>2, <1>3, <1>4, <1>5 DEF QueueNext, allVars, Local

(* A message leaves the queue in three ways. *)
LEMMA DeletedBy ==
  ASSUME QueueTypeOK, DispatcherTypeOK, [QueueNext]_allVars, NEW m \in Message,
         queue[m] # "deleted", queue'[m] = "deleted"
  PROVE  \/ Body[m] = "test"
         \/ monPc = "drop" /\ m \in current
         \/ \E o \in Object : AtPost(o) /\ sent[o].msg = m
<1> USE DEF cloudVars, QueueTypeOK
<1>0. queue' # queue
  OBVIOUS
<1>1. CASE External
  BY <1>1 DEF External, MessageArrives, VisibilityExpires, HookExpires, InstanceEnds,
              NodeDeregistered, NodeJoins
<1>2. CASE MonitorStep
  <2>1. CASE \E k \in Message, ok \in BOOLEAN : DeleteTestMessage(k, ok)
    BY <2>1 DEF DeleteTestMessage, DeleteMessage
  <2>2. CASE \E ok \in BOOLEAN : DropMessage(ok)
    BY <2>2 DEF DropMessage, DeleteMessage
  <2>3. CASE \E S \in SUBSET Message : ReceiveMessages(S)
    <3>1. PICK S \in SUBSET Message :
            queue' = [k \in Message |-> IF k \in S THEN "inflight" ELSE queue[k]]
      BY <2>3 DEF ReceiveMessages
    <3>2. queue'[m] \in {"inflight", queue[m]}
      BY <3>1
    <3> QED BY <3>2
  <2> QED BY <1>0, <1>2, <2>1, <2>2, <2>3 DEF MonitorStep, ReceiveFails, RejectMessage,
          InterpretMessage, SendEvent, MessageProcessed, FinishBatch
<1>3. ASSUME NEW o \in Object, QueueWorkerStep(o)
      PROVE  \E p \in Object : AtPost(p) /\ sent[p].msg = m
  <2>1. CASE \E ok \in BOOLEAN : PostDeletes(o, ok)
    <3>1. AtPost(o) /\ queue' = [queue EXCEPT ![sent[o].msg] = "deleted"]
      BY <1>0, <2>1 DEF PostDeletes, DeleteMessage
    <3> QED BY <3>1
  <2> QED BY <1>0, <1>3, <2>1 DEF QueueWorkerStep, CheckReady, LookUpName, ReadLabels,
          Asks, Local, queueVars, CordonsNode, DrainsNode, ContinueLifecycle,
          ContinueFails, Finish
<1> QED BY <1>0, <1>1, <1>2, <1>3 DEF QueueNext, allVars, queueVars, Crash, StoreEvent, Local

(* A worker at its post-drain task has settled every event of its message. *)
LEMMA PostSettled ==
  ASSUME DoneInv, NEW o \in Object, AtPost(o)
  PROVE  \A a \in Wrappers[sent[o].msg] : Settled(a)
<1>1. sent[o] \in Arrival /\ SafeSetting /\ WorkerDone(o)
  BY DEF DoneInv, BaseInv, DispatcherInv, DispatcherTypeOK, StoreTypeOK
<1>2. Settled(sent[o])
  BY <1>1 DEF AtPost, WorkerDone
<1> QED BY <1>1, <1>2, OnlyEvent

LEMMA LostStep ==
  ASSUME DoneInv, [QueueNext]_allVars
  PROVE  NoInterruptionLost'
<1>0. SafeSetting /\ QueueTypeOK /\ DispatcherTypeOK
  BY DEF DoneInv, BaseInv, DispatcherInv
<1> SUFFICES ASSUME NEW m \in Message, queue'[m] = "deleted", Body[m] = "events"
             PROVE  \A a \in Wrappers[m] : Settled(a)'
  BY DEF NoInterruptionLost
<1>1. CASE queue[m] = "deleted"
  BY <1>0, <1>1, MessageStaysSettled DEF DoneInv, NoInterruptionLost
<1>2. CASE monPc = "drop" /\ m \in current
  BY <1>0, <1>2, MessageStaysSettled DEF DoneInv, DropHolds
<1>3. ASSUME NEW o \in Object, AtPost(o), sent[o].msg = m
      PROVE  \A a \in Wrappers[m] : Settled(a)'
  BY <1>0, <1>3, PostSettled, MessageStaysSettled
<1> QED BY <1>0, <1>1, <1>2, <1>3, DeletedBy

LEMMA ContinuedStep ==
  ASSUME DoneInv, [QueueNext]_allVars
  PROVE  ContinuedOnlyWhenDone'
<1> USE DEF cloudVars
<1>0. SafeSetting /\ QueueTypeOK
  BY DEF DoneInv, BaseInv
<1> SUFFICES ASSUME NEW m \in Message, hook'[m] = "continued"
             PROVE  \A a \in Wrappers[m] : Settled(a)'
  BY DEF ContinuedOnlyWhenDone
<1>1. CASE hook[m] = "continued"
  BY <1>0, <1>1, MessageStaysSettled DEF DoneInv, ContinuedOnlyWhenDone
<1>2. CASE hook[m] # "continued"
  <2>1. CASE External
    BY <1>0, <1>2, <2>1 DEF External, MessageArrives, VisibilityExpires, HookExpires,
       InstanceEnds, NodeDeregistered, NodeJoins, QueueTypeOK
  <2>2. CASE MonitorStep
    BY <1>2, <2>2 DEF MonitorStep, ReceiveFails, ReceiveMessages, RejectMessage,
       DeleteTestMessage, InterpretMessage, SendEvent, MessageProcessed, DropMessage,
       FinishBatch
  <2>3. ASSUME NEW o \in Object, ContinueLifecycle(o)
        PROVE  \A a \in Wrappers[m] : Settled(a)'
    <3>1. AtPost(o) /\ sent[o].msg = m
      BY <1>0, <1>2, <2>3 DEF ContinueLifecycle, QueueTypeOK
    <3> QED BY <1>0, <3>1, PostSettled, MessageStaysSettled
  <2>4. ASSUME NEW o \in Object, QueueWorkerStep(o), ~ContinueLifecycle(o)
        PROVE  hook' = hook
    BY <2>4 DEF QueueWorkerStep, CheckReady, LookUpName, ReadLabels, Asks, Local,
       queueVars, CordonsNode, DrainsNode, ContinueFails, PostDeletes, Finish
  <2> QED BY <1>2, <2>1, <2>2, <2>3, <2>4
          DEF QueueNext, allVars, queueVars, Crash, StoreEvent, Local
<1> QED BY <1>1, <1>2

LEMMA DoneInit == QueueInit /\ SafeSetting => DoneInv
<1> SUFFICES ASSUME QueueInit, SafeSetting PROVE DoneInv
  OBVIOUS
<1>1. \A o \in Object : pc[o] = "idle"
  BY DEF QueueInit, Init
<1>2. \A o \in Object : WorkerDone(o)
  BY <1>1 DEF WorkerDone
<1>3. DropHolds /\ NoInterruptionLost /\ ContinuedOnlyWhenDone
  BY DEF QueueInit, DropHolds, NoInterruptionLost, ContinuedOnlyWhenDone
<1> QED BY <1>2, <1>3, QueueInitTypes DEF DoneInv

LEMMA DoneStep == DoneInv /\ [QueueNext]_allVars => DoneInv'
<1> SUFFICES ASSUME DoneInv, [QueueNext]_allVars PROVE DoneInv'
  OBVIOUS
<1>1. BaseInv'
  BY BaseKept DEF DoneInv
<1>2. SafeSetting'
  BY DEF DoneInv, SafeSetting, ResolvedName
<1> QED BY <1>1, <1>2, WorkersDone, DropStep, LostStep, ContinuedStep DEF DoneInv

-----------------------------------------------------------------------------
(* In a SafeSetting the inductive invariant behind the two promises of     *)
(* queue mode holds: workers past the drain have settled their event.      *)
THEOREM DoneInvariance == QueueSpec /\ SafeSetting => []DoneInv
  BY DoneInit, DoneStep, PTL DEF QueueSpec

(* In a SafeSetting no crash, failed call, redelivery or stale receipt     *)
(* handle loses an interruption: a message that describes one is deleted   *)
(* only after its node was drained, or there is nothing to do for it.      *)
THEOREM NothingLost == QueueSpec /\ SafeSetting => []NoInterruptionLost
<1>1. DoneInv => NoInterruptionLost
  BY DEF DoneInv
<1> QED BY <1>1, DoneInvariance, PTL

(* In a SafeSetting CompleteLifecycleAction is called only after the node  *)
(* was drained, or, for a launch, after it joined the cluster.             *)
THEOREM HookAfterDrain == QueueSpec /\ SafeSetting => []ContinuedOnlyWhenDone
<1>1. DoneInv => ContinuedOnlyWhenDone
  BY DEF DoneInv
<1> QED BY <1>1, DoneInvariance, PTL

(* Redelivered messages and restarts of the process do not make two        *)
(* workers handle one exclusive event: the guarantee of the event store    *)
(* survives in queue mode.                                                 *)
THEOREM QueueHandlingExclusive == QueueSpec => []NoConcurrentHandling
<1>1. BaseInv => NoConcurrentHandling
  BY StoredUnique DEF BaseInv, DispatcherInv, EventInv, NoConcurrentHandling
<1> QED BY <1>1, BaseInvariance, PTL

(* Every variable of queue mode keeps its type; the count of equal errors  *)
(* of the monitor never passes the threshold that stops the process.       *)
THEOREM QueueTypeCorrect == QueueSpec => []QueueTypeOK
<1>1. BaseInv => QueueTypeOK
  BY DEF BaseInv
<1> QED BY <1>1, BaseInvariance, PTL
=============================================================================
