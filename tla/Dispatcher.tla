----------------------------- MODULE Dispatcher -----------------------------
(***************************************************************************)
(* The handler's event loop and its workers.                               *)
(*                                                                         *)
(* cmd/node-termination-handler.go starts these goroutines around the      *)
(* event store:                                                            *)
(*   - watchForInterruptionEvents adds what the monitors send;             *)
(*   - watchForCancellationEvents removes cancelled events and may         *)
(*     uncordon the node;                                                  *)
(*   - the main loop takes an active event on every tick and starts        *)
(*     processInterruptionEvent for it when a worker slot is free;         *)
(*   - one goroutine per event being processed runs the launch handler     *)
(*     (interruptionevent/asg/launch) and the drain handler                *)
(*     (interruptionevent/draincordon).                                    *)
(*                                                                         *)
(* A goroutine that processes an event is identified with the event's      *)
(* Object, and its program counter is pc[o].  The answers of Kubernetes    *)
(* and of the callbacks are nondeterministic here.  The modules that       *)
(* extend this one say what the monitors send and what the callbacks do.   *)
(***************************************************************************)
EXTENDS EventStore

CONSTANTS
  Workers,                     \* capacity of the Workers channel
  SigtermArrives,              \* the environment sends a SIGTERM
  Cancellable,                 \* EventIDs a monitor may send on cancelChan
  NoArrival,                   \* an empty channel or hand
  UseProviderId,               \* NthConfig.UseProviderId
  CordonOnly,                  \* NthConfig.CordonOnly
  EnableSQSTerminationDraining,
  EnableRebalanceDraining,
  DeleteSqsMsgIfNodeNotFound,
  EnableOutOfServiceTaint

ASSUME DispatcherAssumption ==
  /\ Workers \in Nat
  /\ Cancellable \subseteq EventID
  /\ NoArrival \notin Arrival
  /\ IsFiniteSet(Object)
  /\ {SigtermArrives, UseProviderId, CordonOnly, EnableSQSTerminationDraining,
      EnableRebalanceDraining, DeleteSqsMsgIfNodeNotFound,
      EnableOutOfServiceTaint} \subseteq BOOLEAN

VARIABLES
  mainPc,         \* program counter of the main loop
  picked,         \* the event GetActiveEvent returned to the main loop
  signalChan,     \* SIGTERM: "none", "pending" in the channel, or "received"
  slots,          \* len(Workers)
  pc,             \* Object -> program counter of its worker
  nodeFound,      \* Object -> the worker's nodeFound
  watcher,        \* the event watchForInterruptionEvents has received
  cancelPc,       \* program counter of watchForCancellationEvents
  cancelled       \* the event watchForCancellationEvents has received

workerVars == <<pc, nodeFound>>
mainVars == <<mainPc, picked, signalChan>>
cancelVars == <<cancelPc, cancelled>>

vars == <<storeVars, mainVars, slots, workerVars, watcher, cancelVars>>

(***************************************************************************)
(* A worker's program counter.  Handling are the points up to and          *)
(* including the call that settles the event in the store                  *)
(* (CancelInterruptionEvent or MarkAllAsProcessed).                        *)
(***************************************************************************)
Handling ==
  {"checkReady", "cancelLaunch", "launchNodeName", "nodeName", "nodeLabels",
   "preDrain", "cordon", "drain", "cancelTask", "cancelEvent", "mark"}

Finishing == {"postLaunch", "post", "postNotFound", "taint", "release"}

Running == Handling \cup Finishing

WorkerPc == Running \cup {"idle"}

MainPc == {"tick", "next", "select", "dispatch"}

CancelPc == {"wait", "cancel", "check", "uncordon", "cleanup"}

DispatcherTypeOK ==
  /\ StoreTypeOK
  /\ mainPc \in MainPc
  /\ picked \in Object \cup {NoObject}
  /\ signalChan \in {"none", "pending", "received"}
  /\ slots \in 0 .. Workers
  /\ pc \in [Object -> WorkerPc]
  /\ nodeFound \in [Object -> BOOLEAN]
  /\ watcher \in Arrival \cup {NoArrival}
  /\ cancelPc \in CancelPc
  /\ cancelled \in Arrival \cup {NoArrival}

Init ==
  /\ StoreInit
  /\ mainPc = "tick"
  /\ picked = NoObject
  /\ signalChan = "none"
  /\ slots = 0
  /\ pc = [o \in Object |-> "idle"]
  /\ nodeFound = [o \in Object |-> FALSE]
  /\ watcher = NoArrival
  /\ cancelPc = "wait"
  /\ cancelled = NoArrival

(* Cells no goroutine and no store entry refers to. *)
Garbage == {o \in Object : ~Stored(o) /\ pc[o] \notin Running /\ picked # o}

(* GetNodeName, when it succeeds. *)
ResolvedName(a) == IF UseProviderId THEN a.providerName ELSE a.nodeName

-----------------------------------------------------------------------------
(* watchForInterruptionEvents *)

(* A monitor's send on interruptionChan, and the watcher's receive. *)
ReceiveInterruption(a) ==
  /\ watcher = NoArrival
  /\ watcher' = a
  /\ UNCHANGED <<storeVars, mainVars, slots, workerVars, cancelVars>>

AddReceived(o) ==
  /\ watcher # NoArrival
  /\ o \in Garbage
  /\ AddInterruptionEvent(watcher, o)
  /\ watcher' = NoArrival
  /\ UNCHANGED <<mainVars, slots, workerVars, cancelVars>>

-----------------------------------------------------------------------------
(* watchForCancellationEvents *)

ReceiveCancellation(a) ==
  /\ cancelPc = "wait"
  /\ a.id \in Cancellable
  /\ cancelPc' = "cancel"
  /\ cancelled' = a
  /\ UNCHANGED <<storeVars, mainVars, slots, workerVars, watcher>>

CancelReceived ==
  /\ cancelPc = "cancel"
  /\ CancelInterruptionEvent(cancelled.id)
  /\ cancelPc' = "check"
  /\ UNCHANGED <<mainVars, slots, workerVars, watcher, cancelled>>

CheckUncordon ==
  /\ cancelPc = "check"
  /\ IF ShouldUncordonNode(cancelled.nodeName)
     THEN cancelPc' = "uncordon" /\ UNCHANGED cancelled
     ELSE cancelPc' = "wait" /\ cancelled' = NoArrival
  /\ UNCHANGED <<storeVars, mainVars, slots, workerVars, watcher>>

(* Uncordon, then RemoveNTHLabels and RemoveNTHTaints; errors are logged. *)
UncordonCancelled ==
  /\ cancelPc = "uncordon"
  /\ cancelPc' = "cleanup"
  /\ UNCHANGED <<storeVars, mainVars, slots, workerVars, watcher, cancelled>>

CleanUpCancelled ==
  /\ cancelPc = "cleanup"
  /\ cancelPc' = "wait"
  /\ cancelled' = NoArrival
  /\ UNCHANGED <<storeVars, mainVars, slots, workerVars, watcher>>

-----------------------------------------------------------------------------
(* The main loop *)

Sigterm ==
  /\ SigtermArrives
  /\ signalChan = "none"
  /\ signalChan' = "pending"
  /\ UNCHANGED <<storeVars, mainPc, picked, slots, workerVars, watcher,
                 cancelVars>>

(* The "break" of the signal case leaves the select, not the loop. *)
TakeSignal ==
  /\ mainPc = "tick"
  /\ signalChan = "pending"
  /\ signalChan' = "received"
  /\ UNCHANGED <<storeVars, mainPc, picked, slots, workerVars, watcher,
                 cancelVars>>

(***************************************************************************)
(* GetActiveEvent is two critical sections: cleanPeriodically, then the    *)
(* search.  (logPeriodically, between them, only logs.)  "tick" waits for  *)
(* the ticker, "next" calls GetActiveEvent again after a dispatch.         *)
(***************************************************************************)
CleanStore ==
  /\ \/ mainPc = "tick" /\ signalChan # "pending"
     \/ mainPc = "next"
  /\ cleanPeriodically
  /\ mainPc' = "select"
  /\ UNCHANGED <<picked, signalChan, slots, workerVars, watcher, cancelVars>>

SelectEvent(o) ==
  /\ mainPc = "select"
  /\ o \in ActiveEvents
  /\ picked' = o
  /\ mainPc' = "dispatch"
  /\ UNCHANGED <<storeVars, signalChan, slots, workerVars, watcher, cancelVars>>

SelectNone ==
  /\ mainPc = "select"
  /\ ActiveEvents = {}
  /\ mainPc' = "tick"
  /\ UNCHANGED <<storeVars, picked, signalChan, slots, workerVars, watcher,
                 cancelVars>>

FirstPc(o) == IF sent[o].kind = "launch" THEN "checkReady" ELSE "nodeName"

StartWorker(o) ==
  /\ mainPc = "dispatch"
  /\ o = picked
  /\ slots < Workers
  /\ slots' = slots + 1
  /\ inProgress' = [inProgress EXCEPT ![o] = TRUE]
  /\ pc' = [pc EXCEPT ![o] = FirstPc(o)]
  /\ mainPc' = "next"
  /\ picked' = NoObject
  /\ UNCHANGED <<interruptionEventStore, ignoredEvents, atLeastOneEvent,
                 callsSinceLastClean, sent, due, nodeProcessed, signalChan,
                 nodeFound, watcher, cancelVars>>

AllWorkersBusy ==
  /\ mainPc = "dispatch"
  /\ slots = Workers
  /\ mainPc' = "tick"
  /\ picked' = NoObject
  /\ UNCHANGED <<storeVars, signalChan, slots, workerVars, watcher, cancelVars>>

-----------------------------------------------------------------------------
(* A worker's steps *)

(* The step moves only the worker of o, from one point to another. *)
Goto(o, from, to) ==
  /\ pc[o] = from
  /\ pc' = [pc EXCEPT ![o] = to]

WorkerOnly ==
  UNCHANGED <<storeVars, mainVars, slots, nodeFound, watcher, cancelVars>>

CancelByWorker(o) ==
  /\ CancelInterruptionEvent(Id(o))
  /\ UNCHANGED <<mainVars, slots, nodeFound, watcher, cancelVars>>

(* asg/launch: isNodeReady answers true, or false or an error. *)
LaunchReady(o) == Goto(o, "checkReady", "launchNodeName") /\ WorkerOnly

(* Mutant: a node that is not ready is taken for ready. *)
LaunchNotReadyGoesOn(o) == Goto(o, "checkReady", "launchNodeName") /\ WorkerOnly

LaunchNotReady(o) == Goto(o, "checkReady", "cancelLaunch") /\ WorkerOnly

(* Mutant: the handler's error return skips the release of the slot. *)
LaunchCancelLeaking(o) == Goto(o, "cancelLaunch", "idle") /\ CancelByWorker(o)

LaunchCancel(o) == Goto(o, "cancelLaunch", "release") /\ CancelByWorker(o)

(* GetNodeName can only fail when it looks the name up by provider ID. *)
LaunchNodeName(o, ok) ==
  /\ ok \/ UseProviderId
  /\ Goto(o, "launchNodeName",
          IF ok /\ "post" \in sent[o].tasks THEN "postLaunch" ELSE "release")
  /\ WorkerOnly

LaunchPost(o) == Goto(o, "postLaunch", "release") /\ WorkerOnly

(* draincordon: an error of GetNodeName ends the handler at once. *)
GetNodeName(o, ok) ==
  /\ ok \/ UseProviderId
  /\ Goto(o, "nodeName", IF ok THEN "nodeLabels" ELSE "release")
  /\ WorkerOnly

GetNodeLabels(o, ok) ==
  /\ Goto(o, "nodeLabels",
          IF "pre" \in sent[o].tasks THEN "preDrain" ELSE "cordon")
  /\ nodeFound' = [nodeFound EXCEPT ![o] = ok]
  /\ UNCHANGED <<storeVars, mainVars, slots, watcher, cancelVars>>

(* The pre-drain task's error is only logged. *)
PreDrain(o) == Goto(o, "preDrain", "cordon") /\ WorkerOnly

OnlyCordons(o) ==
  \/ CordonOnly
  \/ /\ ~EnableSQSTerminationDraining
     /\ sent[o].kind = "rebalance"
     /\ ~EnableRebalanceDraining

AfterFailure(o) ==
  IF "cancel" \in sent[o].tasks THEN "cancelTask" ELSE "cancelEvent"

(* cordonNode cordons; cordonAndDrainNode cordons, then evicts the pods. *)
Cordon(o, ok) ==
  /\ Goto(o, "cordon", IF ~ok THEN AfterFailure(o)
                       ELSE IF OnlyCordons(o) THEN "mark" ELSE "drain")
  /\ WorkerOnly

(* Mutant: an error of the drain counts as success. *)
DrainIgnoringErrors(o, ok) == Goto(o, "drain", "mark") /\ WorkerOnly

Drain(o, ok) ==
  /\ Goto(o, "drain", IF ok THEN "mark" ELSE AfterFailure(o))
  /\ WorkerOnly

CancelDrainTask(o) == Goto(o, "cancelTask", "cancelEvent") /\ WorkerOnly

(* Mutant: the post-drain task runs after every failed drain. *)
AfterCancelPosts(o) == IF "post" \in sent[o].tasks THEN "postNotFound" ELSE "release"

AfterCancel(o) ==
  IF ~nodeFound[o] /\ DeleteSqsMsgIfNodeNotFound /\ "post" \in sent[o].tasks
  THEN "postNotFound" ELSE "release"

(* Mutant: the event of a failed drain stays in the store. *)
CancelEventKeeps(o) == Goto(o, "cancelEvent", AfterCancel(o)) /\ WorkerOnly

CancelEvent(o) == Goto(o, "cancelEvent", AfterCancel(o)) /\ CancelByWorker(o)

AfterPost == IF EnableOutOfServiceTaint /\ ~CordonOnly THEN "taint" ELSE "release"

Mark(o) ==
  /\ Goto(o, "mark", IF "post" \in sent[o].tasks THEN "post" ELSE AfterPost)
  /\ MarkAllAsProcessed(ResolvedName(sent[o]))
  /\ UNCHANGED <<mainVars, slots, nodeFound, watcher, cancelVars>>

(***************************************************************************)
(* RunPostDrainTask logs the task's error and goes on.  It runs after a    *)
(* drain that succeeded ("post"), or after one that failed on a node that  *)
(* was not found ("postNotFound").  The out-of-service taint only follows  *)
(* the first.                                                              *)
(***************************************************************************)
PostDrain(o) == Goto(o, "post", AfterPost) /\ WorkerOnly

PostDrainNotFound(o) == Goto(o, "postNotFound", "release") /\ WorkerOnly

TaintOutOfService(o) == Goto(o, "taint", "release") /\ WorkerOnly

(* Mutant: the worker drops its event's entry once more when it is done. *)
ReleaseAndForget(o) ==
  /\ Goto(o, "release", "idle")
  /\ slots' = slots - 1
  /\ nodeFound' = [nodeFound EXCEPT ![o] = FALSE]
  /\ CancelInterruptionEvent(Id(o))
  /\ UNCHANGED <<mainVars, watcher, cancelVars>>

ReleaseSlot(o) ==
  /\ Goto(o, "release", "idle")
  /\ slots' = slots - 1
  /\ nodeFound' = [nodeFound EXCEPT ![o] = FALSE]
  /\ UNCHANGED <<storeVars, mainVars, watcher, cancelVars>>
-----------------------------------------------------------------------------
WorkerStep(o) ==
  \/ LaunchReady(o)
  \/ LaunchNotReady(o)
  \/ LaunchCancel(o)
  \/ \E ok \in BOOLEAN : LaunchNodeName(o, ok)
  \/ LaunchPost(o)
  \/ \E ok \in BOOLEAN : GetNodeName(o, ok)
  \/ \E ok \in BOOLEAN : GetNodeLabels(o, ok)
  \/ PreDrain(o)
  \/ \E ok \in BOOLEAN : Cordon(o, ok)
  \/ \E ok \in BOOLEAN : Drain(o, ok)
  \/ CancelDrainTask(o)
  \/ CancelEvent(o)
  \/ Mark(o)
  \/ PostDrain(o)
  \/ PostDrainNotFound(o)
  \/ TaintOutOfService(o)
  \/ ReleaseSlot(o)

MainStep ==
  \/ TakeSignal
  \/ CleanStore
  \/ \E o \in Object : SelectEvent(o)
  \/ SelectNone
  \/ \E o \in Object : StartWorker(o)
  \/ AllWorkersBusy

CancellationStep ==
  \/ CancelReceived
  \/ CheckUncordon
  \/ UncordonCancelled
  \/ CleanUpCancelled

EventBecomesDue(o) ==
  /\ BecomeDue(o)
  /\ UNCHANGED <<mainVars, slots, workerVars, watcher, cancelVars>>

(***************************************************************************)
(* IgnoreEvent is called by handleRebootUncordon, at most once and before  *)
(* the monitors and the main loop start.                                   *)
(***************************************************************************)
IgnoreAtStartup(id) ==
  /\ ignoredEvents = {}
  /\ ~atLeastOneEvent
  /\ watcher = NoArrival
  /\ mainPc = "tick"
  /\ callsSinceLastClean = 0
  /\ \A i \in EventID : interruptionEventStore[i] = NoObject
  /\ IgnoreEvent(id)
  /\ UNCHANGED <<mainVars, slots, workerVars, watcher, cancelVars>>

Next ==
  \/ \E a \in Arrival : ReceiveInterruption(a)
  \/ \E o \in Object : AddReceived(o)
  \/ \E a \in Arrival : ReceiveCancellation(a)
  \/ CancellationStep
  \/ Sigterm
  \/ MainStep
  \/ \E o \in Object : WorkerStep(o)
  \/ \E o \in Object : EventBecomesDue(o)
  \/ \E id \in EventID : IgnoreAtStartup(id)

Spec == Init /\ [][Next]_vars

(* The process starts again: whatever was in its memory is gone. *)
DispatcherRestarts ==
  /\ interruptionEventStore' = [id \in EventID |-> NoObject]
  /\ ignoredEvents' = {} /\ atLeastOneEvent' = FALSE /\ callsSinceLastClean' = 0
  /\ sent' = [o \in Object |-> AnyArrival]
  /\ due' = [o \in Object |-> FALSE]
  /\ inProgress' = [o \in Object |-> FALSE]
  /\ nodeProcessed' = [o \in Object |-> FALSE]
  /\ mainPc' = "tick" /\ picked' = NoObject /\ signalChan' = "none" /\ slots' = 0
  /\ pc' = [o \in Object |-> "idle"]
  /\ nodeFound' = [o \in Object |-> FALSE]
  /\ watcher' = NoArrival /\ cancelPc' = "wait" /\ cancelled' = NoArrival

-----------------------------------------------------------------------------
(* Properties *)

Busy == {o \in Object : pc[o] \in Running}

(***************************************************************************)
(* The Workers channel counts the goroutines that process an event, and    *)
(* there are never more than its capacity: every path through the two      *)
(* handlers, the early returns on an error included, gives back exactly    *)
(* the slot the main loop took, and no event is started twice.             *)
(***************************************************************************)
SlotAccounting == slots = Cardinality(Busy) /\ slots <= Workers

(***************************************************************************)
(* An event whose ID was passed to IgnoreEvent at startup is never given   *)
(* to a worker, although AddInterruptionEvent still stores it.             *)
(***************************************************************************)
IgnoredNeverHandled == \A o \in Busy : Id(o) \notin ignoredEvents

(***************************************************************************)
(* A second event, under another EventID, that MarkAllAsProcessed of this  *)
(* one's node name would also mark.                                        *)
(***************************************************************************)
HasSibling(id) ==
  \E a, b \in Arrival : a.id = id /\ b.id # id /\ a.nodeName = ResolvedName(b)

(* Only the worker of event "id" removes it before it has been settled. *)
Exclusive(id) == id \notin Cancellable /\ ~HasSibling(id)

(***************************************************************************)
(* However often a monitor sends the same event again (a redelivered       *)
(* message, the next poll of the metadata service), two workers never      *)
(* handle it at the same time.  The store gives this guarantee only to     *)
(* events that no cancellation and no other event of the node can take     *)
(* out of it while they are being handled.                                 *)
(***************************************************************************)
NoConcurrentHandling ==
  \A o, p \in Object :
    (pc[o] \in Handling /\ pc[p] \in Handling /\ Id(o) = Id(p) /\ Exclusive(Id(o)))
      => o = p

(***************************************************************************)
(* An event that waits in the store for a worker stays there until it gets *)
(* one: neither garbage collection nor a CancelInterruptionEvent by the    *)
(* worker of an earlier event with the same ID removes it.                 *)
(***************************************************************************)
WaitingEventKept ==
  [][\A o \in Object :
       (Stored(o) /\ ~inProgress[o] /\ Exclusive(Id(o))) => Stored(o)']_vars

(***************************************************************************)
(* The comment on the signal case of the main loop says that the           *)
(* interruption loop is left when a SIGTERM is received: from then on no   *)
(* further event is given to a worker.                                     *)
(***************************************************************************)
SigtermStopsDispatch ==
  [][signalChan = "received" => \A o \in Object : pc[o] = "idle" => pc'[o] = "idle"]_vars

(* The store is keyed by the EventID of its events. *)
StoreKeyed ==
  \A id \in EventID :
    interruptionEventStore[id] # NoObject => Id(interruptionEventStore[id]) = id

(***************************************************************************)
(* The main loop holds an event only between GetActiveEvent and the        *)
(* select on the Workers channel, and it is not yet in progress.           *)
(***************************************************************************)
MainHolds ==
  /\ picked # NoObject => (pc[picked] = "idle" /\ ~inProgress[picked])
  /\ mainPc = "dispatch" => picked # NoObject

CancellationHolds ==
  cancelPc # "wait" => (cancelled \in Arrival /\ cancelled.id \in Cancellable)

(***************************************************************************)
(* An event given to a worker is in progress and was not ignored.  An      *)
(* exclusive event is in the store from its selection until it is settled, *)
(* and is only marked as processed while it is in progress.                *)
(***************************************************************************)
EventInv(o) ==
  /\ pc[o] \in Running => inProgress[o]
  /\ (pc[o] \in Running \/ picked = o) => (atLeastOneEvent /\ Id(o) \notin ignoredEvents)
  /\ (Stored(o) /\ Id(o) \notin ignoredEvents) => atLeastOneEvent
  /\ ((pc[o] \in Handling \/ picked = o) /\ Exclusive(Id(o)))
       => (Stored(o) /\ ~nodeProcessed[o])
  /\ (Stored(o) /\ nodeProcessed[o] /\ Exclusive(Id(o))) => inProgress[o]

(* The facts the properties above rest on, together inductive. *)
DispatcherInv ==
  /\ DispatcherTypeOK
  /\ slots = Cardinality(Busy)
  /\ StoreKeyed
  /\ MainHolds
  /\ CancellationHolds
  /\ \A o \in Object : EventInv(o)

(***************************************************************************)
(* The life of an event, as far as only its own worker decides about it.   *)
(* A worker that ends without settling the event (a launch event, or an    *)
(* error of GetNodeName) leaves it in progress in the store: abandoned.    *)
(***************************************************************************)
Phase(id) ==
  LET o == interruptionEventStore[id]
  IN  IF o = NoObject THEN "absent"
      ELSE IF nodeProcessed[o] THEN "settled"
      ELSE IF pc[o] \in Handling THEN "taken"
      ELSE IF inProgress[o] THEN "abandoned" ELSE "waiting"

ExclusiveID == {id \in EventID : Exclusive(id)}

phases == [id \in ExclusiveID |-> Phase(id)]

EventLife == INSTANCE EventLifecycle WITH Event <- ExclusiveID, phase <- phases

(***************************************************************************)
(* The store, the main loop and the workers together give an event the     *)
(* life EventLifecycle describes: it is taken once, by one of at most      *)
(* Workers workers, no redelivery starts it a second time, and neither the *)
(* collection nor a stale pointer takes it back.                           *)
(***************************************************************************)
LifecycleKept == EventLife!Spec
=============================================================================
