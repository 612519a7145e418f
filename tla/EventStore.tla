----------------------------- MODULE EventStore -----------------------------
(***************************************************************************)
(* The interruption event store shared by every goroutine of the handler   *)
(* (pkg/interruptioneventstore/interruption-event-store.go).               *)
(*                                                                         *)
(* The store maps an EventID to a pointer to an InterruptionEvent.  The    *)
(* pointer matters: a worker keeps using the event it was given after the  *)
(* entry has been cancelled, collected, or replaced by a later event with  *)
(* the same EventID.  So events live in a heap of Objects, and the store   *)
(* maps an EventID to an Object.  An Object nobody refers to is garbage    *)
(* and is used again for a later event.                                    *)
(*                                                                         *)
(* Every operator ending in an action below is one critical section of the *)
(* store's mutex.                                                          *)
(***************************************************************************)
EXTENDS Integers, FiniteSets

CONSTANTS
  EventID,          \* event identifiers the monitors produce
  NodeName,         \* Kubernetes node names
  Arrival,          \* the events the monitors can send (see ArrivalType)
  Object,           \* heap cells for InterruptionEvent values
  NoObject,         \* the nil pointer
  CleaningPeriod    \* calls of GetActiveEvent between garbage collections

(***************************************************************************)
(* What an InterruptionEvent says when a monitor sends it.  "nodeName" is  *)
(* its NodeName field and "providerName" the name that a lookup by its     *)
(* ProviderID returns.  "tasks" are the callbacks that are not nil.        *)
(***************************************************************************)
Kind == {"launch", "terminate", "spot", "rebalance", "stateChange", "scheduled"}

Task == {"pre", "cancel", "post"}

ArrivalType ==
  [id : EventID, kind : Kind, nodeName : NodeName, providerName : NodeName,
   tasks : SUBSET Task]

ASSUME StoreAssumption ==
  /\ Arrival # {}
  /\ \A a \in Arrival :
       /\ a.id \in EventID
       /\ a.kind \in Kind
       /\ a.nodeName \in NodeName
       /\ a.providerName \in NodeName
       /\ a.tasks \subseteq Task
  /\ NoObject \notin Object
  /\ CleaningPeriod \in Nat \ {0}

VARIABLES
  interruptionEventStore,  \* EventID -> Object, NoObject when there is no entry
  ignoredEvents,           \* EventIDs that must not be drained
  atLeastOneEvent,         \* some event that was not ignored has been stored
  callsSinceLastClean,
  sent,                    \* Object -> what the monitor sent
  due,                     \* Object -> TimeUntilDrain(event) <= 0
  inProgress,              \* Object -> event.InProgress
  nodeProcessed            \* Object -> event.NodeProcessed

heapVars == <<sent, due, inProgress, nodeProcessed>>

storeVars == <<interruptionEventStore, ignoredEvents, atLeastOneEvent,
               callsSinceLastClean, sent, due, inProgress, nodeProcessed>>

StoreTypeOK ==
  /\ interruptionEventStore \in [EventID -> Object \cup {NoObject}]
  /\ ignoredEvents \subseteq EventID
  /\ atLeastOneEvent \in BOOLEAN
  /\ callsSinceLastClean \in 0 .. CleaningPeriod - 1
  /\ sent \in [Object -> Arrival]
  /\ due \in [Object -> BOOLEAN]
  /\ inProgress \in [Object -> BOOLEAN]
  /\ nodeProcessed \in [Object -> BOOLEAN]

Id(o) == sent[o].id

Stored(o) == interruptionEventStore[Id(o)] = o

(* What a cell no event was put in holds; never read. *)
AnyArrival == CHOOSE a \in Arrival : TRUE

StoreInit ==
  /\ interruptionEventStore = [id \in EventID |-> NoObject]
  /\ ignoredEvents = {}
  /\ atLeastOneEvent = FALSE
  /\ callsSinceLastClean = 0
  /\ sent = [o \in Object |-> AnyArrival]
  /\ due = [o \in Object |-> FALSE]
  /\ inProgress = [o \in Object |-> FALSE]
  /\ nodeProcessed = [o \in Object |-> FALSE]

-----------------------------------------------------------------------------
(* Queries *)

(* Mutant: the ignored events are not consulted. *)
ShouldEventDrainIgnored(o) == ~inProgress[o] /\ ~nodeProcessed[o] /\ due[o]

ShouldEventDrain(o) ==
  /\ Id(o) \notin ignoredEvents
  /\ ~inProgress[o]
  /\ ~nodeProcessed[o]
  /\ due[o]

(***************************************************************************)
(* The events GetActiveEvent may return.  It ranges over a Go map, whose   *)
(* iteration order is random, so any of them may be the one.               *)
(***************************************************************************)
ActiveEvents == {o \in Object : Stored(o) /\ ShouldEventDrain(o)}

ShouldUncordonNode(n) ==
  /\ atLeastOneEvent
  /\ \A o \in Object :
       Stored(o) => (Id(o) \in ignoredEvents \/ sent[o].nodeName # n)

-----------------------------------------------------------------------------
(* Critical sections *)

CancelInterruptionEvent(id) ==
  /\ interruptionEventStore' = [interruptionEventStore EXCEPT ![id] = NoObject]
  /\ UNCHANGED <<ignoredEvents, atLeastOneEvent, callsSinceLastClean, heapVars>>

(* Mutant: an event replaces the one stored under its EventID. *)
AddReplacing(a, o) ==
  /\ interruptionEventStore' = [interruptionEventStore EXCEPT ![a.id] = o]
  /\ atLeastOneEvent' = (atLeastOneEvent \/ a.id \notin ignoredEvents)
  /\ sent' = [sent EXCEPT ![o] = a]
  /\ \E isDue \in BOOLEAN : due' = [due EXCEPT ![o] = isDue]
  /\ inProgress' = [inProgress EXCEPT ![o] = FALSE]
  /\ nodeProcessed' = [nodeProcessed EXCEPT ![o] = FALSE]
  /\ UNCHANGED <<ignoredEvents, callsSinceLastClean>>

(***************************************************************************)
(* The lookup and the insertion take the lock separately.  Only the        *)
(* goroutine of watchForInterruptionEvents ever inserts, so an EventID it  *)
(* found absent is still absent when it inserts, and the two sections      *)
(* behave as one.  The event's copy is put in a free cell o.  It may be    *)
(* due at once or later (BecomeDue).                                       *)
(***************************************************************************)
AddInterruptionEvent(a, o) ==
  IF interruptionEventStore[a.id] # NoObject
  THEN UNCHANGED storeVars
  ELSE /\ interruptionEventStore' = [interruptionEventStore EXCEPT ![a.id] = o]
       /\ atLeastOneEvent' = (atLeastOneEvent \/ a.id \notin ignoredEvents)
       /\ sent' = [sent EXCEPT ![o] = a]
       /\ \E isDue \in BOOLEAN : due' = [due EXCEPT ![o] = isDue]
       /\ inProgress' = [inProgress EXCEPT ![o] = FALSE]
       /\ nodeProcessed' = [nodeProcessed EXCEPT ![o] = FALSE]
       /\ UNCHANGED <<ignoredEvents, callsSinceLastClean>>

(* Mutant: the events of every node are marked. *)
MarkEveryNode(n) ==
  /\ nodeProcessed' = [o \in Object |-> nodeProcessed[o] \/ Stored(o)]
  /\ UNCHANGED <<interruptionEventStore, ignoredEvents, atLeastOneEvent,
                 callsSinceLastClean, sent, due, inProgress>>

MarkAllAsProcessed(n) ==
  /\ nodeProcessed' =
       [o \in Object |-> nodeProcessed[o] \/ (Stored(o) /\ sent[o].nodeName = n)]
  /\ UNCHANGED <<interruptionEventStore, ignoredEvents, atLeastOneEvent,
                 callsSinceLastClean, sent, due, inProgress>>

IgnoreEvent(id) ==
  /\ ignoredEvents' = ignoredEvents \cup {id}
  /\ UNCHANGED <<interruptionEventStore, atLeastOneEvent, callsSinceLastClean,
                 heapVars>>

(* Every CleaningPeriod calls, drop the entries whose node was processed. *)
cleanPeriodically ==
  /\ IF callsSinceLastClean + 1 < CleaningPeriod
     THEN /\ callsSinceLastClean' = callsSinceLastClean + 1
          /\ UNCHANGED interruptionEventStore
     ELSE /\ callsSinceLastClean' = 0
          /\ interruptionEventStore' =
               [id \in EventID |->
                  IF /\ interruptionEventStore[id] # NoObject
                     /\ nodeProcessed[interruptionEventStore[id]]
                  THEN NoObject
                  ELSE interruptionEventStore[id]]
  /\ UNCHANGED <<ignoredEvents, atLeastOneEvent, heapVars>>

(* The clock reaches StartTime - NodeTerminationGracePeriod of event o. *)
BecomeDue(o) ==
  /\ Stored(o)
  /\ ~due[o]
  /\ due' = [due EXCEPT ![o] = TRUE]
  /\ UNCHANGED <<interruptionEventStore, ignoredEvents, atLeastOneEvent,
                 callsSinceLastClean, sent, inProgress, nodeProcessed>>
=============================================================================
