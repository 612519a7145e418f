-------------------------- MODULE Dispatcher_proofs --------------------------
(***************************************************************************)
(* Proofs of the Dispatcher's safety properties, for every set of events,  *)
(* nodes and heap cells, every number of workers and every configuration.  *)
(*                                                                         *)
(* The argument is one inductive invariant, DispatcherInv.  Most of a      *)
(* worker's steps only move its program counter (QuietStep); the steps     *)
(* that touch the store or the Workers channel have a lemma each.  The     *)
(* second part shows from the same invariant that the dispatcher           *)
(* implements EventLifecycle.                                              *)
(***************************************************************************)
EXTENDS Dispatcher, FiniteSetTheorems, TLAPS

(* The handler starts with an empty store and an empty Workers channel. *)
LEMMA InitInv == Init => DispatcherInv
<1> SUFFICES ASSUME Init PROVE DispatcherInv
  OBVIOUS
<1>1. DispatcherTypeOK
  <2>1. AnyArrival \in Arrival
    BY StoreAssumption DEF AnyArrival
  <2>2. StoreTypeOK
    <3>1. 0 \in 0 .. CleaningPeriod - 1
      BY StoreAssumption
    <3>2. sent \in [Object -> Arrival]
      BY <2>1 DEF Init, StoreInit
    <3> QED BY <3>1, <3>2 DEF Init, StoreInit, StoreTypeOK
  <2> QED BY <2>2, DispatcherAssumption DEF Init, DispatcherTypeOK, MainPc, WorkerPc, CancelPc
<1>2. Busy = {}
  BY DEF Init, Busy, Running, Handling, Finishing
<1>3. slots = Cardinality(Busy)
  BY <1>2, FS_EmptySet DEF Init
<1>4. \A o \in Object : pc[o] \notin Running /\ ~Stored(o) /\ ~nodeProcessed[o]
  BY <1>1, StoreAssumption DEF Init, StoreInit, Running, Handling, Finishing, Stored, Id,
              DispatcherTypeOK, StoreTypeOK
<1>5. \A o \in Object : pc[o] \notin Handling /\ picked # o
  BY <1>4, StoreAssumption DEF Running, Init
<1> QED BY <1>1, <1>3, <1>4, <1>5 DEF DispatcherInv, StoreKeyed, MainHolds,
                                      CancellationHolds, EventInv, Init, StoreInit

(* Two stored events with one EventID are one event. *)
LEMMA StoredUnique ==
  ASSUME NEW o \in Object, NEW p \in Object, Stored(o), Stored(p), Id(o) = Id(p)
  PROVE  o = p
  BY DEF Stored

(***************************************************************************)
(* A step keeps the invariant if it starts no worker and ends none, does   *)
(* not bring a worker back to handling an event, changes no event but its  *)
(* due date, and takes events out of the store at most: not an exclusive   *)
(* one that is being handled or was selected.                              *)
(***************************************************************************)
LEMMA ShrinkStep ==
  ASSUME DispatcherInv,
         DispatcherTypeOK',
         \A p \in Object : /\ pc'[p] \in Running <=> pc[p] \in Running
                           /\ pc'[p] \in Handling => pc[p] \in Handling
                           /\ pc'[p] = "idle" <=> pc[p] = "idle",
         \A i \in EventID : interruptionEventStore'[i] \in {interruptionEventStore[i], NoObject},
         \A p \in Object :
           ((pc'[p] \in Handling \/ picked = p) /\ Exclusive(Id(p)) /\ Stored(p))
             => interruptionEventStore'[Id(p)] = p,
         UNCHANGED <<ignoredEvents, atLeastOneEvent, sent, inProgress, nodeProcessed, slots>>,
         picked' \in {picked, NoObject},
         mainPc' = "dispatch" => picked' # NoObject,
         cancelPc' # "wait" => (cancelled' \in Arrival /\ cancelled'.id \in Cancellable)
  PROVE  DispatcherInv'
<1>1. Busy' = Busy
  BY DEF Busy
<1>2. \A p \in Object : /\ (Id(p))' = Id(p)
                        /\ Id(p) \in EventID
  BY StoreAssumption DEF Id, DispatcherInv, DispatcherTypeOK, StoreTypeOK
<1>3. \A p \in Object : (Stored(p))' => Stored(p)
  BY <1>2, StoreAssumption DEF Stored
<1>4. StoreKeyed'
  BY DEF DispatcherInv, StoreKeyed, Id
<1>5. MainHolds'
  <2>1. picked \in Object \cup {NoObject}
    BY DEF DispatcherInv, DispatcherTypeOK
  <2> QED BY <2>1 DEF DispatcherInv, MainHolds
<1>6. CancellationHolds'
  BY DEF CancellationHolds
<1>7. ASSUME NEW p \in Object
      PROVE  EventInv(p)'
  <2>1. picked' = p => picked = p
    BY StoreAssumption
  <2>2. Exclusive(Id(p))' => Exclusive(Id(p))
    BY <1>2 DEF Exclusive, HasSibling, ResolvedName
  <2>3. EventInv(p)
    BY DEF DispatcherInv
  <2>4. ((pc'[p] \in Handling \/ picked' = p) /\ Exclusive(Id(p))) => Stored(p)'
    BY <1>2, <2>1, <2>3 DEF EventInv, Stored
  <2> QED BY <1>2, <1>3, <2>1, <2>2, <2>3, <2>4 DEF EventInv
<1>8. (slots = Cardinality(Busy))'
  BY <1>1 DEF DispatcherInv
<1> QED BY <1>4, <1>5, <1>6, <1>7, <1>8 DEF DispatcherInv

(* A worker that only moves its program counter takes a ShrinkStep. *)
LEMMA QuietStep ==
  ASSUME DispatcherInv, NEW o \in Object, NEW to \in Running,
         pc[o] \in Running, to \in Handling => pc[o] \in Handling,
         pc' = [pc EXCEPT ![o] = to],
         nodeFound' \in [Object -> BOOLEAN],
         UNCHANGED <<storeVars, mainVars, slots, watcher, cancelVars>>
  PROVE  DispatcherInv'
<1>1. pc \in [Object -> WorkerPc]
  BY DEF DispatcherInv, DispatcherTypeOK
<1>2. "idle" \notin Running
  BY DEF Running, Handling, Finishing
<1>3. \A p \in Object : /\ pc'[p] \in Running <=> pc[p] \in Running
                        /\ pc'[p] \in Handling => pc[p] \in Handling
                        /\ pc'[p] = "idle" <=> pc[p] = "idle"
  BY <1>1, <1>2
<1>4. DispatcherTypeOK'
  BY <1>1 DEF DispatcherInv, DispatcherTypeOK, StoreTypeOK, storeVars, mainVars,
              cancelVars, WorkerPc
<1>5. \A p \in Object : Stored(p) => interruptionEventStore'[Id(p)] = p
  BY DEF Stored, storeVars
<1>6. UNCHANGED <<interruptionEventStore, ignoredEvents, atLeastOneEvent, sent,
                  inProgress, nodeProcessed, slots, mainPc, picked, cancelPc,
                  cancelled>>
  BY DEF storeVars, mainVars, cancelVars
<1> QED BY <1>3, <1>4, <1>5, <1>6, ShrinkStep
        DEF DispatcherInv, MainHolds, CancellationHolds

(***************************************************************************)
(* CancelInterruptionEvent by the worker that handles event o: if the      *)
(* event is exclusive, the entry it deletes is its own.                    *)
(***************************************************************************)
LEMMA WorkerCancelStep ==
  ASSUME DispatcherInv, NEW o \in Object, NEW to \in Finishing,
         pc[o] \in Handling,
         pc' = [pc EXCEPT ![o] = to],
         CancelByWorker(o)
  PROVE  DispatcherInv'
<1> USE DEF CancelByWorker, CancelInterruptionEvent, heapVars, mainVars, cancelVars
<1>1. pc \in [Object -> WorkerPc] /\ interruptionEventStore \in [EventID -> Object \cup {NoObject}]
  BY DEF DispatcherInv, DispatcherTypeOK, StoreTypeOK
<1>2. "idle" \notin Running /\ to \in Running /\ to \notin Handling /\ pc[o] \in Running
  BY DEF Running, Handling, Finishing
<1>3. \A p \in Object : /\ pc'[p] \in Running <=> pc[p] \in Running
                        /\ pc'[p] \in Handling => (pc[p] \in Handling /\ p # o)
                        /\ pc'[p] = "idle" <=> pc[p] = "idle"
  BY <1>1, <1>2
<1>4. DispatcherTypeOK'
  BY <1>1, <1>2 DEF DispatcherInv, DispatcherTypeOK, StoreTypeOK, WorkerPc
<1>5. ASSUME NEW p \in Object, pc'[p] \in Handling \/ picked = p,
             Exclusive(Id(p)), Stored(p)
      PROVE  interruptionEventStore'[Id(p)] = p
  <2>1. EventInv(o)
    BY DEF DispatcherInv
  <2>2. p # o
    BY <1>2, <1>3, <1>5, StoreAssumption DEF DispatcherInv, MainHolds
  <2>3. Id(p) # Id(o)
    BY <2>1, <2>2, <1>5, StoredUnique DEF EventInv
  <2> QED BY <1>1, <1>5, <2>3 DEF Stored
<1>6. \A i \in EventID : interruptionEventStore'[i] \in {interruptionEventStore[i], NoObject}
  BY <1>1
<1> QED BY <1>3, <1>4, <1>5, <1>6, ShrinkStep
        DEF DispatcherInv, MainHolds, CancellationHolds

(* AddInterruptionEvent puts an event in a cell nobody refers to, under an *)
(* EventID that has no entry.                                              *)
LEMMA AddStep ==
  ASSUME DispatcherInv, NEW c \in Object, AddReceived(c)
  PROVE  DispatcherInv'
<1> DEFINE a == watcher
<1>1. a \in Arrival /\ a.id \in EventID
  BY StoreAssumption DEF AddReceived, DispatcherInv, DispatcherTypeOK
<1>2. UNCHANGED <<picked, mainPc, signalChan, slots, pc, nodeFound, cancelPc, cancelled>>
  BY DEF AddReceived, mainVars, workerVars, cancelVars
<1>3. CASE interruptionEventStore[a.id] # NoObject
  <2>1. UNCHANGED storeVars
    BY <1>3 DEF AddReceived, AddInterruptionEvent
  <2>2. DispatcherTypeOK'
    BY <1>2, <2>1 DEF DispatcherInv, DispatcherTypeOK, StoreTypeOK, storeVars, AddReceived
  <2> QED BY <1>2, <2>1, <2>2, ShrinkStep
          DEF DispatcherInv, MainHolds, CancellationHolds, storeVars, Stored
<1>4. CASE interruptionEventStore[a.id] = NoObject
  <2> DEFINE S == interruptionEventStore
  <2>1. /\ S' = [S EXCEPT ![a.id] = c]
        /\ atLeastOneEvent' = (atLeastOneEvent \/ a.id \notin ignoredEvents)
        /\ sent' = [sent EXCEPT ![c] = a]
        /\ \E isDue \in BOOLEAN : due' = [due EXCEPT ![c] = isDue]
        /\ inProgress' = [inProgress EXCEPT ![c] = FALSE]
        /\ nodeProcessed' = [nodeProcessed EXCEPT ![c] = FALSE]
        /\ UNCHANGED <<ignoredEvents, callsSinceLastClean>>
    BY <1>4 DEF AddReceived, AddInterruptionEvent
  <2>2. /\ ~Stored(c) /\ pc[c] \notin Running /\ picked # c
    BY DEF AddReceived, Garbage
  <2>3. StoreTypeOK /\ DispatcherTypeOK
    BY DEF DispatcherInv, DispatcherTypeOK
  <2>4. DispatcherTypeOK'
    <3>1. StoreTypeOK'
      BY <1>1, <2>1, <2>3 DEF StoreTypeOK
    <3> QED BY <1>2, <2>3, <3>1 DEF DispatcherTypeOK, AddReceived
  <2>5. ASSUME NEW p \in Object, p # c
        PROVE  /\ sent'[p] = sent[p] /\ inProgress'[p] = inProgress[p]
               /\ nodeProcessed'[p] = nodeProcessed[p]
               /\ Id(p)' = Id(p) /\ Id(p) \in EventID
               /\ Stored(p)' <=> Stored(p)
    <3>1. sent'[p] = sent[p] /\ Id(p)' = Id(p) /\ Id(p) \in EventID
      BY <2>1, <2>3, <2>5, StoreAssumption DEF StoreTypeOK, Id
    <3>2. Stored(p)' <=> Stored(p)
      BY <1>1, <1>4, <2>1, <2>3, <2>5, <3>1, StoreAssumption DEF Stored, StoreTypeOK
    <3> QED BY <2>1, <2>3, <2>5, <3>1, <3>2 DEF StoreTypeOK
  <2>6. /\ sent'[c] = a /\ Id(c)' = a.id
        /\ inProgress'[c] = FALSE /\ nodeProcessed'[c] = FALSE
    BY <2>1, <2>3 DEF StoreTypeOK, Id
  <2>7. StoreKeyed'
    <3> SUFFICES ASSUME NEW i \in EventID, S'[i] # NoObject
                 PROVE  sent'[S'[i]].id = i
      BY DEF StoreKeyed, Id
    <3>1. CASE i = a.id
      BY <1>1, <2>1, <2>3, <2>6, <3>1 DEF StoreTypeOK
    <3>2. CASE i # a.id
      <4>1. S'[i] = S[i] /\ S[i] \in Object /\ sent[S[i]].id = i
        BY <1>1, <2>1, <2>3, <3>2 DEF StoreTypeOK, DispatcherInv, StoreKeyed, Id
      <4>2. S[i] # c
        BY <2>2, <4>1 DEF Stored, Id
      <4> QED BY <2>5, <4>1, <4>2
    <3> QED BY <3>1, <3>2
  <2>8. MainHolds'
    <3>1. picked # NoObject => picked \in Object /\ inProgress'[picked] = inProgress[picked]
      BY <2>2, <2>3, <2>5 DEF DispatcherTypeOK
    <3> QED BY <1>2, <3>1 DEF MainHolds, DispatcherInv
  <2>9. CancellationHolds'
    BY <1>2 DEF CancellationHolds, DispatcherInv
  <2>10. ASSUME NEW p \in Object
         PROVE  EventInv(p)'
    <3>1. CASE p = c
      <4>1. pc'[p] \notin Running /\ pc'[p] \notin Handling /\ picked' # p
        BY <1>2, <2>2, <3>1 DEF Running
      <4>2. Id(p)' \notin ignoredEvents' => atLeastOneEvent'
        BY <2>1, <2>6, <3>1
      <4>3. ~nodeProcessed'[p]
        BY <2>6, <3>1
      <4> QED BY <4>1, <4>2, <4>3 DEF EventInv
    <3>2. CASE p # c
      <4>1. Exclusive(Id(p))' <=> Exclusive(Id(p))
        BY <2>5, <3>2 DEF Exclusive, HasSibling, ResolvedName
      <4>2. EventInv(p)
        BY DEF DispatcherInv
      <4> QED BY <1>2, <2>1, <2>5, <3>2, <4>1, <4>2 DEF EventInv
    <3> QED BY <3>1, <3>2
  <2>11. (slots = Cardinality(Busy))'
    BY <1>2 DEF DispatcherInv, Busy
  <2> QED BY <2>4, <2>7, <2>8, <2>9, <2>10, <2>11 DEF DispatcherInv
<1> QED BY <1>3, <1>4

(* GetActiveEvent: the search returns a stored event that may be drained. *)
LEMMA SelectStep ==
  ASSUME DispatcherInv, NEW o \in Object, SelectEvent(o)
  PROVE  DispatcherInv'
<1>1. /\ picked' = o /\ mainPc' = "dispatch"
      /\ UNCHANGED <<storeVars, signalChan, slots, workerVars, watcher, cancelVars>>
  BY DEF SelectEvent
<1>2. /\ Stored(o) /\ Id(o) \notin ignoredEvents
      /\ ~inProgress[o] /\ ~nodeProcessed[o]
  BY DEF SelectEvent, ActiveEvents, ShouldEventDrain
<1>3. DispatcherTypeOK'
  BY <1>1 DEF DispatcherInv, DispatcherTypeOK, StoreTypeOK, storeVars, workerVars,
              cancelVars, MainPc
<1>4. EventInv(o) /\ pc[o] = "idle"
  BY <1>2 DEF DispatcherInv, EventInv, DispatcherTypeOK, WorkerPc
<1>5. MainHolds'
  BY <1>1, <1>2, <1>4, StoreAssumption DEF MainHolds, storeVars, workerVars
<1>6. ASSUME NEW p \in Object
      PROVE  EventInv(p)'
  <2>1. EventInv(p)
    BY DEF DispatcherInv
  <2>2. /\ Id(p)' = Id(p) /\ Stored(p)' = Stored(p)
        /\ Exclusive(Id(p))' = Exclusive(Id(p))
    BY <1>1 DEF storeVars, Id, Stored, Exclusive, HasSibling, ResolvedName
  <2> QED BY <1>1, <1>2, <1>4, <2>1, <2>2 DEF EventInv, storeVars, workerVars
<1>7. /\ StoreKeyed' /\ CancellationHolds'
      /\ (slots = Cardinality(Busy))'
  BY <1>1 DEF DispatcherInv, StoreKeyed, CancellationHolds, Busy, Id, storeVars,
              workerVars, cancelVars
<1> QED BY <1>3, <1>5, <1>6, <1>7 DEF DispatcherInv

(* Finitely many workers run, so they can be counted. *)
LEMMA BusyFinite == IsFiniteSet(Busy)
  BY FS_Subset, DispatcherAssumption DEF Busy

(* The main loop takes a slot of the Workers channel and starts a worker. *)
LEMMA StartStep ==
  ASSUME DispatcherInv, NEW o \in Object, StartWorker(o)
  PROVE  DispatcherInv'
<1> DEFINE to == FirstPc(o)
<1>1. /\ picked = o /\ slots < Workers /\ slots' = slots + 1
      /\ inProgress' = [inProgress EXCEPT ![o] = TRUE]
      /\ pc' = [pc EXCEPT ![o] = to]
      /\ mainPc' = "next" /\ picked' = NoObject
      /\ UNCHANGED <<interruptionEventStore, ignoredEvents, atLeastOneEvent,
                     callsSinceLastClean, sent, due, nodeProcessed, signalChan,
                     nodeFound, watcher, cancelVars>>
  BY DEF StartWorker
<1>2. to \in Handling /\ to \in Running /\ to \in WorkerPc /\ "idle" \notin Running
  BY DEF FirstPc, Handling, Running, WorkerPc, Finishing
<1>3. DispatcherTypeOK
  BY DEF DispatcherInv
<1>4. pc[o] = "idle" /\ o # NoObject
  BY <1>1, StoreAssumption DEF DispatcherInv, MainHolds
<1>5. Busy' = Busy \cup {o} /\ o \notin Busy
  BY <1>1, <1>2, <1>3, <1>4 DEF Busy, DispatcherTypeOK
<1>6. (slots = Cardinality(Busy))'
  BY <1>1, <1>5, BusyFinite, FS_AddElement DEF DispatcherInv
<1>7. DispatcherTypeOK'
  BY <1>1, <1>2, <1>3, DispatcherAssumption
  DEF DispatcherTypeOK, StoreTypeOK, MainPc, cancelVars
<1>8. ASSUME NEW p \in Object
      PROVE  EventInv(p)'
  <2>1. EventInv(p)
    BY DEF DispatcherInv
  <2>2. /\ Id(p)' = Id(p) /\ Stored(p)' = Stored(p)
        /\ Exclusive(Id(p))' = Exclusive(Id(p))
    BY <1>1 DEF Id, Stored, Exclusive, HasSibling, ResolvedName
  <2>3. /\ p = o => pc'[p] \in Handling /\ inProgress'[p] = TRUE
        /\ p # o => pc'[p] = pc[p] /\ inProgress'[p] = inProgress[p]
        /\ picked' # p
    BY <1>1, <1>2, <1>3, StoreAssumption DEF DispatcherTypeOK, StoreTypeOK
  <2> QED BY <1>1, <2>1, <2>2, <2>3 DEF EventInv
<1>9. StoreKeyed' /\ CancellationHolds' /\ MainHolds'
  BY <1>1 DEF DispatcherInv, StoreKeyed, CancellationHolds, MainHolds, Id, cancelVars
<1> QED BY <1>6, <1>7, <1>8, <1>9 DEF DispatcherInv

(* The worker gives its slot back. *)
LEMMA ReleaseStep ==
  ASSUME DispatcherInv, NEW o \in Object, ReleaseSlot(o)
  PROVE  DispatcherInv'
<1>1. /\ pc[o] = "release" /\ pc' = [pc EXCEPT ![o] = "idle"]
      /\ slots' = slots - 1
      /\ nodeFound' = [nodeFound EXCEPT ![o] = FALSE]
      /\ UNCHANGED <<storeVars, mainVars, watcher, cancelVars>>
  BY DEF ReleaseSlot, Goto
<1>2. "idle" \notin Running /\ "idle" \notin Handling /\ "release" \in Running
  BY DEF Running, Handling, Finishing
<1>3. DispatcherTypeOK
  BY DEF DispatcherInv
<1>4. Busy' = Busy \ {o} /\ o \in Busy
  BY <1>1, <1>2, <1>3 DEF Busy, DispatcherTypeOK
<1>5. (slots = Cardinality(Busy))'
  BY <1>1, <1>4, BusyFinite, FS_RemoveElement DEF DispatcherInv
<1>6. slots' \in Nat
  BY <1>4, <1>5, BusyFinite, FS_RemoveElement, FS_CardinalityType
<1>7. DispatcherTypeOK'
  BY <1>1, <1>3, <1>6, DispatcherAssumption
  DEF DispatcherTypeOK, StoreTypeOK, WorkerPc, storeVars, mainVars, cancelVars
<1>8. ASSUME NEW p \in Object
      PROVE  EventInv(p)'
  <2>1. EventInv(p)
    BY DEF DispatcherInv
  <2>2. /\ Id(p)' = Id(p) /\ Stored(p)' = Stored(p)
        /\ Exclusive(Id(p))' = Exclusive(Id(p))
    BY <1>1 DEF Id, Stored, Exclusive, HasSibling, ResolvedName, storeVars
  <2>3. /\ pc'[p] \in Running => pc[p] \in Running
        /\ pc'[p] \in Handling => pc[p] \in Handling
    BY <1>1, <1>2, <1>3 DEF DispatcherTypeOK
  <2> QED BY <1>1, <2>1, <2>2, <2>3 DEF EventInv, storeVars, mainVars
<1>9. MainHolds'
  BY <1>1, <1>2, <1>3 DEF DispatcherInv, MainHolds, DispatcherTypeOK, storeVars, mainVars
<1>10. StoreKeyed' /\ CancellationHolds'
  BY <1>1 DEF DispatcherInv, StoreKeyed, CancellationHolds, Id, storeVars, cancelVars
<1> QED BY <1>5, <1>7, <1>8, <1>9, <1>10 DEF DispatcherInv

(***************************************************************************)
(* MarkAllAsProcessed: of the exclusive events in the store, the only one  *)
(* it can mark is the worker's own.                                        *)
(***************************************************************************)
LEMMA MarkStep ==
  ASSUME DispatcherInv, NEW o \in Object, Mark(o)
  PROVE  DispatcherInv'
<1> DEFINE n == ResolvedName(sent[o])
           to == pc'[o]
<1>1. /\ pc[o] = "mark"
      /\ nodeProcessed' =
           [p \in Object |-> nodeProcessed[p] \/ (Stored(p) /\ sent[p].nodeName = n)]
      /\ UNCHANGED <<interruptionEventStore, ignoredEvents, atLeastOneEvent,
                     callsSinceLastClean, sent, due, inProgress, mainPc, picked,
                     signalChan, slots, nodeFound, watcher, cancelPc, cancelled>>
  BY DEF Mark, Goto, MarkAllAsProcessed, mainVars, cancelVars
<1>2. DispatcherTypeOK /\ pc \in [Object -> WorkerPc]
  BY DEF DispatcherInv, DispatcherTypeOK
<1>3. PICK w \in Finishing : pc' = [pc EXCEPT ![o] = w]
  BY DEF Mark, Goto, AfterPost, Finishing
<1>4. /\ "mark" \in Handling /\ "mark" \in Running /\ w \notin Handling
      /\ w \in Running /\ w \in WorkerPc /\ "idle" \notin Running
  BY <1>3 DEF Handling, Running, Finishing, WorkerPc
<1>5. \A p \in Object : /\ pc'[p] \in Running <=> pc[p] \in Running
                        /\ pc'[p] \in Handling => (pc[p] \in Handling /\ p # o)
                        /\ pc'[p] = "idle" <=> pc[p] = "idle"
  BY <1>1, <1>2, <1>3, <1>4
<1>6. DispatcherTypeOK'
  <2>1. nodeProcessed' \in [Object -> BOOLEAN]
    BY <1>1, <1>2 DEF DispatcherTypeOK, StoreTypeOK, Stored
  <2> QED BY <1>1, <1>2, <1>3, <1>4, <2>1 DEF DispatcherTypeOK, StoreTypeOK
<1>7. ASSUME NEW p \in Object, Stored(p), Exclusive(Id(p)), sent[p].nodeName = n
      PROVE  p = o
  <2>1. sent[p] \in Arrival /\ sent[o] \in Arrival
    BY <1>2 DEF DispatcherTypeOK, StoreTypeOK
  <2>2. Id(o) = Id(p)
    BY <1>7, <2>1 DEF Exclusive, HasSibling, Id
  <2>3. Stored(o)
    BY <1>1, <1>4, <1>7, <2>2 DEF DispatcherInv, EventInv
  <2> QED BY <1>7, <2>2, <2>3, StoredUnique
<1>8. ASSUME NEW p \in Object
      PROVE  EventInv(p)'
  <2>1. EventInv(p) /\ EventInv(o)
    BY DEF DispatcherInv
  <2>2. /\ Id(p)' = Id(p) /\ Stored(p)' = Stored(p)
        /\ Exclusive(Id(p))' = Exclusive(Id(p))
    BY <1>1 DEF Id, Stored, Exclusive, HasSibling, ResolvedName
  <2>3. picked # o
    BY <1>1, <1>4, StoreAssumption DEF DispatcherInv, MainHolds
  <2>4. (Stored(p) /\ Exclusive(Id(p)) /\ p # o) => (nodeProcessed'[p] <=> nodeProcessed[p])
    BY <1>1, <1>2, <1>7 DEF DispatcherTypeOK, StoreTypeOK
  <2>5. inProgress[o]
    BY <1>1, <1>4, <2>1 DEF EventInv
  <2> QED BY <1>1, <1>5, <2>1, <2>2, <2>3, <2>4, <2>5 DEF EventInv
<1>9. MainHolds'
  <2>1. picked \in Object \cup {NoObject}
    BY <1>2 DEF DispatcherTypeOK
  <2> QED BY <1>1, <1>5, <2>1 DEF DispatcherInv, MainHolds
<1>10. StoreKeyed' /\ CancellationHolds'
  BY <1>1 DEF DispatcherInv, StoreKeyed, CancellationHolds, Id
<1>11. (slots = Cardinality(Busy))'
  BY <1>1, <1>5 DEF DispatcherInv, Busy
<1> QED BY <1>6, <1>8, <1>9, <1>10, <1>11 DEF DispatcherInv

(* Garbage collection only takes processed events out of the store. *)
LEMMA CleanStep ==
  ASSUME DispatcherInv, CleanStore
  PROVE  DispatcherInv'
<1> DEFINE S == interruptionEventStore
<1>1. /\ mainPc' = "select"
      /\ UNCHANGED <<ignoredEvents, atLeastOneEvent, sent, due, inProgress,
                     nodeProcessed, picked, signalChan, slots, pc, nodeFound, watcher,
                     cancelPc, cancelled>>
  BY DEF CleanStore, cleanPeriodically, heapVars, workerVars, cancelVars
<1>2. DispatcherTypeOK /\ StoreTypeOK
  BY DEF DispatcherInv, DispatcherTypeOK
<1>3. \/ S' = S /\ callsSinceLastClean' = callsSinceLastClean + 1
                /\ callsSinceLastClean + 1 < CleaningPeriod
      \/ /\ callsSinceLastClean' = 0
         /\ S' = [id \in EventID |->
                    IF S[id] # NoObject /\ nodeProcessed[S[id]] THEN NoObject ELSE S[id]]
  BY DEF CleanStore, cleanPeriodically
<1>4. /\ S' \in [EventID -> Object \cup {NoObject}]
      /\ \A i \in EventID : S'[i] \in {S[i], NoObject}
      /\ \A i \in EventID : (S[i] # NoObject /\ ~nodeProcessed[S[i]]) => S'[i] = S[i]
  BY <1>2, <1>3 DEF StoreTypeOK
<1>5. DispatcherTypeOK'
  <2>1. callsSinceLastClean' \in 0 .. CleaningPeriod - 1
    BY <1>2, <1>3, StoreAssumption DEF StoreTypeOK
  <2> QED BY <1>1, <1>2, <1>4, <2>1 DEF DispatcherTypeOK, StoreTypeOK, MainPc
<1>6. ASSUME NEW p \in Object, pc'[p] \in Handling \/ picked = p,
             Exclusive(Id(p)), Stored(p)
      PROVE  S'[Id(p)] = p
  <2>1. ~nodeProcessed[p]
    BY <1>1, <1>6 DEF DispatcherInv, EventInv
  <2>2. Id(p) \in EventID
    BY <1>2, StoreAssumption DEF StoreTypeOK, Id
  <2> QED BY <1>4, <1>6, <2>1, <2>2, StoreAssumption DEF Stored
<1> QED BY <1>1, <1>4, <1>5, <1>6, ShrinkStep DEF DispatcherInv, CancellationHolds

(* IgnoreEvent at startup, when no event has been stored. *)
LEMMA IgnoreStep ==
  ASSUME DispatcherInv, NEW id \in EventID, IgnoreAtStartup(id)
  PROVE  DispatcherInv'
<1>1. /\ ~atLeastOneEvent /\ ignoredEvents' = ignoredEvents \cup {id}
      /\ UNCHANGED <<interruptionEventStore, atLeastOneEvent, callsSinceLastClean,
                     heapVars, mainVars, slots, workerVars, watcher, cancelVars>>
  BY DEF IgnoreAtStartup, IgnoreEvent
<1>2. DispatcherTypeOK'
  BY <1>1 DEF DispatcherInv, DispatcherTypeOK, StoreTypeOK, heapVars, mainVars,
              workerVars, cancelVars
<1>3. ASSUME NEW p \in Object
      PROVE  EventInv(p)'
  <2>1. EventInv(p)
    BY DEF DispatcherInv
  <2>2. /\ Id(p)' = Id(p) /\ Stored(p)' = Stored(p)
        /\ Exclusive(Id(p))' = Exclusive(Id(p))
    BY <1>1 DEF Id, Stored, Exclusive, HasSibling, ResolvedName, heapVars
  <2> QED BY <1>1, <2>1, <2>2 DEF EventInv, heapVars, mainVars, workerVars
<1>4. StoreKeyed' /\ MainHolds' /\ CancellationHolds' /\ (slots = Cardinality(Busy))'
  BY <1>1 DEF DispatcherInv, StoreKeyed, MainHolds, CancellationHolds, Busy, Id,
              heapVars, mainVars, workerVars, cancelVars
<1> QED BY <1>2, <1>3, <1>4 DEF DispatcherInv

(* Steps that leave the store's entries and the workers alone. *)
LEMMA FrameStep ==
  ASSUME DispatcherInv, DispatcherTypeOK',
         UNCHANGED <<interruptionEventStore, ignoredEvents, atLeastOneEvent, sent,
                     inProgress, nodeProcessed, slots, pc>>,
         picked' \in {picked, NoObject},
         mainPc' = "dispatch" => picked' # NoObject,
         cancelPc' # "wait" => (cancelled' \in Arrival /\ cancelled'.id \in Cancellable)
  PROVE  DispatcherInv'
<1>1. \A p \in Object : Stored(p) => interruptionEventStore'[Id(p)] = p
  BY DEF Stored
<1> QED BY <1>1, ShrinkStep

(* Every step of a worker keeps the invariant. *)
LEMMA WorkerInv ==
  ASSUME DispatcherInv, NEW o \in Object, WorkerStep(o)
  PROVE  DispatcherInv'
<1> USE DEF Goto, WorkerOnly
<1>0. /\ Handling \subseteq Running /\ Finishing \subseteq Running
      /\ nodeFound \in [Object -> BOOLEAN]
  BY DEF Running, DispatcherInv, DispatcherTypeOK
<1> DEFINE Moves(from, to) ==
      /\ pc[o] = from /\ pc' = [pc EXCEPT ![o] = to]
      /\ nodeFound' \in [Object -> BOOLEAN]
      /\ UNCHANGED <<storeVars, mainVars, slots, watcher, cancelVars>>
<1>1. ASSUME NEW from \in Handling, NEW to \in Running, Moves(from, to)
      PROVE  DispatcherInv'
  BY <1>0, <1>1, QuietStep
<1>2. ASSUME NEW from \in Finishing, NEW to \in Finishing, Moves(from, to)
      PROVE  DispatcherInv'
  <2>1. to \in Running /\ to \notin Handling /\ from \in Running
    BY <1>0 DEF Handling, Finishing
  <2> QED BY <1>2, <2>1, QuietStep
<1> HIDE DEF Moves
<1>3. CASE LaunchReady(o)
  <2>1. Moves("checkReady", "launchNodeName")
    BY <1>0, <1>3 DEF LaunchReady, Moves
  <2> QED BY <1>1, <2>1 DEF Handling, Running
<1>4. CASE LaunchNotReady(o)
  <2>1. Moves("checkReady", "cancelLaunch")
    BY <1>0, <1>4 DEF LaunchNotReady, Moves
  <2> QED BY <1>1, <2>1 DEF Handling, Running
<1>5. CASE LaunchCancel(o)
  BY <1>5, WorkerCancelStep DEF LaunchCancel, Handling, Finishing
<1>6. ASSUME NEW ok \in BOOLEAN, LaunchNodeName(o, ok) PROVE DispatcherInv'
  <2>1. \E to \in {"postLaunch", "release"} : Moves("launchNodeName", to)
    BY <1>0, <1>6 DEF LaunchNodeName, Moves
  <2> QED BY <1>1, <2>1 DEF Handling, Finishing, Running
<1>7. CASE LaunchPost(o)
  <2>1. Moves("postLaunch", "release")
    BY <1>0, <1>7 DEF LaunchPost, Moves
  <2> QED BY <1>2, <2>1 DEF Finishing
<1>8. ASSUME NEW ok \in BOOLEAN, GetNodeName(o, ok) PROVE DispatcherInv'
  <2>1. \E to \in {"nodeLabels", "release"} : Moves("nodeName", to)
    BY <1>0, <1>8 DEF GetNodeName, Moves
  <2> QED BY <1>1, <2>1 DEF Handling, Finishing, Running
<1>9. ASSUME NEW ok \in BOOLEAN, GetNodeLabels(o, ok) PROVE DispatcherInv'
  <2>1. \E to \in {"preDrain", "cordon"} : Moves("nodeLabels", to)
    BY <1>0, <1>9 DEF GetNodeLabels, Moves
  <2> QED BY <1>1, <2>1 DEF Handling, Running
<1>10. CASE PreDrain(o)
  <2>1. Moves("preDrain", "cordon")
    BY <1>0, <1>10 DEF PreDrain, Moves
  <2> QED BY <1>1, <2>1 DEF Handling, Running
<1>11. ASSUME NEW ok \in BOOLEAN, Cordon(o, ok) PROVE DispatcherInv'
  <2>1. \E to \in {"cancelTask", "cancelEvent", "mark", "drain"} : Moves("cordon", to)
    BY <1>0, <1>11 DEF Cordon, AfterFailure, Moves
  <2> QED BY <1>1, <2>1 DEF Handling, Running
<1>12. ASSUME NEW ok \in BOOLEAN, Drain(o, ok) PROVE DispatcherInv'
  <2>1. \E to \in {"cancelTask", "cancelEvent", "mark"} : Moves("drain", to)
    BY <1>0, <1>12 DEF Drain, AfterFailure, Moves
  <2> QED BY <1>1, <2>1 DEF Handling, Running
<1>13. CASE CancelDrainTask(o)
  <2>1. Moves("cancelTask", "cancelEvent")
    BY <1>0, <1>13 DEF CancelDrainTask, Moves
  <2> QED BY <1>1, <2>1 DEF Handling, Running
<1>14. CASE CancelEvent(o)
  BY <1>14, WorkerCancelStep DEF CancelEvent, AfterCancel, Handling, Finishing
<1>15. CASE Mark(o)
  BY <1>15, MarkStep
<1>16. CASE PostDrain(o)
  <2>1. \E to \in {"taint", "release"} : Moves("post", to)
    BY <1>0, <1>16 DEF PostDrain, AfterPost, Moves
  <2> QED BY <1>2, <2>1 DEF Finishing
<1>17. CASE PostDrainNotFound(o)
  <2>1. Moves("postNotFound", "release")
    BY <1>0, <1>17 DEF PostDrainNotFound, Moves
  <2> QED BY <1>2, <2>1 DEF Finishing
<1>18. CASE TaintOutOfService(o)
  <2>1. Moves("taint", "release")
    BY <1>0, <1>18 DEF TaintOutOfService, Moves
  <2> QED BY <1>2, <2>1 DEF Finishing
<1>19. CASE ReleaseSlot(o)
  BY <1>19, ReleaseStep
<1> QED
  BY <1>3, <1>4, <1>5, <1>6, <1>7, <1>8, <1>9, <1>10, <1>11, <1>12, <1>13, <1>14,
     <1>15, <1>16, <1>17, <1>18, <1>19
  DEF WorkerStep

(* Every step of watchForCancellationEvents keeps the invariant. *)
LEMMA CancellationInv ==
  ASSUME DispatcherInv, CancellationStep
  PROVE  DispatcherInv'
<1> USE DEF mainVars, workerVars, storeVars, heapVars
<1>0. DispatcherTypeOK /\ CancellationHolds /\ MainHolds /\ StoreTypeOK
  BY DEF DispatcherInv, DispatcherTypeOK
<1>1. CASE CancelReceived
  <2> DEFINE S == interruptionEventStore
  <2>1. /\ cancelled.id \in Cancellable /\ cancelled.id \in EventID
        /\ S' = [S EXCEPT ![cancelled.id] = NoObject]
        /\ UNCHANGED <<ignoredEvents, atLeastOneEvent, callsSinceLastClean, heapVars,
                       mainVars, slots, workerVars, watcher, cancelled>>
        /\ cancelPc' = "check"
    BY <1>0, <1>1, DispatcherAssumption
    DEF CancelReceived, CancelInterruptionEvent, CancellationHolds
  <2>2. DispatcherTypeOK'
    BY <1>0, <2>1 DEF DispatcherTypeOK, StoreTypeOK, CancelPc
  <2>3. ASSUME NEW p \in Object, Exclusive(Id(p)), Stored(p)
        PROVE  S'[Id(p)] = p
    <3>1. Id(p) # cancelled.id
      BY <2>1, <2>3 DEF Exclusive
    <3> QED BY <1>0, <2>1, <2>3, <3>1 DEF Stored, StoreTypeOK
  <2>4. \A i \in EventID : S'[i] \in {S[i], NoObject}
    BY <1>0, <2>1 DEF StoreTypeOK
  <2> QED BY <1>0, <1>1, <2>1, <2>2, <2>3, <2>4, ShrinkStep
          DEF MainHolds, CancellationHolds, CancelReceived
<1>2. CASE CheckUncordon
  <2>1. DispatcherTypeOK'
    BY <1>0, <1>2 DEF CheckUncordon, DispatcherTypeOK, StoreTypeOK, CancelPc
  <2> QED BY <1>0, <1>2, <2>1, FrameStep
          DEF CheckUncordon, MainHolds, CancellationHolds
<1>3. CASE UncordonCancelled
  <2>1. DispatcherTypeOK'
    BY <1>0, <1>3 DEF UncordonCancelled, DispatcherTypeOK, StoreTypeOK, CancelPc
  <2> QED BY <1>0, <1>3, <2>1, FrameStep
          DEF UncordonCancelled, MainHolds, CancellationHolds
<1>4. CASE CleanUpCancelled
  <2>1. DispatcherTypeOK'
    BY <1>0, <1>4 DEF CleanUpCancelled, DispatcherTypeOK, StoreTypeOK, CancelPc
  <2> QED BY <1>0, <1>4, <2>1, FrameStep
          DEF CleanUpCancelled, MainHolds, CancellationHolds
<1> QED BY <1>1, <1>2, <1>3, <1>4 DEF CancellationStep

(* Every step of the main loop keeps the invariant. *)
LEMMA MainInv ==
  ASSUME DispatcherInv, MainStep
  PROVE  DispatcherInv'
<1> USE DEF workerVars, storeVars, cancelVars
<1>0. DispatcherTypeOK /\ CancellationHolds /\ MainHolds /\ StoreTypeOK
  BY DEF DispatcherInv, DispatcherTypeOK
<1>1. CASE TakeSignal
  <2>1. DispatcherTypeOK'
    BY <1>0, <1>1 DEF TakeSignal, DispatcherTypeOK, StoreTypeOK
  <2> QED BY <1>0, <1>1, <2>1, FrameStep
          DEF TakeSignal, MainHolds, CancellationHolds
<1>2. CASE SelectNone
  <2>1. DispatcherTypeOK'
    BY <1>0, <1>2 DEF SelectNone, DispatcherTypeOK, StoreTypeOK, MainPc
  <2> QED BY <1>0, <1>2, <2>1, FrameStep
          DEF SelectNone, MainHolds, CancellationHolds
<1>3. CASE AllWorkersBusy
  <2>1. DispatcherTypeOK'
    BY <1>0, <1>3 DEF AllWorkersBusy, DispatcherTypeOK, StoreTypeOK, MainPc
  <2> QED BY <1>0, <1>3, <2>1, FrameStep
          DEF AllWorkersBusy, MainHolds, CancellationHolds
<1> QED BY <1>1, <1>2, <1>3, CleanStep, SelectStep, StartStep DEF MainStep

(* The invariant is inductive. *)
LEMMA NextInv == DispatcherInv /\ [Next]_vars => DispatcherInv'
<1> SUFFICES ASSUME DispatcherInv, [Next]_vars PROVE DispatcherInv'
  OBVIOUS
<1> USE DEF workerVars, mainVars, storeVars, cancelVars
<1>0. DispatcherTypeOK /\ CancellationHolds /\ MainHolds /\ StoreTypeOK
  BY DEF DispatcherInv, DispatcherTypeOK
<1>1. ASSUME NEW a \in Arrival, ReceiveInterruption(a) PROVE DispatcherInv'
  <2>1. DispatcherTypeOK'
    BY <1>0, <1>1 DEF ReceiveInterruption, DispatcherTypeOK, StoreTypeOK
  <2> QED BY <1>0, <1>1, <2>1, FrameStep
          DEF ReceiveInterruption, MainHolds, CancellationHolds
<1>2. ASSUME NEW a \in Arrival, ReceiveCancellation(a) PROVE DispatcherInv'
  <2>1. DispatcherTypeOK'
    BY <1>0, <1>2 DEF ReceiveCancellation, DispatcherTypeOK, StoreTypeOK, CancelPc
  <2> QED BY <1>0, <1>2, <2>1, FrameStep
          DEF ReceiveCancellation, MainHolds
<1>3. CASE Sigterm
  <2>1. DispatcherTypeOK'
    BY <1>0, <1>3 DEF Sigterm, DispatcherTypeOK, StoreTypeOK
  <2> QED BY <1>0, <1>3, <2>1, FrameStep
          DEF Sigterm, MainHolds, CancellationHolds
<1>4. ASSUME NEW o \in Object, EventBecomesDue(o) PROVE DispatcherInv'
  <2>1. DispatcherTypeOK'
    BY <1>0, <1>4 DEF EventBecomesDue, BecomeDue, DispatcherTypeOK, StoreTypeOK
  <2> QED BY <1>0, <1>4, <2>1, FrameStep
          DEF EventBecomesDue, BecomeDue, MainHolds, CancellationHolds
<1>5. CASE UNCHANGED vars
  <2>1. DispatcherTypeOK'
    BY <1>0, <1>5 DEF vars, DispatcherTypeOK, StoreTypeOK
  <2> QED BY <1>0, <1>5, <2>1, FrameStep DEF vars, MainHolds, CancellationHolds
<1> QED
  BY <1>1, <1>2, <1>3, <1>4, <1>5, AddStep, CancellationInv, MainInv, WorkerInv,
     IgnoreStep
  DEF Next

(* A process that starts again is in the Dispatcher's initial state. *)
LEMMA RestartInv == DispatcherRestarts => DispatcherInv'
<1>1. DispatcherRestarts => Init'
  BY DEF DispatcherRestarts, Init, StoreInit
<1>2. Init' => DispatcherInv'
  BY InitInv, PTL
<1> QED BY <1>1, <1>2

(* DispatcherInv is an invariant of the dispatcher. *)
THEOREM Invariance == Spec => []DispatcherInv
  BY InitInv, NextInv, PTL DEF Spec

(* Every variable keeps its type; in particular the Workers channel never  *)
(* holds more than its capacity and never underflows.                      *)
THEOREM TypeCorrect == Spec => []DispatcherTypeOK
<1>1. DispatcherInv => DispatcherTypeOK
  BY DEF DispatcherInv
<1> QED BY <1>1, Invariance, PTL

(* The Workers channel counts the goroutines that process an event. *)
THEOREM SlotsCounted == Spec => []SlotAccounting
<1>1. ASSUME DispatcherInv PROVE SlotAccounting
  <2>1. slots = Cardinality(Busy)
    BY <1>1 DEF DispatcherInv
  <2>2. slots \in 0 .. Workers /\ Workers \in Nat
    BY <1>1, DispatcherAssumption DEF DispatcherInv, DispatcherTypeOK
  <2>3. slots <= Workers
    BY <2>2
  <2> QED BY <2>1, <2>3 DEF SlotAccounting
<1> QED BY <1>1, Invariance, PTL

(* No worker is ever given an event that was ignored at startup. *)
THEOREM IgnoredRespected == Spec => []IgnoredNeverHandled
<1>1. DispatcherInv => IgnoredNeverHandled
  BY DEF DispatcherInv, EventInv, IgnoredNeverHandled, Busy
<1> QED BY <1>1, Invariance, PTL

(* Two workers never handle one exclusive event at the same time. *)
THEOREM HandlingExclusive == Spec => []NoConcurrentHandling
<1>1. DispatcherInv => NoConcurrentHandling
  BY StoredUnique DEF DispatcherInv, EventInv, NoConcurrentHandling
<1> QED BY <1>1, Invariance, PTL

(* One step never takes a waiting exclusive event out of the store. *)
LEMMA WaitingKeptStep ==
  ASSUME DispatcherInv, [Next]_vars, NEW o \in Object,
         Stored(o), ~inProgress[o], Exclusive(Id(o))
  PROVE  Stored(o)'
<1> DEFINE S == interruptionEventStore
<1>0. /\ StoreTypeOK /\ o # NoObject /\ Id(o) \in EventID /\ EventInv(o)
  BY StoreAssumption DEF DispatcherInv, DispatcherTypeOK, StoreTypeOK, Id
<1>1. ASSUME S' = S, sent' = sent PROVE Stored(o)'
  BY <1>1 DEF Stored, Id
<1>2. ASSUME NEW c \in Object, AddReceived(c) PROVE Stored(o)'
  <2>1. c # o
    BY <1>2 DEF AddReceived, Garbage
  <2>2. CASE S[watcher.id] # NoObject
    BY <1>1, <1>2, <2>2 DEF AddReceived, AddInterruptionEvent, storeVars
  <2>3. CASE S[watcher.id] = NoObject
    <3>1. S' = [S EXCEPT ![watcher.id] = c] /\ sent' = [sent EXCEPT ![c] = watcher]
      BY <1>2, <2>3 DEF AddReceived, AddInterruptionEvent
    <3>2. watcher.id # Id(o)
      BY <1>0, <2>3 DEF Stored
    <3> QED BY <1>0, <2>1, <3>1, <3>2 DEF Stored, Id, StoreTypeOK
  <2> QED BY <2>2, <2>3
<1>3. ASSUME NEW p \in Object, pc[p] \in Handling, CancelInterruptionEvent(Id(p))
      PROVE  Stored(o)'
  <2>1. p # o
    BY <1>0, <1>3 DEF EventInv, Running
  <2>2. Id(p) # Id(o)
    BY <1>3, <2>1, StoredUnique DEF DispatcherInv, EventInv
  <2> QED BY <1>0, <1>3, <2>2
          DEF CancelInterruptionEvent, Stored, Id, StoreTypeOK, heapVars
<1>4. ASSUME NEW p \in Object, WorkerStep(p) PROVE Stored(o)'
  <2>1. CASE LaunchCancel(p) \/ CancelEvent(p)
    BY <1>3, <2>1 DEF LaunchCancel, CancelEvent, CancelByWorker, Goto, Handling
  <2>2. CASE Mark(p)
    BY <1>1, <2>2 DEF Mark, MarkAllAsProcessed
  <2>3. CASE ~(LaunchCancel(p) \/ CancelEvent(p) \/ Mark(p))
    BY <1>1, <1>4, <2>3
    DEF WorkerStep, LaunchReady, LaunchNotReady, LaunchNodeName, LaunchPost,
        GetNodeName, GetNodeLabels, PreDrain, Cordon, Drain, CancelDrainTask,
        PostDrain, PostDrainNotFound, TaintOutOfService, ReleaseSlot, WorkerOnly,
        storeVars
  <2> QED BY <2>1, <2>2, <2>3
<1>5. CASE CancelReceived
  <2>1. cancelled.id # Id(o)
    BY <1>5 DEF DispatcherInv, CancellationHolds, CancelReceived, Exclusive
  <2> QED BY <1>0, <1>5, <2>1
          DEF CancelReceived, CancelInterruptionEvent, Stored, Id, StoreTypeOK, heapVars
<1>6. CASE CleanStore
  <2>1. ~nodeProcessed[o]
    BY <1>0 DEF EventInv
  <2> QED BY <1>0, <1>6, <2>1
          DEF CleanStore, cleanPeriodically, Stored, Id, StoreTypeOK, heapVars
<1>7. CASE UNCHANGED vars
  BY <1>1, <1>7 DEF vars, storeVars
<1>8. CASE CancellationStep \/ MainStep
  BY <1>1, <1>5, <1>6, <1>8
  DEF CancellationStep, MainStep, CheckUncordon, UncordonCancelled, CleanUpCancelled,
      TakeSignal, SelectEvent, SelectNone, StartWorker, AllWorkersBusy, storeVars
<1>9. ASSUME NEW p \in Object, EventBecomesDue(p) PROVE Stored(o)'
  BY <1>1, <1>9 DEF EventBecomesDue, BecomeDue
<1>10. ASSUME NEW id \in EventID, IgnoreAtStartup(id) PROVE Stored(o)'
  BY <1>1, <1>10 DEF IgnoreAtStartup, IgnoreEvent, heapVars
<1>11. ASSUME NEW a \in Arrival, ReceiveInterruption(a) \/ ReceiveCancellation(a)
       PROVE  Stored(o)'
  BY <1>1, <1>11 DEF ReceiveInterruption, ReceiveCancellation, storeVars
<1>12. CASE Sigterm
  BY <1>1, <1>12 DEF Sigterm, storeVars
<1> QED BY <1>2, <1>4, <1>7, <1>8, <1>9, <1>10, <1>11, <1>12 DEF Next

(* An exclusive event stays in the store until a worker has taken it. *)
THEOREM WaitingKept == Spec => WaitingEventKept
<1>1. DispatcherInv /\ [Next]_vars =>
        [\A o \in Object :
           (Stored(o) /\ ~inProgress[o] /\ Exclusive(Id(o))) => Stored(o)']_vars
  BY WaitingKeptStep
<1> QED BY <1>1, Invariance, PTL DEF Spec, WaitingEventKept

-----------------------------------------------------------------------------
(***************************************************************************)
(* The dispatcher implements EventLifecycle.  DispatcherInv says that the  *)
(* worker of an exclusive event holds the object the store has under the   *)
(* event's ID; so a step changes the phase of its own event or of none,    *)
(* and the lemmas say to what.                                             *)
(***************************************************************************)

(* An entry of the store whose object is not touched keeps its phase. *)
LEMMA PhaseFrame ==
  ASSUME NEW id \in EventID,
         interruptionEventStore'[id] = interruptionEventStore[id],
         interruptionEventStore[id] # NoObject =>
           LET p == interruptionEventStore[id]
           IN  /\ nodeProcessed'[p] = nodeProcessed[p]
               /\ inProgress'[p] = inProgress[p]
               /\ pc'[p] \in Handling <=> pc[p] \in Handling
  PROVE  Phase(id)' = Phase(id)
  BY DEF Phase

(* Which events are exclusive does not change. *)
LEMMA ExclusiveConstant == ExclusiveID' = ExclusiveID
  BY DEF ExclusiveID, Exclusive, HasSibling, ResolvedName

(* When no phase changes, the abstract state does not change. *)
LEMMA PhasesFrame ==
  ASSUME \A id \in ExclusiveID : Phase(id)' = Phase(id)
  PROVE  UNCHANGED phases
  BY ExclusiveConstant DEF phases

(* When the phase of one event changes, that is the abstract state's change. *)
LEMMA PhaseMoves ==
  ASSUME NEW id \in ExclusiveID,
         NEW from, NEW to,
         Phase(id) = from, Phase(id)' = to,
         \A i \in ExclusiveID \ {id} : Phase(i)' = Phase(i)
  PROVE  EventLife!Moves(id, from, to)
<1>1. phases[id] = from
  BY DEF phases
<1>2. phases' = [i \in ExclusiveID |-> Phase(i)']
  BY ExclusiveConstant DEF phases
<1>3. phases' = [phases EXCEPT ![id] = to]
  BY <1>2 DEF phases
<1> QED BY <1>1, <1>3 DEF EventLife!Moves

(* The entry of an exclusive event is an object that carries its ID. *)
LEMMA EntryKeyed ==
  ASSUME DispatcherInv, NEW id \in ExclusiveID, interruptionEventStore[id] # NoObject
  PROVE  /\ id \in EventID /\ Exclusive(id)
         /\ interruptionEventStore[id] \in Object
         /\ Id(interruptionEventStore[id]) = id
         /\ Stored(interruptionEventStore[id])
  BY DEF ExclusiveID, DispatcherInv, DispatcherTypeOK, StoreTypeOK, StoreKeyed, Stored

(* The worker of an exclusive event handles the stored object: it is taken. *)
LEMMA HandledIsTaken ==
  ASSUME DispatcherInv, NEW o \in Object, pc[o] \in Handling, Exclusive(Id(o))
  PROVE  /\ Id(o) \in ExclusiveID /\ Stored(o) /\ inProgress[o] /\ ~nodeProcessed[o]
         /\ Phase(Id(o)) = "taken"
<1>1. Id(o) \in EventID /\ o # NoObject
  BY StoreAssumption DEF DispatcherInv, DispatcherTypeOK, StoreTypeOK, Id
<1>2. Stored(o) /\ inProgress[o] /\ ~nodeProcessed[o]
  BY DEF DispatcherInv, EventInv, Running
<1> QED BY <1>1, <1>2 DEF ExclusiveID, Phase, Stored

(* As many events are taken as there are workers on them. *)
LEMMA TakenBounded ==
  ASSUME DispatcherInv
  PROVE  Cardinality(EventLife!Taken) \in Nat /\ Cardinality(EventLife!Taken) <= slots
<1> DEFINE T == EventLife!Taken
           f == [id \in T |-> interruptionEventStore[id]]
<1>1. ASSUME NEW id \in T
      PROVE  /\ id \in ExclusiveID /\ interruptionEventStore[id] # NoObject
             /\ pc[interruptionEventStore[id]] \in Handling
  BY <1>1 DEF EventLife!Taken, phases, Phase
<1>2. \A id \in T : f[id] \in Busy /\ Id(f[id]) = id
  BY <1>1, EntryKeyed DEF Busy, Running
<1>3. f \in Injection(T, Busy)
  BY <1>2 DEF Injection, IsInjective
<1>4. IsFiniteSet(T) /\ Cardinality(T) <= Cardinality(Busy)
  BY <1>3, BusyFinite, FS_Injection
<1> QED BY <1>4, FS_CardinalityType DEF DispatcherInv

(***************************************************************************)
(* A step that changes only what belongs to the object o of an event: the  *)
(* phases of all other exclusive events stay.                              *)
(***************************************************************************)
LEMMA OthersKept ==
  ASSUME DispatcherInv, NEW o \in Object,
         \A i \in EventID : i # Id(o) => interruptionEventStore'[i] = interruptionEventStore[i],
         \A p \in Object : p # o =>
           /\ (Stored(p) /\ Exclusive(Id(p))) => nodeProcessed'[p] = nodeProcessed[p]
           /\ inProgress'[p] = inProgress[p]
           /\ pc'[p] \in Handling <=> pc[p] \in Handling
  PROVE  \A i \in ExclusiveID \ {Id(o)} : Phase(i)' = Phase(i)
<1> TAKE i \in ExclusiveID \ {Id(o)}
<1>1. i \in EventID
  BY DEF ExclusiveID
<1>2. CASE interruptionEventStore[i] = NoObject
  BY <1>1, <1>2, PhaseFrame
<1>3. CASE interruptionEventStore[i] # NoObject
  <2>1. /\ interruptionEventStore[i] \in Object /\ interruptionEventStore[i] # o
        /\ Stored(interruptionEventStore[i])
        /\ Exclusive(Id(interruptionEventStore[i]))
    BY <1>3, EntryKeyed
  <2> QED BY <1>1, <2>1, PhaseFrame
<1> QED BY <1>2, <1>3

(* AddInterruptionEvent lets an absent event arrive. *)
LEMMA AddArrives ==
  ASSUME DispatcherInv, NEW c \in Object, AddReceived(c)
  PROVE  [EventLife!Next]_phases
<1> DEFINE a == watcher
           S == interruptionEventStore
<1>1. a \in Arrival /\ a.id \in EventID /\ DispatcherTypeOK /\ StoreTypeOK
  BY StoreAssumption DEF AddReceived, DispatcherInv, DispatcherTypeOK
<1>2. pc' = pc /\ c \in Garbage
  BY DEF AddReceived, workerVars
<1>3. CASE S[a.id] # NoObject
  <2>1. UNCHANGED storeVars
    BY <1>3 DEF AddReceived, AddInterruptionEvent
  <2>2. \A id \in ExclusiveID : Phase(id)' = Phase(id)
    BY <1>2, <2>1, PhaseFrame DEF storeVars, ExclusiveID
  <2> QED BY <2>2, PhasesFrame
<1>4. CASE S[a.id] = NoObject
  <2>1. /\ S' = [S EXCEPT ![a.id] = c]
        /\ inProgress' = [inProgress EXCEPT ![c] = FALSE]
        /\ nodeProcessed' = [nodeProcessed EXCEPT ![c] = FALSE]
    BY <1>4 DEF AddReceived, AddInterruptionEvent
  <2>2. ASSUME NEW i \in ExclusiveID, i # a.id
        PROVE  Phase(i)' = Phase(i)
    <3>1. i \in EventID /\ S'[i] = S[i]
      BY <1>1, <2>1, <2>2 DEF ExclusiveID, StoreTypeOK
    <3>2. S[i] # NoObject => S[i] \in Object /\ S[i] # c
      BY <1>2, EntryKeyed DEF Garbage
    <3> QED BY <1>1, <1>2, <2>1, <3>1, <3>2, PhaseFrame DEF StoreTypeOK
  <2>3. CASE a.id \in ExclusiveID
    <3>1. PICK id \in ExclusiveID : id = a.id
      BY <2>3
    <3>2. Phase(id) = "absent"
      BY <1>4, <3>1 DEF Phase
    <3>3. S'[id] = c /\ c # NoObject /\ ~nodeProcessed'[c] /\ ~inProgress'[c]
      BY <1>1, <2>1, <3>1, StoreAssumption DEF StoreTypeOK
    <3>4. pc'[c] \notin Handling
      BY <1>2 DEF Garbage, Running
    <3>5. Phase(id)' = "waiting"
      BY <3>3, <3>4 DEF Phase
    <3>6. EventLife!Moves(id, "absent", "waiting")
      BY <2>2, <3>1, <3>2, <3>5, PhaseMoves
    <3> QED BY <3>6 DEF EventLife!Next, EventLife!Arrive
  <2>4. CASE a.id \notin ExclusiveID
    BY <2>2, <2>4, PhasesFrame
  <2> QED BY <2>3, <2>4
<1> QED BY <1>3, <1>4

(* The main loop's send on the Workers channel takes the event. *)
LEMMA StartTakes ==
  ASSUME DispatcherInv, NEW o \in Object, StartWorker(o)
  PROVE  [EventLife!Next]_phases
<1>1. /\ picked = o /\ slots < Workers
      /\ inProgress' = [inProgress EXCEPT ![o] = TRUE]
      /\ pc' = [pc EXCEPT ![o] = FirstPc(o)]
      /\ UNCHANGED <<interruptionEventStore, nodeProcessed, sent>>
  BY DEF StartWorker
<1>2. DispatcherTypeOK /\ StoreTypeOK /\ o # NoObject /\ Id(o) \in EventID
  BY StoreAssumption DEF DispatcherInv, DispatcherTypeOK, StoreTypeOK, Id
<1>3. FirstPc(o) \in Handling /\ pc[o] = "idle" /\ ~inProgress[o] /\ "idle" \notin Handling
  BY <1>1, <1>2 DEF FirstPc, Handling, DispatcherInv, MainHolds
<1>4. \A i \in ExclusiveID \ {Id(o)} : Phase(i)' = Phase(i)
  BY <1>1, <1>2, OthersKept DEF DispatcherTypeOK, StoreTypeOK
<1>5. CASE Exclusive(Id(o))
  <2>1. PICK id \in ExclusiveID : id = Id(o)
    BY <1>2, <1>5 DEF ExclusiveID
  <2>2. interruptionEventStore[id] = o /\ ~nodeProcessed[o]
    BY <1>1, <1>5, <2>1 DEF DispatcherInv, EventInv, Stored
  <2>3. Phase(id) = "waiting"
    BY <1>2, <1>3, <2>2 DEF Phase
  <2>4. pc'[o] \in Handling
    BY <1>1, <1>2, <1>3 DEF DispatcherTypeOK
  <2>5. Phase(id)' = "taken"
    BY <1>1, <1>2, <2>2, <2>4 DEF Phase
  <2>6. EventLife!Moves(id, "waiting", "taken")
    BY <1>4, <2>1, <2>3, <2>5, PhaseMoves
  <2>7. Cardinality(EventLife!Taken) < Workers
    <3>1. slots \in 0 .. Workers /\ Workers \in Nat
      BY <1>2, DispatcherAssumption DEF DispatcherTypeOK
    <3>2. /\ Cardinality(EventLife!Taken) \in Nat
          /\ Cardinality(EventLife!Taken) <= slots
      BY TakenBounded
    <3> QED BY <1>1, <3>1, <3>2
  <2>8. EventLife!Take(id)
    BY <2>6, <2>7 DEF EventLife!Take, Cardinality, EventLife!Cardinality
  <2> QED BY <2>8 DEF EventLife!Next
<1>6. CASE ~Exclusive(Id(o))
  BY <1>4, <1>6, PhasesFrame DEF ExclusiveID
<1> QED BY <1>5, <1>6

(***************************************************************************)
(* A worker that leaves the handler without a call to the store (a launch  *)
(* event that was completed, an error of GetNodeName) abandons the event.  *)
(***************************************************************************)
LEMMA LeaveAbandons ==
  ASSUME DispatcherInv, NEW o \in Object, NEW to \in Running,
         pc[o] \in Handling,
         pc' = [pc EXCEPT ![o] = to],
         UNCHANGED storeVars
  PROVE  [EventLife!Next]_phases
<1>1. /\ pc \in [Object -> WorkerPc] /\ o # NoObject
      /\ UNCHANGED <<interruptionEventStore, inProgress, nodeProcessed, sent>>
  BY StoreAssumption DEF DispatcherInv, DispatcherTypeOK, storeVars
<1>2. \A i \in ExclusiveID \ {Id(o)} : Phase(i)' = Phase(i)
  BY <1>1, OthersKept
<1>3. CASE Exclusive(Id(o)) /\ to \notin Handling
  <2>1. PICK id \in ExclusiveID : id = Id(o)
    BY <1>3, HandledIsTaken
  <2>2. /\ interruptionEventStore[id] = o /\ inProgress[o] /\ ~nodeProcessed[o]
        /\ Phase(id) = "taken"
    BY <1>3, <2>1, HandledIsTaken DEF Stored
  <2>3. Phase(id)' = "abandoned"
    BY <1>1, <1>3, <2>2 DEF Phase
  <2>4. EventLife!Moves(id, "taken", "abandoned")
    BY <1>2, <2>1, <2>2, <2>3, PhaseMoves
  <2> QED BY <2>4 DEF EventLife!Next, EventLife!Abandon
<1>4. CASE ~Exclusive(Id(o))
  BY <1>2, <1>4, PhasesFrame DEF ExclusiveID
<1>5. CASE to \in Handling
  <2>1. \A i \in ExclusiveID : Phase(i)' = Phase(i)
    <3> TAKE i \in ExclusiveID
    <3>1. interruptionEventStore[i] # NoObject => interruptionEventStore[i] \in Object
      BY EntryKeyed
    <3> QED BY <1>1, <1>5, <3>1, PhaseFrame DEF ExclusiveID
  <2> QED BY <2>1, PhasesFrame
<1> QED BY <1>3, <1>4, <1>5

(* CancelInterruptionEvent by the event's worker gives the event up. *)
LEMMA CancelGivesUp ==
  ASSUME DispatcherInv, NEW o \in Object, NEW to \in Finishing,
         pc[o] \in Handling,
         pc' = [pc EXCEPT ![o] = to],
         CancelByWorker(o)
  PROVE  [EventLife!Next]_phases
<1>1. /\ pc \in [Object -> WorkerPc]
      /\ interruptionEventStore \in [EventID -> Object \cup {NoObject}]
      /\ interruptionEventStore' = [interruptionEventStore EXCEPT ![Id(o)] = NoObject]
      /\ UNCHANGED <<inProgress, nodeProcessed, sent>>
  BY DEF DispatcherInv, DispatcherTypeOK, StoreTypeOK, CancelByWorker,
         CancelInterruptionEvent, heapVars
<1>2. \A i \in ExclusiveID \ {Id(o)} : Phase(i)' = Phase(i)
  BY <1>1, OthersKept
<1>3. CASE Exclusive(Id(o))
  <2>1. PICK id \in ExclusiveID : id = Id(o)
    BY <1>3, HandledIsTaken
  <2>2. Phase(id) = "taken"
    BY <1>3, <2>1, HandledIsTaken
  <2>3. Phase(id)' = "absent"
    BY <1>1, <2>1 DEF Phase, ExclusiveID
  <2>4. EventLife!Moves(id, "taken", "absent")
    BY <1>2, <2>1, <2>2, <2>3, PhaseMoves
  <2> QED BY <2>4 DEF EventLife!Next, EventLife!GiveUp
<1>4. CASE ~Exclusive(Id(o))
  BY <1>2, <1>4, PhasesFrame DEF ExclusiveID
<1> QED BY <1>3, <1>4

(***************************************************************************)
(* MarkAllAsProcessed settles the worker's event.  (An event stored under  *)
(* another node name than the one looked up is not marked: it is left in   *)
(* progress, abandoned.)                                                   *)
(***************************************************************************)
LEMMA MarkSettles ==
  ASSUME DispatcherInv, NEW o \in Object, Mark(o)
  PROVE  [EventLife!Next]_phases
<1> DEFINE n == ResolvedName(sent[o])
<1>1. /\ pc[o] = "mark"
      /\ nodeProcessed' =
           [p \in Object |-> nodeProcessed[p] \/ (Stored(p) /\ sent[p].nodeName = n)]
      /\ UNCHANGED <<interruptionEventStore, sent, inProgress>>
  BY DEF Mark, Goto, MarkAllAsProcessed
<1>2. pc \in [Object -> WorkerPc] /\ StoreTypeOK /\ o # NoObject
  BY StoreAssumption DEF DispatcherInv, DispatcherTypeOK
<1>3. PICK w \in Finishing : pc' = [pc EXCEPT ![o] = w]
  BY DEF Mark, Goto, AfterPost, Finishing
<1>4. "mark" \in Handling /\ w \notin Handling
  BY <1>3 DEF Handling, Finishing
<1>5. ASSUME NEW p \in Object, p # o, Stored(p), Exclusive(Id(p))
      PROVE  nodeProcessed'[p] = nodeProcessed[p]
  <2>1. sent[p] \in Arrival /\ sent[o] \in Arrival /\ nodeProcessed[p] \in BOOLEAN
    BY <1>2 DEF StoreTypeOK
  <2>2. sent[p].nodeName # n
    <3> SUFFICES ASSUME sent[p].nodeName = n PROVE FALSE
      OBVIOUS
    <3>1. Id(o) = Id(p)
      BY <1>5, <2>1 DEF Exclusive, HasSibling, Id
    <3> QED BY <1>1, <1>4, <1>5, <3>1, HandledIsTaken, StoredUnique
  <2> QED BY <1>1, <2>1, <2>2
<1>6. \A i \in ExclusiveID \ {Id(o)} : Phase(i)' = Phase(i)
  BY <1>1, <1>2, <1>3, <1>5, OthersKept
<1>7. CASE Exclusive(Id(o))
  <2>1. PICK id \in ExclusiveID : id = Id(o)
    BY <1>1, <1>4, <1>7, HandledIsTaken
  <2>2. /\ interruptionEventStore[id] = o /\ inProgress[o]
        /\ Phase(id) = "taken"
    BY <1>1, <1>4, <1>7, <2>1, HandledIsTaken DEF Stored
  <2>3. pc'[o] \notin Handling
    BY <1>2, <1>3, <1>4
  <2>4. CASE nodeProcessed'[o]
    <3>1. Phase(id)' = "settled"
      BY <1>1, <1>2, <2>2, <2>4 DEF Phase
    <3>2. EventLife!Moves(id, "taken", "settled")
      BY <1>6, <2>1, <2>2, <3>1, PhaseMoves
    <3> QED BY <3>2 DEF EventLife!Next, EventLife!Settle
  <2>5. CASE ~nodeProcessed'[o]
    <3>1. Phase(id)' = "abandoned"
      BY <1>1, <1>2, <2>2, <2>3, <2>5 DEF Phase
    <3>2. EventLife!Moves(id, "taken", "abandoned")
      BY <1>6, <2>1, <2>2, <3>1, PhaseMoves
    <3> QED BY <3>2 DEF EventLife!Next, EventLife!Abandon
  <2> QED BY <2>4, <2>5
<1>8. CASE ~Exclusive(Id(o))
  BY <1>6, <1>8, PhasesFrame DEF ExclusiveID
<1> QED BY <1>7, <1>8

(* Garbage collection collects the settled events, all of them or none. *)
LEMMA CleanCollects ==
  ASSUME DispatcherInv, CleanStore
  PROVE  [EventLife!Next]_phases
<1> DEFINE S == interruptionEventStore
<1>1. UNCHANGED <<sent, inProgress, nodeProcessed, pc>>
  BY DEF CleanStore, cleanPeriodically, heapVars, workerVars
<1>2. CASE S' = S
  <2>1. \A i \in ExclusiveID : Phase(i)' = Phase(i)
    BY <1>1, <1>2, PhaseFrame DEF ExclusiveID
  <2> QED BY <2>1, PhasesFrame
<1>3. CASE S' = [id \in EventID |->
                   IF S[id] # NoObject /\ nodeProcessed[S[id]] THEN NoObject ELSE S[id]]
  <2>1. ASSUME NEW i \in ExclusiveID
        PROVE  Phase(i)' = IF Phase(i) = "settled" THEN "absent" ELSE Phase(i)
    BY <1>1, <1>3 DEF Phase, ExclusiveID
  <2>2. phases' = [i \in ExclusiveID |-> Phase(i)']
    BY ExclusiveConstant DEF phases
  <2>3. EventLife!Collect
    BY <2>1, <2>2 DEF EventLife!Collect, phases
  <2> QED BY <2>3 DEF EventLife!Next
<1> QED BY <1>2, <1>3 DEF CleanStore, cleanPeriodically

(* A cancellation takes no exclusive event out of the store. *)
LEMMA CancellationSpares ==
  ASSUME DispatcherInv, CancelReceived
  PROVE  [EventLife!Next]_phases
<1>1. /\ cancelled.id \in Cancellable
      /\ interruptionEventStore' = [interruptionEventStore EXCEPT ![cancelled.id] = NoObject]
      /\ UNCHANGED <<inProgress, nodeProcessed, pc>>
  BY DEF CancelReceived, CancelInterruptionEvent, DispatcherInv, CancellationHolds,
         heapVars, workerVars
<1>2. interruptionEventStore \in [EventID -> Object \cup {NoObject}]
  BY DEF DispatcherInv, DispatcherTypeOK, StoreTypeOK
<1>3. \A i \in ExclusiveID : i \in EventID /\ i # cancelled.id
  BY <1>1 DEF ExclusiveID, Exclusive
<1>4. \A i \in ExclusiveID : Phase(i)' = Phase(i)
  BY <1>1, <1>2, <1>3, PhaseFrame
<1> QED BY <1>4, PhasesFrame

(* A step that touches neither the store nor what a worker handles. *)
LEMMA QuietPhases ==
  ASSUME UNCHANGED <<interruptionEventStore, inProgress, nodeProcessed>>, DispatcherInv,
         \A p \in Object : pc'[p] \in Handling <=> pc[p] \in Handling
  PROVE  [EventLife!Next]_phases
<1>1. ASSUME NEW i \in ExclusiveID PROVE Phase(i)' = Phase(i)
  <2>1. interruptionEventStore[i] # NoObject => interruptionEventStore[i] \in Object
    BY EntryKeyed
  <2> QED BY <2>1, PhaseFrame DEF ExclusiveID
<1> QED BY <1>1, PhasesFrame

(* Every step of a worker is a step of the life cycle, or leaves it alone. *)
LEMMA WorkerRefines ==
  ASSUME DispatcherInv, NEW o \in Object, WorkerStep(o)
  PROVE  [EventLife!Next]_phases
<1> USE DEF Goto, WorkerOnly
<1>0. pc \in [Object -> WorkerPc]
  BY DEF DispatcherInv, DispatcherTypeOK
<1>1. ASSUME NEW from \in Handling, NEW to \in Running,
             pc[o] = from, pc' = [pc EXCEPT ![o] = to], UNCHANGED storeVars
      PROVE  [EventLife!Next]_phases
  BY <1>1, LeaveAbandons
<1>2. ASSUME pc[o] \in Finishing, pc'[o] \in Finishing \cup {"idle"},
             pc' = [pc EXCEPT ![o] = pc'[o]], UNCHANGED storeVars
      PROVE  [EventLife!Next]_phases
  <2>1. pc[o] \notin Handling /\ pc'[o] \notin Handling
    BY <1>2 DEF Handling, Finishing
  <2>2. \A p \in Object : pc'[p] \in Handling <=> pc[p] \in Handling
    BY <1>0, <1>2, <2>1
  <2> QED BY <1>2, <2>2, QuietPhases DEF storeVars
<1>3. CASE LaunchReady(o) \/ LaunchNotReady(o) \/ PreDrain(o) \/ CancelDrainTask(o)
  BY <1>1, <1>3
  DEF LaunchReady, LaunchNotReady, PreDrain, CancelDrainTask, Handling, Running
<1>4. ASSUME NEW ok \in BOOLEAN, LaunchNodeName(o, ok) \/ GetNodeName(o, ok)
      PROVE  [EventLife!Next]_phases
  BY <1>1, <1>4 DEF LaunchNodeName, GetNodeName, Handling, Finishing, Running
<1>5. ASSUME NEW ok \in BOOLEAN, GetNodeLabels(o, ok)
      PROVE  [EventLife!Next]_phases
  BY <1>1, <1>5 DEF GetNodeLabels, Handling, Running
<1>6. ASSUME NEW ok \in BOOLEAN, Cordon(o, ok) \/ Drain(o, ok)
      PROVE  [EventLife!Next]_phases
  BY <1>1, <1>6 DEF Cordon, Drain, AfterFailure, Handling, Running
<1>7. CASE LaunchCancel(o) \/ CancelEvent(o)
  BY <1>7, CancelGivesUp DEF LaunchCancel, CancelEvent, AfterCancel, Handling, Finishing
<1>8. CASE Mark(o)
  BY <1>8, MarkSettles
<1>9. CASE LaunchPost(o) \/ PostDrain(o) \/ PostDrainNotFound(o) \/ TaintOutOfService(o)
  BY <1>0, <1>2, <1>9
  DEF LaunchPost, PostDrain, PostDrainNotFound, TaintOutOfService, AfterPost, Finishing
<1>10. CASE ReleaseSlot(o)
  BY <1>0, <1>2, <1>10 DEF ReleaseSlot, Finishing
<1> QED BY <1>3, <1>4, <1>5, <1>6, <1>7, <1>8, <1>9, <1>10 DEF WorkerStep

(* Every step of the dispatcher is a step of the life cycle or a stutter. *)
LEMMA NextRefines == DispatcherInv /\ [Next]_vars => [EventLife!Next]_phases
<1> SUFFICES ASSUME DispatcherInv, [Next]_vars PROVE [EventLife!Next]_phases
  OBVIOUS
<1> USE DEF workerVars, storeVars
<1>1. CASE UNCHANGED vars
  BY <1>1, QuietPhases DEF vars
<1>2. CASE MainStep
  <2>1. CASE TakeSignal \/ SelectNone \/ AllWorkersBusy
    BY <2>1, QuietPhases DEF TakeSignal, SelectNone, AllWorkersBusy
  <2>2. ASSUME NEW o \in Object, SelectEvent(o) PROVE [EventLife!Next]_phases
    BY <2>2, QuietPhases DEF SelectEvent
  <2> QED BY <1>2, <2>1, <2>2, CleanCollects, StartTakes DEF MainStep
<1>3. CASE CancellationStep
  <2>1. CASE CheckUncordon \/ UncordonCancelled \/ CleanUpCancelled
    BY <2>1, QuietPhases DEF CheckUncordon, UncordonCancelled, CleanUpCancelled
  <2> QED BY <1>3, <2>1, CancellationSpares DEF CancellationStep
<1>4. ASSUME NEW a \in Arrival, ReceiveInterruption(a) \/ ReceiveCancellation(a)
      PROVE  [EventLife!Next]_phases
  BY <1>4, QuietPhases DEF ReceiveInterruption, ReceiveCancellation
<1>5. CASE Sigterm
  BY <1>5, QuietPhases DEF Sigterm
<1>6. ASSUME NEW o \in Object, EventBecomesDue(o) PROVE [EventLife!Next]_phases
  BY <1>6, QuietPhases DEF EventBecomesDue, BecomeDue
<1>7. ASSUME NEW id \in EventID, IgnoreAtStartup(id) PROVE [EventLife!Next]_phases
  BY <1>7, QuietPhases DEF IgnoreAtStartup, IgnoreEvent, heapVars
<1> QED BY <1>1, <1>2, <1>3, <1>4, <1>5, <1>6, <1>7, AddArrives, WorkerRefines DEF Next

(***************************************************************************)
(* The store, the main loop and the workers implement the life of an       *)
(* event: EventLifecycle's specification holds of the phases.              *)
(***************************************************************************)
THEOREM LifecycleImplemented == Spec => LifecycleKept
<1>1. Init => EventLife!Init
  BY DEF Init, StoreInit, EventLife!Init, phases, Phase, ExclusiveID
<1> QED BY <1>1, NextRefines, Invariance, PTL DEF Spec, LifecycleKept, EventLife!Spec
=============================================================================
