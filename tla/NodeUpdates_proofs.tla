------------------------- MODULE NodeUpdates_proofs -------------------------
(***************************************************************************)
(* Theorems about NodeUpdates, for any number of workers and any number of *)
(* faults: its operations are atomic, and the Spot Guard goroutine fits    *)
(* the node it runs on.                                                    *)
(***************************************************************************)
EXTENDS NodeUpdates, TLAPS

(* The marks that NTH itself places are marks of its operations. *)
LEMMA OwnMarks ==
  /\ NTHTaint \subseteq Mark \ Foreign
  /\ GuardMark \subseteq Mark \ Foreign
  /\ "none" \notin NTHTaint \cup GuardMark
BY UpdatesAssumption DEF Mark

(* The operations the actions begin are operations, and none is NoCall. *)
LEMMA Operations ==
  /\ NoCall \notin Operation
  /\ \A k \in NTHTaint \cup GuardMark :
       Adding(k) \in Operation /\ Removing(k) \in Operation
<1>1. \A o \in Operation : o.key # "none"
  BY UpdatesAssumption DEF Operation
<1>2. NoCall.key = "none"
  BY DEF NoCall
<1> QED
  BY <1>1, <1>2, OwnMarks DEF Operation, Adding, Removing

(* An operation keeps the marks within Mark. *)
LEMMA EffectType ==
  ASSUME NEW o \in Operation, NEW S \in SUBSET Mark
  PROVE  Effect(o, S) \in SUBSET Mark
BY DEF Effect, Operation

(* The taints RemoveNTHTaints goes through. *)
LEMMA TaintSequence == NTHTaints \in Seq(NTHTaint)
BY DEF NTHTaints, NTHTaint

(***************************************************************************)
(* The initial states satisfy the invariant.                               *)
(***************************************************************************)
LEMMA InitInv == Init => UpdatesInv
<1> SUFFICES ASSUME Init PROVE UpdatesInv
  OBVIOUS
<1>1. /\ object \subseteq Mark /\ k8sNode \subseteq Mark
      /\ left \in Seq(NTHTaint)
      /\ kind \in Types
      /\ calls \in 0 .. MaxCalls /\ faults \in 0 .. MaxFaults
  BY UpdatesAssumption DEF Init, Mark
<1>2. /\ k8sStale \in BOOLEAN /\ expired \in BOOLEAN
      /\ stale \in [Proc -> BOOLEAN] /\ late \in [Proc -> BOOLEAN]
  BY DEF Init
<1>3. /\ pc \in [Proc -> {"idle", "fetch", "next", "refresh", "update"}]
      /\ op \in [Proc -> Operation \cup {NoCall}]
      /\ copy \in [Proc -> SUBSET Mark]
      /\ returned \in (Proc \X {"ok", "error"}) \cup {Nobody}
      /\ role \in {"detecting", "labels", "starting", "protector", "monitor", "none"}
  BY DEF Init
<1>4. UpdatesTypeOK
  BY <1>1, <1>2, <1>3 DEF UpdatesTypeOK
<1> QED
  BY <1>4 DEF Init, UpdatesInv, NoCall

(***************************************************************************)
(* Every step keeps the invariant: one lemma per kind of step.             *)
(***************************************************************************)
LEMMA UpdateAcceptedInv ==
  ASSUME UpdatesInv, NEW p \in Proc, UpdateAccepted(p)
  PROVE  UpdatesInv'
<1>1. Effect(op[p], copy[p]) \in SUBSET Mark
  <2>1. op[p] \in Operation /\ copy[p] \in SUBSET Mark
    BY DEF UpdatesInv, UpdatesTypeOK, UpdateAccepted
  <2> QED
    BY <2>1, EffectType
<1>2. /\ object' \subseteq Mark
      /\ stale' \in [Proc -> BOOLEAN] /\ k8sStale' \in BOOLEAN
  BY <1>1 DEF UpdatesInv, UpdatesTypeOK, UpdateAccepted, Write
<1>3. UpdatesTypeOK'
  BY <1>2, UpdatesAssumption DEF UpdatesInv, UpdatesTypeOK, UpdateAccepted, Write, Return, bounds
<1> QED
  BY <1>3 DEF UpdatesInv, UpdatesTypeOK, Proc, UpdateAccepted, Write, Return, bounds

LEMMA UpdateFailsInv ==
  ASSUME UpdatesInv, NEW p \in Proc, UpdateFails(p)
  PROVE  UpdatesInv'
<1>1. Effect(op[p], copy[p]) \in SUBSET Mark
  <2>1. op[p] \in Operation /\ copy[p] \in SUBSET Mark
    BY DEF UpdatesInv, UpdatesTypeOK, UpdateFails
  <2> QED
    BY <2>1, EffectType
<1>2. /\ object' \subseteq Mark
      /\ stale' \in [Proc -> BOOLEAN] /\ k8sStale' \in BOOLEAN
  <2>1. CASE Write(Effect(op[p], copy[p]))
    BY <1>1, <2>1 DEF Write
  <2>2. CASE UNCHANGED <<object, stale, k8sStale>>
    BY <2>2 DEF UpdatesInv, UpdatesTypeOK
  <2> QED BY <2>1, <2>2 DEF UpdateFails
<1>3. faults' \in 0 .. MaxFaults
  BY UpdatesAssumption DEF UpdatesInv, UpdatesTypeOK, UpdateFails, Fault
<1>4. UpdatesTypeOK'
  BY <1>2, <1>3 DEF UpdatesInv, UpdatesTypeOK, UpdateFails, Return
<1> QED
  BY <1>4 DEF UpdatesInv, UpdatesTypeOK, Proc, UpdateFails, Write, Return

LEMMA UpdateConflictsInv ==
  ASSUME UpdatesInv, NEW p \in Proc, UpdateConflicts(p)
  PROVE  UpdatesInv'
<1>1. UpdatesTypeOK'
  <2>1. /\ pc' \in [Proc -> {"idle", "fetch", "next", "refresh", "update"}]
        /\ op' \in [Proc -> Operation \cup {NoCall}]
        /\ returned' \in (Proc \X {"ok", "error"}) \cup {Nobody}
    BY Operations DEF UpdatesInv, UpdatesTypeOK, UpdateConflicts, Return
  <2> QED
    BY <2>1 DEF UpdatesInv, UpdatesTypeOK, UpdateConflicts, copyVars, removeVars, bounds
<1> QED
  BY <1>1, OwnMarks, Operations DEF UpdatesInv, UpdatesTypeOK, Proc, UpdateConflicts, Return, copyVars, removeVars, bounds

LEMMA RefreshInv ==
  ASSUME UpdatesInv, NEW p \in Proc \ {"guard"}, Refresh(p)
  PROVE  UpdatesInv'
<1>1. UpdatesTypeOK'
  <2>1. /\ pc' \in [Proc -> {"idle", "fetch", "next", "refresh", "update"}]
        /\ op' \in [Proc -> Operation \cup {NoCall}]
        /\ returned' \in (Proc \X {"ok", "error"}) \cup {Nobody}
    BY Operations DEF UpdatesInv, UpdatesTypeOK, Refresh, Return
  <2>2. copy' \in [Proc -> SUBSET Mark] /\ stale' \in [Proc -> BOOLEAN]
    BY DEF UpdatesInv, UpdatesTypeOK, Refresh, Reads
  <2> QED
    BY <2>1, <2>2 DEF UpdatesInv, UpdatesTypeOK, Refresh, removeVars, bounds
<1> QED
  BY <1>1, OwnMarks, Operations DEF UpdatesInv, UpdatesTypeOK, Proc, Refresh, Reads, Return, removeVars, bounds

LEMMA ReadFailsInv ==
  ASSUME UpdatesInv, NEW p \in Proc, ReadFails(p)
  PROVE  UpdatesInv'
<1>1. UpdatesTypeOK'
  BY UpdatesAssumption, OwnMarks, Operations, EffectType, TaintSequence
     DEF UpdatesInv, UpdatesTypeOK, Proc, ReadFails, Return, Fault, copyVars, removeVars
<1> QED
  BY <1>1, OwnMarks, Operations DEF UpdatesInv, UpdatesTypeOK, Proc, ReadFails, Return, Fault, copyVars, removeVars

LEMMA DeadlinePassesInv ==
  ASSUME UpdatesInv, NEW p \in Proc, DeadlinePasses(p)
  PROVE  UpdatesInv'
<1>1. UpdatesTypeOK'
  BY UpdatesAssumption, OwnMarks, Operations, EffectType, TaintSequence
     DEF UpdatesInv, UpdatesTypeOK, Proc, DeadlinePasses, removeVars, bounds
<1> QED
  BY <1>1, OwnMarks, Operations DEF UpdatesInv, UpdatesTypeOK, Proc, DeadlinePasses, removeVars, bounds

LEMMA StartTaintInv ==
  ASSUME UpdatesInv, NEW p \in Worker, StartTaint(p)
  PROVE  UpdatesInv'
<1>1. p \in Proc /\ p # "canceller" /\ p # "guard" /\ Adding(TaintOf[p]) \in Operation
  BY UpdatesAssumption, Operations DEF Proc
<1>2. UpdatesTypeOK'
  BY <1>1, UpdatesAssumption
     DEF UpdatesInv, UpdatesTypeOK, StartTaint, Called, removeVars
<1> QED
  BY <1>1, <1>2, Operations DEF UpdatesInv, UpdatesTypeOK, StartTaint, removeVars

LEMMA FetchNodeInv ==
  ASSUME UpdatesInv, NEW p \in Worker, FetchNode(p)
  PROVE  UpdatesInv'
<1>1. UpdatesTypeOK'
  BY UpdatesAssumption, OwnMarks, Operations, EffectType, TaintSequence
     DEF UpdatesInv, UpdatesTypeOK, Proc, FetchNode, Reads, removeVars, bounds
<1> QED
  BY <1>1, OwnMarks, Operations DEF UpdatesInv, UpdatesTypeOK, Proc, FetchNode, Reads, removeVars, bounds

LEMMA OthersWriteInv ==
  ASSUME UpdatesInv, NEW S \in SUBSET Foreign, OthersWrite(S)
  PROVE  UpdatesInv'
<1>1. (object \ Foreign) \cup S \in SUBSET Mark
  BY DEF UpdatesInv, UpdatesTypeOK, Mark
<1>2. UpdatesTypeOK'
  BY <1>1 DEF UpdatesInv, UpdatesTypeOK, OthersWrite, Write, bounds
<1> QED
  BY <1>2 DEF UpdatesInv, UpdatesTypeOK, OthersWrite, Write, bounds

LEMMA StartRemovalInv ==
  ASSUME UpdatesInv, StartRemoval
  PROVE  UpdatesInv'
<1>1. "canceller" \in Proc
  BY DEF Proc
<1>2. calls' \in 0 .. MaxCalls
  BY UpdatesAssumption DEF UpdatesInv, UpdatesTypeOK, StartRemoval, Called
<1>3. CASE /\ k8sNode' = object /\ k8sStale' = FALSE
           /\ left' = NTHTaints
           /\ pc' = [pc EXCEPT !["canceller"] = "next"]
           /\ UNCHANGED faults
  <2>1. UpdatesTypeOK'
    BY <1>1, <1>2, <1>3, TaintSequence
       DEF UpdatesInv, UpdatesTypeOK, StartRemoval, copyVars
  <2> QED
    BY <1>1, <1>3, <2>1 DEF UpdatesInv, UpdatesTypeOK, StartRemoval, copyVars
<1>4. CASE Fault /\ UNCHANGED <<pc, removeVars>>
  <2>1. UpdatesTypeOK'
    BY <1>2, <1>4, UpdatesAssumption
       DEF UpdatesInv, UpdatesTypeOK, StartRemoval, Fault, copyVars, removeVars
  <2> QED
    BY <1>4, <2>1 DEF UpdatesInv, UpdatesTypeOK, StartRemoval, copyVars, removeVars
<1> QED
  BY <1>3, <1>4 DEF StartRemoval

LEMMA NextTaintInv ==
  ASSUME UpdatesInv, NextTaint
  PROVE  UpdatesInv'
<1>1. UpdatesTypeOK'
  BY UpdatesAssumption, OwnMarks, Operations, EffectType, TaintSequence
     DEF UpdatesInv, UpdatesTypeOK, Proc, NextTaint, bounds
<1> QED
  BY <1>1, OwnMarks, Operations DEF UpdatesInv, UpdatesTypeOK, Proc, NextTaint, bounds

LEMMA RemovalDoneInv ==
  ASSUME UpdatesInv, RemovalDone
  PROVE  UpdatesInv'
<1>1. UpdatesTypeOK'
  BY UpdatesAssumption, OwnMarks, Operations, EffectType, TaintSequence
     DEF UpdatesInv, UpdatesTypeOK, Proc, RemovalDone, copyVars, removeVars, bounds
<1> QED
  BY <1>1, OwnMarks, Operations DEF UpdatesInv, UpdatesTypeOK, Proc, RemovalDone, copyVars, removeVars, bounds

LEMMA GuardWritesInv ==
  ASSUME UpdatesInv, NEW o \in Operation, GuardWrites(o),
         role' \in {"detecting", "labels", "starting", "protector", "monitor", "none"},
         calls' \in 0 .. MaxCalls
  PROVE  UpdatesInv'
<1>1. "guard" \in Proc /\ "guard" # "canceller" /\ "guard" \notin Worker
  BY UpdatesAssumption DEF Proc
<1>2. UpdatesTypeOK'
  BY <1>1 DEF UpdatesInv, UpdatesTypeOK, GuardWrites, Reads, removeVars
<1> QED
  BY <1>1, <1>2, Operations
     DEF UpdatesInv, UpdatesTypeOK, GuardWrites, Reads, removeVars

LEMMA ApplyProtectionInv ==
  ASSUME UpdatesInv, ApplyProtection
  PROVE  UpdatesInv'
<1>1. Adding("protect") \in Operation
  BY Operations DEF GuardMark
<1>2. GuardWrites(Adding("protect")) /\ role' \in {"detecting", "labels", "starting", "protector", "monitor", "none"}
  BY DEF UpdatesInv, UpdatesTypeOK, ApplyProtection
<1>3. calls' \in 0 .. MaxCalls
  BY UpdatesAssumption DEF UpdatesInv, UpdatesTypeOK, ApplyProtection
<1> QED
  BY <1>1, <1>2, <1>3, GuardWritesInv

LEMMA RemoveProtectionInv ==
  ASSUME UpdatesInv, RemoveProtection
  PROVE  UpdatesInv'
<1>1. Removing("protect") \in Operation
  BY Operations DEF GuardMark
<1>2. GuardWrites(Removing("protect")) /\ role' \in {"detecting", "labels", "starting", "protector", "monitor", "none"}
  BY DEF UpdatesInv, UpdatesTypeOK, RemoveProtection
<1>3. calls' \in 0 .. MaxCalls
  BY UpdatesAssumption DEF UpdatesInv, UpdatesTypeOK, RemoveProtection
<1> QED
  BY <1>1, <1>2, <1>3, GuardWritesInv

LEMMA TaintForScaleDownInv ==
  ASSUME UpdatesInv, TaintForScaleDown
  PROVE  UpdatesInv'
<1>1. Adding("pending") \in Operation
  BY Operations DEF GuardMark
<1>2. GuardWrites(Adding("pending")) /\ role' \in {"detecting", "labels", "starting", "protector", "monitor", "none"}
  BY DEF UpdatesInv, UpdatesTypeOK, TaintForScaleDown
<1>3. calls' \in 0 .. MaxCalls
  BY UpdatesAssumption DEF UpdatesInv, UpdatesTypeOK, TaintForScaleDown, Called
<1> QED
  BY <1>1, <1>2, <1>3, GuardWritesInv

LEMMA MarkScaleDownInv ==
  ASSUME UpdatesInv, NEW o \in Operation, MarkScaleDown(o)
  PROVE  UpdatesInv'
<1>1. GuardWrites(o) /\ role' \in {"detecting", "labels", "starting", "protector", "monitor", "none"}
  BY DEF UpdatesInv, UpdatesTypeOK, MarkScaleDown
<1>2. calls' \in 0 .. MaxCalls
  BY UpdatesAssumption DEF UpdatesInv, UpdatesTypeOK, MarkScaleDown, Called
<1> QED
  BY <1>1, <1>2, GuardWritesInv

LEMMA GetStartTimeInv ==
  ASSUME UpdatesInv, GetStartTime
  PROVE  UpdatesInv'
<1>1. CASE "start" \notin object /\ GuardWrites(Adding("start")) /\ UNCHANGED calls
  <2>1. Adding("start") \in Operation
    BY Operations DEF GuardMark
  <2>2. role' \in {"detecting", "labels", "starting", "protector", "monitor", "none"} /\ calls' \in 0 .. MaxCalls
    BY <1>1 DEF UpdatesInv, UpdatesTypeOK, GetStartTime
  <2> QED
    BY <1>1, <2>1, <2>2, GuardWritesInv
<1>2. CASE /\ IF "start" \in object THEN UNCHANGED faults ELSE Fault
           /\ UNCHANGED <<object, pc, op, copyVars, returned, removeVars, kind, expired,
                          calls>>
  <2>1. UpdatesTypeOK'
    BY <1>2, UpdatesAssumption
       DEF UpdatesInv, UpdatesTypeOK, GetStartTime, Fault, copyVars, removeVars
  <2> QED
    BY <1>2, <2>1 DEF UpdatesInv, UpdatesTypeOK, copyVars, removeVars
<1> QED
  BY <1>1, <1>2 DEF GetStartTime

LEMMA DetectionInv ==
  ASSUME UpdatesInv, detectViaASG \/ detectViaNodeLabels
  PROVE  UpdatesInv'
<1>1. /\ role' \in {"detecting", "labels", "starting", "protector", "monitor", "none"}
      /\ faults' \in 0 .. MaxFaults
  BY UpdatesAssumption
     DEF UpdatesInv, UpdatesTypeOK, detectViaASG, detectViaNodeLabels, DetectedAs,
         GuardFor, Fault
<1>2. UNCHANGED <<object, pc, op, copyVars, returned, removeVars, kind, expired, calls>>
  BY DEF detectViaASG, detectViaNodeLabels, DetectedAs
<1>3. UpdatesTypeOK'
  BY <1>1, <1>2 DEF UpdatesInv, UpdatesTypeOK, copyVars, removeVars
<1> QED
  BY <1>2, <1>3 DEF UpdatesInv, UpdatesTypeOK, copyVars, removeVars

LEMMA RestartInv ==
  ASSUME UpdatesInv, Restart
  PROVE  UpdatesInv'
<1>1. faults' \in 0 .. MaxFaults
  BY UpdatesAssumption DEF UpdatesInv, UpdatesTypeOK, Restart, Fault
<1>2. /\ stale' \in [Proc -> BOOLEAN] /\ late' \in [Proc -> BOOLEAN]
      /\ k8sStale' \in BOOLEAN
  BY DEF Restart
<1>3. UpdatesTypeOK'
  BY <1>1, <1>2 DEF UpdatesInv, UpdatesTypeOK, Restart
<1> QED
  BY <1>3 DEF UpdatesInv, UpdatesTypeOK, Restart

(***************************************************************************)
(* Every step keeps the invariant.                                         *)
(***************************************************************************)
LEMMA NextInv == UpdatesInv /\ [Next]_vars => UpdatesInv'
<1> SUFFICES ASSUME UpdatesInv, [Next]_vars PROVE UpdatesInv'
  OBVIOUS
<1>1. ASSUME NEW p \in Proc, UpdateStep(p) PROVE UpdatesInv'
  BY <1>1, UpdateAcceptedInv, UpdateFailsInv, UpdateConflictsInv DEF UpdateStep
<1>2. ASSUME NEW p \in Proc \ {"guard"}, LoopStep(p) PROVE UpdatesInv'
  BY <1>1, <1>2, RefreshInv, ReadFailsInv DEF LoopStep
<1>3. ASSUME NEW w \in Worker, StartTaint(w) \/ FetchNode(w) \/ LoopStep(w)
      PROVE  UpdatesInv'
  BY <1>2, <1>3, StartTaintInv, FetchNodeInv, UpdatesAssumption DEF Proc
<1>4. ASSUME RemovalStep PROVE UpdatesInv'
  BY <1>2, <1>4, NextTaintInv, RemovalDoneInv DEF RemovalStep, Proc
<1>5. ASSUME GuardStep PROVE UpdatesInv'
  <2>1. Adding("done") \in Operation /\ Removing("done") \in Operation
    BY Operations DEF GuardMark
  <2> QED
    BY <1>1, <1>5, <2>1, DetectionInv, ApplyProtectionInv, RemoveProtectionInv,
       GetStartTimeInv, MarkScaleDownInv, TaintForScaleDownInv
       DEF GuardStep, Proc
<1>6. CASE ProtectionExpires
  <2>1. UpdatesTypeOK'
    BY <1>6 DEF UpdatesInv, UpdatesTypeOK, ProtectionExpires, copyVars, removeVars, bounds
  <2> QED
    BY <1>6, <2>1 DEF UpdatesInv, ProtectionExpires, copyVars, removeVars, bounds
<1>7. CASE UNCHANGED vars
  BY <1>7 DEF UpdatesInv, UpdatesTypeOK, vars, copyVars, removeVars, bounds
<1> QED
  BY <1>3, <1>4, <1>5, <1>6, <1>7, StartRemovalInv, DeadlinePassesInv, RestartInv,
     OthersWriteInv DEF Next

(***************************************************************************)
(* The program counters fit the operations, and a copy that is not stale   *)
(* is the newest one, in every reachable state.                            *)
(***************************************************************************)
THEOREM Invariance == Spec => []UpdatesInv
<1>1. Init => UpdatesInv
  BY InitInv
<1>2. UpdatesInv /\ [Next]_vars => UpdatesInv'
  BY NextInv
<1> QED
  BY <1>1, <1>2, PTL DEF Spec

(***************************************************************************)
(* The refinement: every step is a step of NodeMarks or changes nothing    *)
(* that NodeMarks sees.                                                    *)
(***************************************************************************)
LEMMA UpdateRefines ==
  ASSUME UpdatesInv, NEW p \in Proc, UpdateStep(p)
  PROVE  Atomic!Next \/ UNCHANGED <<object, op, returned>>
<1>1. /\ op \in [Proc -> Operation \cup {NoCall}]
      /\ pc[p] = "update" => op[p] # Atomic!NoCall
      /\ ~stale[p] => Effect(op[p], copy[p]) = Atomic!Effect(op[p], object)
  BY DEF UpdatesInv, UpdatesTypeOK, NoCall, Atomic!NoCall, Effect, Atomic!Effect
<1>2. CASE UpdateAccepted(p)
  <2>1. Atomic!Succeed(p)
    BY <1>1, <1>2
       DEF UpdateAccepted, Write, Return, Atomic!Succeed, Atomic!Return, NoCall, Atomic!NoCall
  <2> QED
    BY <2>1 DEF Atomic!Next
<1>3. CASE UpdateFails(p)
  <2>1. Atomic!Fail(p)
    BY <1>1, <1>3
       DEF UpdateFails, Write, Return, Atomic!Fail, Atomic!Return, NoCall, Atomic!NoCall
  <2> QED
    BY <2>1 DEF Atomic!Next
<1>4. CASE UpdateConflicts(p)
  <2>1. CASE p = "guard" \/ late[p]
    <3>1. Atomic!Fail(p)
      BY <1>1, <1>4, <2>1
         DEF UpdateConflicts, Return, Atomic!Fail, Atomic!Return, NoCall, Atomic!NoCall
    <3> QED
      BY <3>1 DEF Atomic!Next
  <2> QED
    BY <1>4, <2>1 DEF UpdateConflicts
<1> QED
  BY <1>2, <1>3, <1>4 DEF UpdateStep

LEMMA LoopRefines ==
  ASSUME UpdatesInv, NEW p \in Proc, LoopStep(p)
  PROVE  Atomic!Next \/ UNCHANGED <<object, op, returned>>
<1>1. pc[p] \in {"fetch", "refresh"} => op[p] # Atomic!NoCall
  BY DEF UpdatesInv, NoCall, Atomic!NoCall
<1>2. CASE Refresh(p)
  <2>1. CASE InPlace(op[p], object)
    <3>1. object = Atomic!Effect(op[p], object)
      BY <2>1 DEF InPlace, Effect, Atomic!Effect
    <3>2. Atomic!Succeed(p)
      BY <1>1, <1>2, <2>1, <3>1
         DEF Refresh, Return, Atomic!Succeed, Atomic!Return, NoCall, Atomic!NoCall
    <3> QED
      BY <3>2 DEF Atomic!Next
  <2> QED
    BY <1>2, <2>1 DEF Refresh
<1>3. CASE ReadFails(p)
  <2>1. Atomic!Fail(p)
    BY <1>1, <1>3
       DEF ReadFails, Return, Atomic!Fail, Atomic!Return, NoCall, Atomic!NoCall
  <2> QED
    BY <2>1 DEF Atomic!Next
<1> QED
  BY <1>2, <1>3, UpdateRefines DEF LoopStep

(* A process that begins an operation does so in NodeMarks. *)
LEMMA BeginRefines ==
  ASSUME NEW p \in Proc, NEW o \in Operation,
         op[p] = NoCall, op' = [op EXCEPT ![p] = o], returned' = Nobody, UNCHANGED object
  PROVE  Atomic!Next
<1>1. Atomic!Begin(p, o)
  BY DEF Atomic!Begin, NoCall, Atomic!NoCall, Nobody, Atomic!Nobody
<1>2. o \in Atomic!Operation
  BY DEF Operation, Atomic!Operation
<1> QED
  BY <1>1, <1>2 DEF Atomic!Next

LEMMA GuardRefines ==
  ASSUME UpdatesInv, GuardStep
  PROVE  Atomic!Next \/ UNCHANGED <<object, op, returned>>
<1>1. "guard" \in Proc
  BY DEF Proc
<1>2. ASSUME NEW k \in GuardMark, GuardWrites(Adding(k)) \/ GuardWrites(Removing(k))
      PROVE  Atomic!Next
  <2>1. Adding(k) \in Operation /\ Removing(k) \in Operation
    BY Operations
  <2>2. op["guard"] = NoCall
    BY <1>1, <1>2 DEF UpdatesInv, GuardWrites
  <2> QED
    BY <1>1, <1>2, <2>1, <2>2, BeginRefines DEF GuardWrites
<1>3. CASE detectViaASG \/ detectViaNodeLabels
  BY <1>3 DEF detectViaASG, detectViaNodeLabels, DetectedAs
<1>4. CASE UpdateStep("guard")
  BY <1>1, <1>4, UpdateRefines
<1>5. CASE GetStartTime
  BY <1>2, <1>5 DEF GetStartTime, GuardMark
<1>6. CASE ApplyProtection \/ RemoveProtection \/ TaintForScaleDown
  BY <1>2, <1>6 DEF ApplyProtection, RemoveProtection, TaintForScaleDown, GuardMark
<1>7. CASE MarkScaleDown(Adding("done")) \/ MarkScaleDown(Removing("done"))
  BY <1>2, <1>7 DEF MarkScaleDown, GuardMark
<1> QED
  BY <1>3, <1>4, <1>5, <1>6, <1>7 DEF GuardStep

LEMMA WorkerRefines ==
  ASSUME UpdatesInv, NEW w \in Worker, StartTaint(w) \/ FetchNode(w) \/ LoopStep(w)
  PROVE  Atomic!Next \/ UNCHANGED <<object, op, returned>>
<1>1. w \in Proc
  BY DEF Proc
<1>2. CASE StartTaint(w)
  <2>1. Adding(TaintOf[w]) \in Operation
    BY UpdatesAssumption, Operations
  <2>2. op[w] = NoCall
    BY <1>1, <1>2 DEF UpdatesInv, StartTaint
  <2> QED
    BY <1>1, <1>2, <2>1, <2>2, BeginRefines DEF StartTaint
<1>3. CASE FetchNode(w)
  BY <1>3 DEF FetchNode
<1> QED
  BY <1>1, <1>2, <1>3, LoopRefines

LEMMA RemovalRefines ==
  ASSUME UpdatesInv, RemovalStep
  PROVE  Atomic!Next \/ UNCHANGED <<object, op, returned>>
<1>1. "canceller" \in Proc
  BY DEF Proc
<1>2. CASE NextTaint
  <2>1. Removing(Head(left)) \in Operation
    BY <1>2, Operations DEF UpdatesInv, UpdatesTypeOK, NextTaint
  <2>2. op["canceller"] = NoCall
    BY <1>1, <1>2 DEF UpdatesInv, NextTaint
  <2> QED
    BY <1>1, <1>2, <2>1, <2>2, BeginRefines DEF NextTaint
<1>3. CASE RemovalDone
  BY <1>3 DEF RemovalDone
<1> QED
  BY <1>1, <1>2, <1>3, LoopRefines DEF RemovalStep

(***************************************************************************)
(* Every step of the calls is a step of NodeMarks or leaves it unchanged.  *)
(***************************************************************************)
LEMMA NextRefines == UpdatesInv /\ [Next]_vars => [Atomic!Next]_Atomic!vars
<1> SUFFICES ASSUME UpdatesInv, [Next]_vars
             PROVE  Atomic!Next \/ UNCHANGED <<object, op, returned>>
  BY DEF Atomic!vars
<1>1. CASE Restart
  <2>1. Atomic!Stop
    BY <1>1 DEF Restart, Atomic!Stop, NoCall, Atomic!NoCall, Nobody, Atomic!Nobody
  <2> QED
    BY <2>1 DEF Atomic!Next
<1>2. ASSUME NEW S \in SUBSET Foreign, OthersWrite(S) PROVE Atomic!Next
  <2>1. Atomic!OthersWrite(S)
    BY <1>2 DEF OthersWrite, Write, Atomic!OthersWrite
  <2> QED
    BY <2>1 DEF Atomic!Next
<1>3. CASE StartRemoval
  BY <1>3 DEF StartRemoval
<1>4. ASSUME NEW p \in Proc, DeadlinePasses(p)
      PROVE  UNCHANGED <<object, op, returned>>
  BY <1>4 DEF DeadlinePasses
<1>5. CASE ProtectionExpires
  BY <1>5 DEF ProtectionExpires
<1>6. CASE UNCHANGED vars
  BY <1>6 DEF vars
<1> QED
  BY <1>1, <1>2, <1>3, <1>4, <1>5, <1>6, WorkerRefines, RemovalRefines, GuardRefines
     DEF Next

(***************************************************************************)
(* addTaint, removeTaint and the writers of annotations implement the      *)
(* atomic marking of a node, for any number of goroutines, conflicts,      *)
(* failed calls and restarts: no write of anybody is lost, and a success   *)
(* that is reported is one.                                                *)
(***************************************************************************)
THEOREM AtomicImplemented == Spec => UpdatesAtomic
<1>1. Init => Atomic!Init
  BY DEF Init, Atomic!Init, NoCall, Atomic!NoCall, Nobody, Atomic!Nobody
<1>2. UpdatesInv /\ [Next]_vars => [Atomic!Next]_Atomic!vars
  BY NextRefines
<1> QED
  BY <1>1, <1>2, Invariance, PTL DEF Spec, UpdatesAtomic, Atomic!Spec

(***************************************************************************)
(* The inductive invariant behind GuardMatchesNode: the goroutine that     *)
(* runs, the mark it is writing and the marks of the node fit the ASG.     *)
(***************************************************************************)
Unfit == CASE kind = "on-demand" -> {"protect"}
           [] kind = "spot" -> {"start", "done", "pending"}
           [] OTHER -> {}

RoleFits ==
  /\ kind = "on-demand" => role # "protector"
  /\ kind = "spot" => role \notin {"starting", "monitor"}

MarksFit == \A m \in Unfit : m \notin object /\ \A p \in Proc : op[p].key # m

GuardInv == UpdatesInv /\ RoleFits /\ MarksFit

(* No worker, and nobody else, writes a mark of the Spot Guard goroutine. *)
LEMMA UnfitMarks ==
  /\ Unfit \subseteq GuardMark
  /\ Unfit \cap (NTHTaint \cup Foreign) = {}
  /\ "none" \notin Unfit
<1>1. Unfit \subseteq {"protect", "start", "done", "pending"}
  BY DEF Unfit
<1>2. {"protect", "start", "done", "pending"} \cap NTHTaint = {}
  BY DEF NTHTaint, NTHTaints
<1> QED
  BY <1>1, <1>2, UpdatesAssumption DEF GuardMark

(* The operation that is carried out is the only one to change the marks. *)
LEMMA UpdateFits ==
  ASSUME GuardInv, NEW p \in Proc, LoopStep(p) \/ UpdateStep(p)
  PROVE  MarksFit'
<1>1. op \in [Proc -> Operation \cup {NoCall}] /\ (~stale[p] => copy[p] = object)
  BY DEF GuardInv, UpdatesInv, UpdatesTypeOK
<1>2. UNCHANGED kind
  BY DEF LoopStep, UpdateStep, Refresh, ReadFails, UpdateAccepted, UpdateFails,
         UpdateConflicts
<1>3. \A m \in object' : m \in object \/ m = op[p].key
  <2>1. UNCHANGED object \/ (~stale[p] /\ Write(Effect(op[p], copy[p])))
    BY DEF LoopStep, UpdateStep, Refresh, ReadFails, UpdateAccepted, UpdateFails,
           UpdateConflicts
  <2>2. ASSUME ~stale[p], Write(Effect(op[p], copy[p]))
        PROVE  object' = Effect(op[p], object)
    BY <1>1, <2>2 DEF Write
  <2> QED BY <2>1, <2>2 DEF Effect
<1>4. \A q \in Proc : op'[q] \in {op[q], NoCall}
  BY <1>1 DEF LoopStep, UpdateStep, Refresh, ReadFails, UpdateAccepted, UpdateFails,
         UpdateConflicts, Return
<1>5. Unfit' = Unfit /\ NoCall.key = "none"
  BY <1>2 DEF Unfit, NoCall
<1> QED
  BY <1>3, <1>4, <1>5, UnfitMarks DEF GuardInv, MarksFit

(* An operation on a fitting mark may begin. *)
LEMMA BeginFits ==
  ASSUME GuardInv, NEW p \in Proc, NEW o,
         op' = [op EXCEPT ![p] = o], o.key \notin Unfit, UNCHANGED <<object, kind>>
  PROVE  MarksFit'
<1>1. op \in [Proc -> Operation \cup {NoCall}]
  BY DEF GuardInv, UpdatesInv, UpdatesTypeOK
<1>2. Unfit' = Unfit
  BY DEF Unfit
<1> QED
  BY <1>1, <1>2 DEF GuardInv, MarksFit

(***************************************************************************)
(* detectViaNodeLabels reads a node of an ASG rightly, whichever of the    *)
(* three labels it has.                                                    *)
(***************************************************************************)
LEMMA LabelsAgree ==
  ASSUME NEW g \in {"spot", "on-demand"}, NEW l \in Labels(g),
         \E k \in LabelKey : l[k] # "absent"
  PROVE  LabelsSayOnDemand(l) <=> g = "on-demand"
<1>1. ASSUME NEW k \in LabelKey, l[k] # "absent"
      PROVE  l[k] \in (IF g = "spot" THEN SaysSpot[k] ELSE SaysOnDemand[k])
  BY <1>1 DEF Labels
<1>2. /\ SaysSpot["karpenter"] = {"spot"} /\ SaysSpot["eks"] = {"SPOT"}
      /\ SaysSpot["lifecycle"] = {"spot"}
      /\ SaysOnDemand["karpenter"] = {"on-demand", "reserved"}
      /\ SaysOnDemand["eks"] = {"ON_DEMAND"}
      /\ SaysOnDemand["lifecycle"] = {"on-demand", "normal"}
  BY DEF SaysSpot, SaysOnDemand, LabelKey
<1> QED
  BY <1>1, <1>2 DEF LabelsSayOnDemand, LabelKey

LEMMA GuardFits ==
  ASSUME GuardInv, GuardStep
  PROVE  RoleFits' /\ MarksFit'
<1>1. "guard" \in Proc /\ kind \in Types
  BY DEF Proc, GuardInv, UpdatesInv, UpdatesTypeOK
<1>2. CASE detectViaASG \/ detectViaNodeLabels
  <2>1. UNCHANGED <<object, op, kind>>
    BY <1>2 DEF detectViaASG, detectViaNodeLabels, DetectedAs
  <2>2. RoleFits'
    <3>1. CASE detectViaASG
      BY <1>1, <2>1, <3>1, UpdatesAssumption
         DEF RoleFits, detectViaASG, DetectedAs, GuardFor
    <3>2. CASE detectViaNodeLabels /\ role' = "none"
      BY <3>2 DEF RoleFits
    <3>3. CASE detectViaNodeLabels /\ role' # "none"
      <4>1. PICK l \in Labels(kind) :
              /\ \E k \in LabelKey : l[k] # "absent"
              /\ role' = GuardFor(IF LabelsSayOnDemand(l) THEN "on-demand" ELSE "spot")
        BY <3>3 DEF detectViaNodeLabels, DetectedAs
      <4>2. kind \in {"spot", "on-demand"} => (LabelsSayOnDemand(l) <=> kind = "on-demand")
        BY <4>1, LabelsAgree
      <4> QED BY <2>1, <4>1, <4>2 DEF RoleFits, GuardFor
    <3> QED BY <1>2, <3>1, <3>2, <3>3
  <2> QED
    BY <2>1, <2>2 DEF GuardInv, MarksFit, Unfit
<1>3. CASE UpdateStep("guard")
  <2>1. RoleFits'
    BY <1>3 DEF GuardInv, RoleFits, UpdateStep, UpdateAccepted, UpdateFails,
                UpdateConflicts
  <2> QED
    BY <1>1, <1>3, <2>1, UpdateFits
<1>4. ASSUME NEW k \in {"protect", "start", "done", "pending"}, k \notin Unfit,
             GuardWrites(Adding(k)) \/ GuardWrites(Removing(k))
      PROVE  MarksFit'
  <2>1. Adding(k).key = k /\ Removing(k).key = k
    BY DEF Adding, Removing
  <2> QED
    BY <1>1, <1>4, <2>1, BeginFits DEF GuardWrites
<1>5. CASE ApplyProtection \/ RemoveProtection
  <2>1. "protect" \notin Unfit
    BY <1>5 DEF Unfit, GuardInv, RoleFits, ApplyProtection, RemoveProtection
  <2>2. MarksFit'
    BY <1>4, <1>5, <2>1 DEF ApplyProtection, RemoveProtection
  <2> QED
    BY <1>5, <2>2 DEF GuardInv, RoleFits, ApplyProtection, RemoveProtection, GuardWrites
<1>6. CASE GetStartTime
  <2>1. "start" \notin Unfit
    BY <1>6 DEF Unfit, GuardInv, RoleFits, GetStartTime
  <2>2. MarksFit'
    BY <1>4, <1>6, <2>1 DEF GetStartTime, GuardInv, MarksFit, Unfit
  <2> QED
    BY <1>6, <2>2 DEF GuardInv, RoleFits, GetStartTime, GuardWrites
<1>7. CASE \/ MarkScaleDown(Adding("done")) \/ MarkScaleDown(Removing("done"))
           \/ TaintForScaleDown
  <2>1. "done" \notin Unfit /\ "pending" \notin Unfit
    BY <1>7 DEF Unfit, GuardInv, RoleFits, MarkScaleDown, TaintForScaleDown
  <2>2. MarksFit'
    BY <1>4, <1>7, <2>1 DEF MarkScaleDown, TaintForScaleDown
  <2> QED
    BY <1>7, <2>2 DEF GuardInv, RoleFits, MarkScaleDown, TaintForScaleDown, GuardWrites
<1> QED
  BY <1>2, <1>3, <1>5, <1>6, <1>7 DEF GuardStep

LEMMA TaintingFits ==
  ASSUME GuardInv,
         \/ \E w \in Worker : StartTaint(w) \/ FetchNode(w) \/ LoopStep(w)
         \/ StartRemoval
         \/ RemovalStep
  PROVE  MarksFit'
<1>1. "canceller" \in Proc /\ \A w \in Worker : w \in Proc
  BY DEF Proc
<1>2. ASSUME NEW w \in Worker, StartTaint(w) PROVE MarksFit'
  <2>1. Adding(TaintOf[w]).key \notin Unfit
    BY UnfitMarks, UpdatesAssumption DEF Adding
  <2> QED
    BY <1>1, <1>2, <2>1, BeginFits DEF StartTaint
<1>3. ASSUME NEW w \in Worker, FetchNode(w) PROVE MarksFit'
  BY <1>3 DEF FetchNode, GuardInv, MarksFit, Unfit
<1>4. CASE NextTaint
  <2>1. Removing(Head(left)).key \notin Unfit
    <3>1. left \in Seq(NTHTaint) /\ left # << >>
      BY <1>4 DEF NextTaint, GuardInv, UpdatesInv, UpdatesTypeOK
    <3>2. Head(left) \in NTHTaint
      BY <3>1
    <3> QED BY <3>2, UnfitMarks DEF Removing
  <2> QED
    BY <1>1, <1>4, <2>1, BeginFits DEF NextTaint
<1>5. CASE StartRemoval \/ RemovalDone
  BY <1>5 DEF StartRemoval, RemovalDone, GuardInv, MarksFit, Unfit
<1>6. ASSUME NEW p \in Proc, LoopStep(p) PROVE MarksFit'
  BY <1>6, UpdateFits
<1> QED
  BY <1>1, <1>2, <1>3, <1>4, <1>5, <1>6 DEF RemovalStep

(***************************************************************************)
(* The invariant is inductive.                                             *)
(***************************************************************************)
LEMMA NextFits == GuardInv /\ [Next]_vars => GuardInv'
<1> SUFFICES ASSUME GuardInv, [Next]_vars PROVE RoleFits' /\ MarksFit'
  BY NextInv DEF GuardInv
<1>1. CASE GuardStep
  BY <1>1, GuardFits
<1>2. CASE \/ \E w \in Worker : StartTaint(w) \/ FetchNode(w) \/ LoopStep(w)
           \/ StartRemoval
           \/ RemovalStep
  <2>1. UNCHANGED <<role, kind>>
    BY <1>2 DEF StartTaint, FetchNode, LoopStep, StartRemoval, RemovalStep, NextTaint,
                RemovalDone, UpdateStep, Refresh, ReadFails, UpdateAccepted,
                UpdateFails, UpdateConflicts
  <2> QED
    BY <1>2, <2>1, TaintingFits DEF GuardInv, RoleFits
<1>3. CASE Restart
  <2>1. Unfit' = Unfit /\ NoCall.key = "none"
    BY <1>3 DEF Restart, Unfit, NoCall
  <2>2. MarksFit'
    BY <1>3, <2>1, UnfitMarks DEF Restart, GuardInv, MarksFit
  <2> QED
    BY <1>3, <2>2 DEF Restart, RoleFits
<1>4. ASSUME NEW S \in SUBSET Foreign, OthersWrite(S) PROVE RoleFits' /\ MarksFit'
  <2>1. Unfit' = Unfit
    BY <1>4 DEF OthersWrite, Unfit
  <2>2. MarksFit'
    BY <1>4, <2>1, UnfitMarks DEF OthersWrite, Write, GuardInv, MarksFit
  <2> QED
    BY <1>4, <2>2 DEF OthersWrite, GuardInv, RoleFits
<1>5. CASE ProtectionExpires \/ (\E p \in Proc : DeadlinePasses(p))
  BY <1>5 DEF ProtectionExpires, DeadlinePasses, GuardInv, RoleFits, MarksFit, Unfit
<1>6. CASE UNCHANGED vars
  BY <1>6 DEF vars, GuardInv, RoleFits, MarksFit, Unfit
<1> QED
  BY <1>1, <1>2, <1>3, <1>4, <1>5, <1>6 DEF Next

(***************************************************************************)
(* IsOnDemandNode: whatever calls fail, a node of the on-demand ASG is     *)
(* never protected against the cluster autoscaler and one of the spot ASG  *)
(* is never scaled down by itself, if the labels do not contradict the     *)
(* ASG.                                                                    *)
(***************************************************************************)
THEOREM GuardFitsNode == Spec => []GuardMatchesNode
<1>1. Init => GuardInv
  <2> SUFFICES ASSUME Init PROVE RoleFits /\ MarksFit
    BY InitInv DEF GuardInv
  <2>1. RoleFits
    BY DEF Init, RoleFits
  <2>2. MarksFit
    BY UnfitMarks DEF Init, MarksFit, NoCall
  <2> QED
    BY <2>1, <2>2
<1>2. GuardInv /\ [Next]_vars => GuardInv'
  BY NextFits
<1>3. GuardInv => GuardMatchesNode
  BY DEF GuardInv, MarksFit, Unfit, GuardMatchesNode
<1> QED
  BY <1>1, <1>2, <1>3, PTL DEF Spec
=============================================================================
