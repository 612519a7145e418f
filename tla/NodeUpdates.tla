---------------------------- MODULE NodeUpdates -----------------------------
(***************************************************************************)
(* How NTH changes the Node object in the API server, call by call.        *)
(*                                                                         *)
(* Several goroutines mark one node: workers taint it (addTaint), the      *)
(* handling of a cancellation and the startup remove the taints again      *)
(* (RemoveNTHTaints), and the Spot Guard goroutine annotates it: the       *)
(* cluster autoscaler protection on a spot node, the self-monitor on an    *)
(* on-demand node.  Each of them reads the object, changes its copy and    *)
(* sends the whole copy back.  The API server refuses a copy that is not   *)
(* of the newest version; taints are then tried again until a deadline,    *)
(* annotations are not.                                                    *)
(*                                                                         *)
(* The object is the set of its marks.  A copy carries the flag "stale"    *)
(* instead of a resource version: has the object been written since?       *)
(***************************************************************************)
EXTENDS Naturals, Sequences

CONSTANTS
  Worker,       \* workers that taint the node
  TaintOf,      \* Worker -> the taint of the event it handles
  Foreign,      \* marks of other programs
  Types,        \* the groups the node may be of: "spot", "on-demand" or "none"
  MaxCalls,     \* bound: calls that mark the node, but for protection
  MaxFaults     \* bound: failed calls and restarts of the process

NTHTaints == <<"spot", "scheduled", "asg", "rebalance">>

NTHTaint == {NTHTaints[i] : i \in 1 .. 4} \cup {"out-of-service"}

GuardMark == {"protect", "start", "done", "pending"}

Mark == NTHTaint \cup GuardMark \cup Foreign

ASSUME UpdatesAssumption ==
  /\ TaintOf \in [Worker -> NTHTaint]
  /\ Foreign \cap (NTHTaint \cup GuardMark) = {}
  /\ "canceller" \notin Worker /\ "guard" \notin Worker
  /\ "none" \notin Mark
  /\ Types \subseteq {"spot", "on-demand", "none"}
  /\ MaxCalls \in Nat /\ MaxFaults \in Nat

Proc == Worker \cup {"canceller", "guard"}

VARIABLES
  object,       \* the marks of the node
  pc,           \* Proc -> program counter
  op,           \* Proc -> the operation it is in
  copy,         \* Proc -> freshNode: the marks in its copy of the object
  stale,        \* Proc -> the object was written after the copy was read
  late,         \* Proc -> the retry deadline has passed
  returned,     \* who returned from an operation last, and with which result
  k8sNode,      \* the copy RemoveNTHTaints fetched ...
  k8sStale,     \* ... and whether it is stale
  left,         \* taints RemoveNTHTaints still has to remove
  role,         \* what the Spot Guard goroutine is
  kind,         \* the ASG of the node
  expired,      \* the protection period is over
  calls, faults

copyVars == <<copy, stale, late>>
removeVars == <<k8sNode, k8sStale, left>>
bounds == <<calls, faults>>
vars == <<object, pc, op, copyVars, returned, removeVars, role, kind, expired, bounds>>

NoCall == [key |-> "none", adds |-> FALSE]

Nobody == <<"none", "none">>

Adding(k) == [key |-> k, adds |-> TRUE]

Removing(k) == [key |-> k, adds |-> FALSE]

Operation == [key : Mark \ Foreign, adds : BOOLEAN]

Effect(o, S) == IF o.adds THEN S \cup {o.key} ELSE S \ {o.key}

UpdatesTypeOK ==
  /\ object \subseteq Mark
  /\ pc \in [Proc -> {"idle", "fetch", "next", "refresh", "update"}]
  /\ op \in [Proc -> Operation \cup {NoCall}]
  /\ copy \in [Proc -> SUBSET Mark]
  /\ stale \in [Proc -> BOOLEAN] /\ late \in [Proc -> BOOLEAN]
  /\ returned \in (Proc \X {"ok", "error"}) \cup {Nobody}
  /\ k8sNode \subseteq Mark /\ k8sStale \in BOOLEAN
  /\ left \in Seq(NTHTaint)
  /\ role \in {"detecting", "labels", "starting", "protector", "monitor", "none"}
  /\ kind \in Types
  /\ expired \in BOOLEAN
  /\ calls \in 0 .. MaxCalls
  /\ faults \in 0 .. MaxFaults

(***************************************************************************)
(* The program counters fit the operations, and a copy that is not stale   *)
(* is the object: that is why the API server may store it whole.           *)
(***************************************************************************)
UpdatesInv ==
  /\ UpdatesTypeOK
  /\ \A p \in Proc :
       /\ op[p] = NoCall <=> pc[p] \in {"idle", "next"}
       /\ pc[p] = "fetch" => p \in Worker
       /\ pc[p] = "next" => p = "canceller"
       /\ p = "guard" => pc[p] \in {"idle", "update"}
       /\ ~stale[p] => copy[p] = object
  /\ ~k8sStale => k8sNode = object

Init ==
  /\ object \in SUBSET Foreign
  /\ pc = [p \in Proc |-> "idle"]
  /\ op = [p \in Proc |-> NoCall]
  /\ copy = [p \in Proc |-> {}]
  /\ stale = [p \in Proc |-> TRUE] /\ late = [p \in Proc |-> FALSE]
  /\ returned = Nobody
  /\ k8sNode = {} /\ k8sStale = TRUE /\ left = <<>>
  /\ role = "detecting"
  /\ kind \in Types
  /\ expired = FALSE
  /\ calls = 0 /\ faults = 0

-----------------------------------------------------------------------------
(* The API server *)

Fault == faults < MaxFaults /\ faults' = faults + 1

Called == calls < MaxCalls /\ calls' = calls + 1

(* Every write gives the object a new version: all copies are stale. *)
Write(S) ==
  /\ object' = S
  /\ stale' = [p \in Proc |-> TRUE]
  /\ k8sStale' = TRUE

(***************************************************************************)
(* Somebody else writes the object: the kubelet its status, a controller a *)
(* taint, NTH itself a label or the cordon.  The last two are patches, so  *)
(* they need no version and change nothing else.                           *)
(***************************************************************************)
OthersWrite(S) ==
  /\ Write((object \ Foreign) \cup S)
  /\ UNCHANGED <<pc, op, copy, late, returned, k8sNode, left, role, kind, expired,
                 bounds>>

(* Process p has a new copy of the object. *)
Reads(p) ==
  /\ copy' = [copy EXCEPT ![p] = object]
  /\ stale' = [stale EXCEPT ![p] = FALSE]

(***************************************************************************)
(* The operation of p ends.  RemoveNTHTaints goes on to the next taint,    *)
(* unless there was an error.                                              *)
(***************************************************************************)
Return(p, r) ==
  /\ pc' = [pc EXCEPT ![p] = IF p = "canceller" /\ r = "ok" THEN "next" ELSE "idle"]
  /\ op' = [op EXCEPT ![p] = NoCall]
  /\ returned' = <<p, r>>

(* The update is accepted. *)
UpdateAccepted(p) ==
  /\ pc[p] = "update" /\ ~stale[p]
  /\ Write(Effect(op[p], copy[p]))
  /\ Return(p, "ok")
  /\ UNCHANGED <<copy, late, k8sNode, left, role, kind, expired, bounds>>

(* The update fails, or it is applied and the answer is lost. *)
UpdateFails(p) ==
  /\ pc[p] = "update"
  /\ Fault
  /\ \/ ~stale[p] /\ Write(Effect(op[p], copy[p]))
     \/ UNCHANGED <<object, stale, k8sStale>>
  /\ Return(p, "error")
  /\ UNCHANGED <<copy, late, k8sNode, left, role, kind, expired, calls>>

-----------------------------------------------------------------------------
(* addTaint and removeTaint: the loop they share *)

(* Is there nothing to change in the copy? *)
InPlace(o, S) == Effect(o, S) = S

(* The object is read again. An unchanged newest copy ends the operation. *)
Refresh(p) ==
  /\ pc[p] = "refresh"
  /\ Reads(p)
  /\ IF InPlace(op[p], object)
     THEN Return(p, "ok")
     ELSE /\ pc' = [pc EXCEPT ![p] = "update"]
          /\ UNCHANGED <<op, returned>>
  /\ UNCHANGED <<object, late, removeVars, role, kind, expired, bounds>>

ReadFails(p) ==
  /\ pc[p] \in {"fetch", "refresh"}
  /\ Fault
  /\ Return(p, "error")
  /\ UNCHANGED <<object, copyVars, removeVars, role, kind, expired, calls>>

(* Mutant: a conflict is taken for a sign that somebody else did it. *)
UpdateConflictsIgnored(p) ==
  /\ pc[p] = "update" /\ stale[p]
  /\ Return(p, "ok")
  /\ UNCHANGED <<object, copyVars, removeVars, role, kind, expired, bounds>>

(* Mutant: the deadline is not looked at. *)
UpdateConflictsForever(p) ==
  /\ pc[p] = "update" /\ stale[p]
  /\ IF p = "guard"
     THEN Return(p, "error")
     ELSE /\ pc' = [pc EXCEPT ![p] = "refresh"]
          /\ UNCHANGED <<op, returned>>
  /\ UNCHANGED <<object, copyVars, removeVars, role, kind, expired, bounds>>

(***************************************************************************)
(* The API server refuses the stale copy.  A taint is tried again before   *)
(* the deadline; the Spot Guard goroutine does not try again.              *)
(***************************************************************************)
UpdateConflicts(p) ==
  /\ pc[p] = "update" /\ stale[p]
  /\ IF p = "guard" \/ late[p]
     THEN Return(p, "error")
     ELSE /\ pc' = [pc EXCEPT ![p] = "refresh"]
          /\ UNCHANGED <<op, returned>>
  /\ UNCHANGED <<object, copyVars, removeVars, role, kind, expired, bounds>>

(* maxRetryDeadline passes. *)
DeadlinePasses(p) ==
  /\ p # "guard"
  /\ pc[p] \in {"refresh", "update"}
  /\ ~late[p]
  /\ late' = [late EXCEPT ![p] = TRUE]
  /\ UNCHANGED <<object, pc, op, copy, stale, returned, removeVars, role, kind, expired,
                 bounds>>

-----------------------------------------------------------------------------
(* TaintSpotItn and the like *)

StartTaint(w) ==
  /\ pc[w] = "idle"
  /\ Called
  /\ pc' = [pc EXCEPT ![w] = "fetch"]
  /\ op' = [op EXCEPT ![w] = Adding(TaintOf[w])]
  /\ late' = [late EXCEPT ![w] = FALSE]
  /\ returned' = Nobody
  /\ UNCHANGED <<object, copy, stale, removeVars, role, kind, expired,
                 faults>>

(* A copy that has the taint already is not trusted: the node is read again. *)
FetchNode(w) ==
  /\ w \in Worker
  /\ pc[w] = "fetch"
  /\ Reads(w)
  /\ pc' = [pc EXCEPT ![w] = IF InPlace(op[w], object) THEN "refresh" ELSE "update"]
  /\ UNCHANGED <<object, op, late, returned, removeVars, role, kind, expired, bounds>>

-----------------------------------------------------------------------------
(* RemoveNTHTaints *)

(* The node is fetched once, for all the taints. *)
StartRemoval ==
  /\ pc["canceller"] = "idle"
  /\ Called
  /\ \/ /\ k8sNode' = object /\ k8sStale' = FALSE
        /\ left' = NTHTaints
        /\ pc' = [pc EXCEPT !["canceller"] = "next"]
        /\ UNCHANGED faults
     \/ Fault /\ UNCHANGED <<pc, removeVars>>
  /\ UNCHANGED <<object, op, copyVars, returned, role, kind, expired>>

(* Mutant: the copy is sent without its version, so it is never refused. *)
NextTaintForced ==
  /\ pc["canceller"] = "next"
  /\ left # <<>>
  /\ LET o == Removing(Head(left))
     IN  /\ op' = [op EXCEPT !["canceller"] = o]
         /\ pc' = [pc EXCEPT !["canceller"] =
                     IF InPlace(o, k8sNode) THEN "refresh" ELSE "update"]
  /\ left' = Tail(left)
  /\ copy' = [copy EXCEPT !["canceller"] = k8sNode]
  /\ stale' = [stale EXCEPT !["canceller"] = FALSE]
  /\ late' = [late EXCEPT !["canceller"] = FALSE]
  /\ returned' = Nobody
  /\ UNCHANGED <<object, k8sNode, k8sStale, role, kind, expired, bounds>>

(* removeTaint starts from the copy that was fetched before the first taint. *)
NextTaint ==
  /\ pc["canceller"] = "next"
  /\ left # <<>>
  /\ LET o == Removing(Head(left))
     IN  /\ op' = [op EXCEPT !["canceller"] = o]
         /\ pc' = [pc EXCEPT !["canceller"] =
                     IF InPlace(o, k8sNode) THEN "refresh" ELSE "update"]
  /\ left' = Tail(left)
  /\ copy' = [copy EXCEPT !["canceller"] = k8sNode]
  /\ stale' = [stale EXCEPT !["canceller"] = k8sStale]
  /\ late' = [late EXCEPT !["canceller"] = FALSE]
  /\ returned' = Nobody
  /\ UNCHANGED <<object, k8sNode, k8sStale, role, kind, expired, bounds>>

RemovalDone ==
  /\ pc["canceller"] = "next"
  /\ left = <<>>
  /\ pc' = [pc EXCEPT !["canceller"] = "idle"]
  /\ UNCHANGED <<object, op, copyVars, returned, removeVars, role, kind, expired, bounds>>

-----------------------------------------------------------------------------
(* The Spot Guard goroutine *)

(* The goroutine main starts for a node of this kind. *)
GuardFor(type) == IF type = "on-demand" THEN "starting" ELSE "protector"

DetectedAs(r) ==
  /\ role' = r
  /\ UNCHANGED <<object, pc, op, copyVars, returned, removeVars, kind, expired, calls>>

(***************************************************************************)
(* IsOnDemandNode, at startup: the ASG of the instance decides (an         *)
(* instance in no ASG counts as spot), and when it cannot be told, the     *)
(* labels of the node.  When both fail, neither goroutine is started.      *)
(***************************************************************************)
detectViaASG ==
  /\ role = "detecting"
  /\ \/ DetectedAs(GuardFor(kind)) /\ UNCHANGED faults
     \/ DetectedAs("labels") /\ Fault

(***************************************************************************)
(* The three labels a node may carry.  Each comes from another program,    *)
(* which has values of its own for spot and for on-demand capacity.        *)
(***************************************************************************)
LabelKey == {"karpenter", "eks", "lifecycle"}

LabelValue == {"spot", "SPOT", "on-demand", "ON_DEMAND", "reserved", "normal"}

SaysSpot == [k \in LabelKey |-> IF k = "eks" THEN {"SPOT"} ELSE {"spot"}]

SaysOnDemand ==
  [k \in LabelKey |-> CASE k = "karpenter" -> {"on-demand", "reserved"}
                        [] k = "eks" -> {"ON_DEMAND"}
                        [] k = "lifecycle" -> {"on-demand", "normal"}]

(* The labels a node of group g may carry, any of them or none. *)
Labels(g) ==
  {l \in [LabelKey -> LabelValue \cup {"absent"}] :
     \A k \in LabelKey : \/ l[k] = "absent"
                         \/ g # "on-demand" /\ l[k] \in SaysSpot[k]
                         \/ g # "spot" /\ l[k] \in SaysOnDemand[k]}

(* Mutant: all three keys are tested alike. *)
LabelsSayAlike(l) ==
  IF l["karpenter"] # "absent" THEN l["karpenter"] # "spot"
  ELSE IF l["eks"] # "absent" THEN l["eks"] # "spot"
  ELSE l["lifecycle"] # "spot"

(* The first label there is decides, and each key is tested in its own way. *)
LabelsSayOnDemand(l) ==
  IF l["karpenter"] # "absent" THEN l["karpenter"] # "spot"
  ELSE IF l["eks"] # "absent" THEN l["eks"] = "ON_DEMAND"
  ELSE l["lifecycle"] # "spot"

(* Get fails, or there is no label to go by, or one decides. *)
detectViaNodeLabels ==
  /\ role = "labels"
  /\ \/ DetectedAs("none") /\ Fault
     \/ \E l \in Labels(kind) :
          /\ DetectedAs(IF \A k \in LabelKey : l[k] = "absent" THEN "none"
                        ELSE GuardFor(IF LabelsSayOnDemand(l) THEN "on-demand" ELSE "spot"))
          /\ UNCHANGED faults

(* The goroutine reads the node, and has something to write. *)
GuardWrites(o) ==
  /\ pc["guard"] = "idle"
  /\ Reads("guard")
  /\ op' = [op EXCEPT !["guard"] = o]
  /\ pc' = [pc EXCEPT !["guard"] = "update"]
  /\ returned' = Nobody
  /\ UNCHANGED <<object, late, removeVars, kind, expired, faults>>

(* Mutant: protection is applied whether the period is over or not. *)
ApplyProtectionAlways ==
  /\ role = "protector"
  /\ "protect" \notin object
  /\ GuardWrites(Adding("protect"))
  /\ UNCHANGED <<role, calls>>

(* checkAndApplyProtection, every five minutes. *)
ApplyProtection ==
  /\ role = "protector" /\ ~expired
  /\ "protect" \notin object
  /\ GuardWrites(Adding("protect"))
  /\ UNCHANGED <<role, calls>>

RemoveProtection ==
  /\ role = "protector" /\ expired
  /\ "protect" \in object
  /\ GuardWrites(Removing("protect"))
  /\ UNCHANGED <<role, calls>>

(* getOrCreateStartTime, once: whether it is read, written or neither. *)
GetStartTime ==
  /\ role = "starting"
  /\ role' = "monitor"
  /\ \/ "start" \notin object /\ GuardWrites(Adding("start")) /\ UNCHANGED calls
     \/ /\ IF "start" \in object THEN UNCHANGED faults ELSE Fault
        /\ UNCHANGED <<object, pc, op, copyVars, returned, removeVars, kind, expired,
                       calls>>

(* markScaleDownInitiated and clearScaleDownMarker write in any case. *)
MarkScaleDown(o) ==
  /\ role = "monitor"
  /\ Called
  /\ GuardWrites(o)
  /\ UNCHANGED role

(* taintNode of the scale-down executor *)
TaintForScaleDown ==
  /\ role = "monitor"
  /\ "pending" \notin object
  /\ Called
  /\ GuardWrites(Adding("pending"))
  /\ UNCHANGED role

ProtectionExpires ==
  /\ ~expired
  /\ expired' = TRUE
  /\ UNCHANGED <<object, pc, op, copyVars, returned, removeVars, role, kind, bounds>>

(* The process ends, wherever its goroutines are, and starts again. *)
Restart ==
  /\ Fault
  /\ pc' = [p \in Proc |-> "idle"]
  /\ op' = [p \in Proc |-> NoCall]
  /\ copy' = [p \in Proc |-> {}]
  /\ stale' = [p \in Proc |-> TRUE] /\ late' = [p \in Proc |-> FALSE]
  /\ returned' = Nobody
  /\ k8sNode' = {} /\ k8sStale' = TRUE /\ left' = <<>>
  /\ role' = "detecting"
  /\ UNCHANGED <<object, kind, expired, calls>>

-----------------------------------------------------------------------------

UpdateStep(p) ==
  \/ UpdateAccepted(p)
  \/ UpdateFails(p)
  \/ UpdateConflicts(p)

LoopStep(p) == Refresh(p) \/ ReadFails(p) \/ UpdateStep(p)

RemovalStep == NextTaint \/ RemovalDone \/ LoopStep("canceller")

GuardStep ==
  \/ detectViaASG
  \/ detectViaNodeLabels
  \/ ApplyProtection
  \/ RemoveProtection
  \/ GetStartTime
  \/ MarkScaleDown(Adding("done"))
  \/ MarkScaleDown(Removing("done"))
  \/ TaintForScaleDown
  \/ UpdateStep("guard")

Next ==
  \/ \E w \in Worker : StartTaint(w) \/ FetchNode(w) \/ LoopStep(w)
  \/ StartRemoval
  \/ RemovalStep
  \/ GuardStep
  \/ \E p \in Proc : DeadlinePasses(p)
  \/ ProtectionExpires
  \/ Restart
  \/ \E S \in SUBSET Foreign : OthersWrite(S)

Spec == Init /\ [][Next]_vars

(***************************************************************************)
(* Fairness.  A call that was begun is gone on with, time passes, and the  *)
(* protector's ticker ticks.  Others may write the object at any moment,   *)
(* but not each time between the Get and the Update of the protector,      *)
(* which follow each other at once and minutes after the last ones.        *)
(***************************************************************************)
Fairness ==
  /\ \A w \in Worker : WF_vars(FetchNode(w) \/ LoopStep(w))
  /\ WF_vars(RemovalStep)
  /\ WF_vars(detectViaASG \/ detectViaNodeLabels \/ UpdateStep("guard"))
  /\ WF_vars(ApplyProtection \/ RemoveProtection)
  /\ SF_vars(UpdateAccepted("guard"))
  /\ \A p \in Proc : WF_vars(DeadlinePasses(p))
  /\ WF_vars(ProtectionExpires)

LiveSpec == Spec /\ Fairness

-----------------------------------------------------------------------------
(* Properties *)

Atomic == INSTANCE NodeMarks
            WITH Client <- Proc, marks <- object, call <- op

(***************************************************************************)
(* The functions that mark the node do what NodeMarks promises, although   *)
(* each of them writes the whole object back: no update of another         *)
(* goroutine or program is lost, a mark is changed at most once per call,  *)
(* and addTaint and removeTaint report success only when the mark is as    *)
(* they were asked to make it.                                             *)
(***************************************************************************)
UpdatesAtomic == Atomic!Spec

(***************************************************************************)
(* The protection against the cluster autoscaler is taken off in the end   *)
(* by removeProtection, although conflicts are not tried again before the  *)
(* next tick and an update that was decided before the expiry may come     *)
(* after it.                                                               *)
(***************************************************************************)
ProtectionEnds == <>[](role = "protector" => "protect" \notin object)

(***************************************************************************)
(* Every tainting and every removal of the taints returns: the retry       *)
(* deadline ends a loop that keeps losing the race.                        *)
(***************************************************************************)
TaintingEnds ==
  \A p \in Proc \ {"guard"} : (pc[p] # "idle") ~> (pc[p] = "idle")

(***************************************************************************)
(* IsOnDemandNode: a node of the on-demand ASG is never protected against  *)
(* the cluster autoscaler, and one of the spot ASG never scaled down by    *)
(* its own monitor, although the calls that tell them apart may fail and   *)
(* the labels that decide then spell the same fact in different ways.      *)
(***************************************************************************)
GuardMatchesNode ==
  /\ kind = "on-demand" => "protect" \notin object
  /\ kind = "spot" => object \cap {"start", "done", "pending"} = {}

(***************************************************************************)
(* self_monitor.go: "Return the time anyway, we'll try to update again     *)
(* next cycle".                                                            *)
(***************************************************************************)
StartTimeRecorded == (role = "monitor") ~> ("start" \in object)
=============================================================================
