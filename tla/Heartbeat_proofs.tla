-------------------------- MODULE Heartbeat_proofs --------------------------
(***************************************************************************)
(* Proofs that the heartbeats keep the lifecycle hook alive and end        *)
(* promptly, for every interval, timeout and delay that satisfies the      *)
(* assumptions of Heartbeat.  The inductive invariant is HeartbeatInv.     *)
(***************************************************************************)
EXTENDS Heartbeat, TLAPS

(* One more heartbeat that fails takes one more interval of the margin. *)
LEMMA IntervalsAdd ==
  \A l \in Nat :
    (l + 2) * HeartbeatInterval = (l + 1) * HeartbeatInterval + HeartbeatInterval
BY HeartbeatAssumption

(* The margin is more than the delay of the goroutine that serves a tick. *)
LEMMA MarginLeft ==
  ASSUME NEW l \in 0 .. MaxLost
  PROVE  /\ (l + 1) * HeartbeatInterval \in Nat
         /\ HeartbeatTimeout - StartDelay - (l + 1) * HeartbeatInterval > Latency
<1>1. (l + 1) * HeartbeatInterval \in Nat /\ (MaxLost + 1) * HeartbeatInterval \in Nat
  BY HeartbeatAssumption
<1>2. (l + 1) * HeartbeatInterval <= (MaxLost + 1) * HeartbeatInterval
  BY HeartbeatAssumption
<1>3. QED
  BY <1>1, <1>2, HeartbeatAssumption, TimeoutLongEnough

(* The global timeout is no shorter than that of a heartbeat. *)
LEMMA GlobalRoom == GlobalTimeout \in Nat /\ HeartbeatTimeout <= GlobalTimeout
BY GlobalTimeoutAssumption

(* The invariant holds before the worker takes the event up. *)
LEMMA InitInv == Init => HeartbeatInv
<1> SUFFICES ASSUME Init PROVE HeartbeatInv
  OBVIOUS
<1>1. tickReady \in BOOLEAN /\ stopCh \in BOOLEAN /\ cancelCh \in BOOLEAN
  BY DEF Init
<1>2. QED
  BY <1>1, HeartbeatAssumption, GlobalRoom
     DEF Init, MaxOverdue, MaxLate, HeartbeatInv, HeartbeatTypeOK, BeforeStart, Running

(* While the goroutine runs the hook has time left. *)
LEMMA HookHasTime ==
  ASSUME HeartbeatInv, Running, hook = "waiting"
  PROVE  hookIn > 0
<1>1. lost \in 0 .. MaxLost BY DEF HeartbeatInv, HeartbeatTypeOK, MaxOverdue, MaxLate
<1>2. Margin \in Int /\ Margin > Latency
  BY <1>1, MarginLeft, HeartbeatAssumption DEF Margin
<1>3. tickReady => nextTick >= HeartbeatInterval - Latency
  BY HeartbeatAssumption DEF HeartbeatInv, HeartbeatTypeOK, MaxOverdue, MaxLate, TickServed
<1>4. QED
  BY <1>2, <1>3, HeartbeatAssumption
     DEF HeartbeatInv, HeartbeatTypeOK, MaxOverdue, MaxLate, HookOutlivesBeat

(* The worker's callbacks only start the goroutine, or close a channel. *)
LEMMA WorkerInv ==
  ASSUME HeartbeatInv, WorkerNext
  PROVE  HeartbeatInv'
<1> USE HeartbeatAssumption, GlobalRoom
        DEF HeartbeatInv, HookKeptAlive, HeartbeatTypeOK, MaxOverdue, MaxLate, BeforeStart, Running,
            Ready, timers, counters
<1>1. CASE PreDrainTask
  BY <1>1, IntervalsAdd DEF PreDrainTask, TickServed, HookOutlivesBeat, Margin, EndIsNear
<1>2. CASE Drained
  BY <1>2 DEF Drained, TickServed, HookOutlivesBeat, Margin, EndIsNear, JustServed
<1>3. CASE DrainFails
  BY <1>3 DEF DrainFails, TickServed, HookOutlivesBeat, Margin, EndIsNear, JustServed
<1>4. CASE CancelDrainTask
  BY <1>4 DEF CancelDrainTask, TickServed, HookOutlivesBeat, Margin, EndIsNear, JustServed
<1>5. CASE PostDrainTask
  BY <1>5 DEF PostDrainTask, TickServed, HookOutlivesBeat, Margin, EndIsNear, JustServed
<1>6. CASE PostDrainTaskFails
  BY <1>6 DEF PostDrainTaskFails, TickServed, HookOutlivesBeat, Margin, EndIsNear,
              JustServed
<1>7. QED
  BY <1>1, <1>2, <1>3, <1>4, <1>5, <1>6 DEF WorkerNext

(* Every case of the select keeps the invariant. *)
LEMMA SelectInv ==
  ASSUME HeartbeatInv, SendHeartbeats
  PROVE  HeartbeatInv'
<1> USE HeartbeatAssumption, GlobalRoom
        DEF HeartbeatInv, HookKeptAlive, HeartbeatTypeOK, MaxOverdue, MaxLate, Running
<1>1. CASE Running /\ Return
  <2>1. tickReady' \in BOOLEAN BY <1>1 DEF Return
  <2>2. QED BY <1>1, <2>1 DEF Return, BeforeStart, counters
<1>2. CASE Beat
  <2>0. tickReady' \in BOOLEAN BY <1>2 DEF Beat
  <2>1. TickServed' /\ HeartbeatTypeOK'
    BY <1>2, <2>0 DEF Beat, TickServed, Ready
  <2>2. HookOutlivesBeat'
    BY <1>2, IntervalsAdd DEF Beat, HookOutlivesBeat, Margin
  <2>3. EndIsNear' /\ late' <= 1
    BY <1>2 DEF Beat, EndIsNear, JustServed, TickServed
  <2>4. QED
    BY <1>2, <2>1, <2>2, <2>3 DEF Beat, BeforeStart
<1>3. CASE BeatLost
  <2>0. tickReady' \in BOOLEAN BY <1>3 DEF BeatLost
  <2>1. TickServed' /\ HeartbeatTypeOK'
    BY <1>3, <2>0 DEF BeatLost, TickServed, Ready
  <2>2. HookOutlivesBeat'
    BY <1>3, IntervalsAdd DEF BeatLost, HookOutlivesBeat, Margin
  <2>3. EndIsNear' /\ late' <= 1
    BY <1>3 DEF BeatLost, EndIsNear, JustServed, TickServed
  <2>4. QED
    BY <1>3, <2>1, <2>2, <2>3 DEF BeatLost, BeforeStart
<1>4. QED
  BY <1>1, <1>2, <1>3 DEF SendHeartbeats, Closed, Deadline, BeatInvalid

(* While the goroutine runs, the hook runs out of its global timeout only. *)
LEMMA ExpiryInv ==
  ASSUME HeartbeatInv, HookExpires
  PROVE  HeartbeatInv'
<1> USE HeartbeatAssumption, GlobalRoom
        DEF HeartbeatInv, HeartbeatTypeOK, MaxOverdue, MaxLate, HookExpires, TimeLeft
<1>1. Running => globalIn = 0
  BY HookHasTime
<1>2. worker # "queued"
  BY TimeoutLongEnough, MarginLeft DEF BeforeStart
<1>3. QED
  BY <1>1, <1>2
     DEF HookKeptAlive, Running, Ready, TickServed, HookOutlivesBeat, EndIsNear, JustServed,
         timers, counters

(* A unit of time passes for the ticker, the deadline and the hook. *)
LEMMA TickInv ==
  ASSUME HeartbeatInv, Tick
  PROVE  HeartbeatInv'
<1> USE HeartbeatAssumption, GlobalRoom
        DEF HeartbeatInv, HookKeptAlive, HeartbeatTypeOK, MaxOverdue, MaxLate, Tick, TimeLeft,
            counters
<1>1. CASE ~Running
  BY <1>1 DEF Ticker, Running, BeforeStart, Ready
<1>2. CASE Running
  <2> USE <1>2 DEF Running, Ticker
  <2>1. nextTick = 1 => ~tickReady
    <3>1. TickServed /\ readyFor <= Latency /\ readyFor \in Nat OBVIOUS
    <3>2. Ready => readyFor < Latency OBVIOUS
    <3>3. tickReady => readyFor < Latency BY <3>2 DEF Ready
    <3>4. QED BY <3>1, <3>3 DEF TickServed
  <2>2. HeartbeatTypeOK'
    BY DEF Ready
  <2>3. TickServed'
    BY <2>1 DEF TickServed, Ready
  <2>4. HookOutlivesBeat'
    <3>1. Margin' = Margin /\ Margin \in Int
      BY MarginLeft DEF Margin
    <3>2. tickReady' <=> (tickReady \/ nextTick = 1)
      OBVIOUS
    <3>3. nextTick \in Int /\ hookIn \in Int /\ HookOutlivesBeat
      OBVIOUS
    <3>4. CASE nextTick = 1
      <4>1. tickReady' /\ ~tickReady /\ nextTick' = HeartbeatInterval
        BY <3>4, <3>2, <2>1
      <4>2. QED
        BY <4>1, <3>4, <3>1, <3>3 DEF HookOutlivesBeat
    <3>5. CASE nextTick # 1
      <4>1. (tickReady' <=> tickReady) /\ nextTick' = nextTick - 1
        BY <3>5, <3>2
      <4>2. QED
        BY <4>1, <3>1, <3>3 DEF HookOutlivesBeat
    <3>6. QED BY <3>4, <3>5
  <2>5. JustServed /\ Ready => JustServed'
    BY DEF JustServed, Ready
  <2>6. EndIsNear'
    BY <2>5 DEF EndIsNear, Ready, TickServed
  <2>7. QED
    BY <2>2, <2>3, <2>4, <2>6 DEF BeforeStart
<1>3. QED
  BY <1>1, <1>2

(* The invariant is inductive. *)
LEMMA NextInv == HeartbeatInv /\ [Next]_vars => HeartbeatInv'
<1> SUFFICES ASSUME HeartbeatInv, [Next]_vars PROVE HeartbeatInv'
  OBVIOUS
<1>1. CASE WorkerNext BY <1>1, WorkerInv
<1>2. CASE SendHeartbeats BY <1>2, SelectInv
<1>3. CASE HookExpires BY <1>3, ExpiryInv
<1>4. CASE Tick BY <1>4, TickInv
<1>5. CASE UNCHANGED vars
  BY <1>5 DEF vars, timers, counters, MaxOverdue, MaxLate, HeartbeatInv, HookKeptAlive,
              HeartbeatTypeOK, BeforeStart,
              Running, Ready, TickServed, HookOutlivesBeat, Margin, EndIsNear, JustServed
<1>6. QED
  BY <1>1, <1>2, <1>3, <1>4, <1>5 DEF Next

(* HeartbeatInv is an invariant of the heartbeats of a termination event. *)
THEOREM Invariance == Spec => []HeartbeatInv
BY InitInv, NextInv, PTL DEF Spec

(***************************************************************************)
(* For every configuration whose timeout is long enough, the hook does not *)
(* expire while SendHeartbeats runs, up to the hook's global timeout.      *)
(***************************************************************************)
THEOREM HookKept == Spec => []HookKeptAlive
<1>1. HeartbeatInv => HookKeptAlive BY DEF HeartbeatInv, HookKeptAlive
<1>2. QED BY <1>1, Invariance, PTL

(***************************************************************************)
(* SendHeartbeats sends at most one heartbeat after a channel was closed,  *)
(* and overruns its deadline by two scheduling delays at most.             *)
(***************************************************************************)
THEOREM PromptEnd == Spec => []StopsPromptly
<1>1. HeartbeatInv => StopsPromptly
  BY HeartbeatAssumption
     DEF HeartbeatInv, HeartbeatTypeOK, MaxOverdue, MaxLate, StopsPromptly, EndIsNear, Running
<1>2. QED BY <1>1, Invariance, PTL
=============================================================================
