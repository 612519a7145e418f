----------------------------- MODULE Heartbeat ------------------------------
(***************************************************************************)
(* Lifecycle heartbeats of one ASG termination event                       *)
(* (pkg/monitor/sqsevent/asg-lifecycle-event.go).                          *)
(*                                                                         *)
(* The pre-drain task starts SendHeartbeats, a goroutine that renews the   *)
(* lifecycle hook on every tick of a ticker until a deadline.  It ends     *)
(* when the post-drain task closes stopCh or the cancel-drain task closes  *)
(* cancelCh.  Time is discrete.  All timers count down in Tick.            *)
(***************************************************************************)
EXTENDS Integers

CONSTANTS
  HeartbeatInterval, HeartbeatUntil,  \* the configuration, in units of time
  Unit,              \* seconds in a unit of time
  HeartbeatTimeout,  \* of the lifecycle hook, from its start or its last heartbeat
  GlobalTimeout,     \* of the lifecycle hook, from its start whatever is done
  StartDelay,        \* bound: from the start of the hook to the pre-drain task
  Latency,           \* bound: how long a goroutine waits for its turn and its call
  MaxLost            \* bound: heartbeats that fail one after the other

(* ParseCliArgs accepts the configuration. *)
ValidHeartbeat ==
  /\ HeartbeatInterval * Unit \in 30 .. 3600
  /\ HeartbeatUntil * Unit \in 60 .. 172800
  /\ HeartbeatInterval <= HeartbeatUntil

ASSUME HeartbeatAssumption ==
  /\ HeartbeatInterval \in Nat \ {0} /\ HeartbeatUntil \in Nat \ {0}
  /\ HeartbeatTimeout \in Nat /\ StartDelay \in Nat
  /\ Latency \in Nat /\ MaxLost \in Nat /\ Unit \in Nat
  /\ ValidHeartbeat
  /\ 2 * Latency < HeartbeatInterval

(* The smaller of 48 hours and 100 heartbeat timeouts, in whole units. *)
ASSUME GlobalTimeoutAssumption ==
  /\ GlobalTimeout \in Nat /\ HeartbeatTimeout <= GlobalTimeout
  /\ GlobalTimeout * Unit <= 172800 /\ GlobalTimeout <= 100 * HeartbeatTimeout
  /\ (GlobalTimeout + 1) * Unit > 172800 \/ GlobalTimeout = 100 * HeartbeatTimeout

(***************************************************************************)
(* The timeout of the hook leaves room for the start, for the heartbeats   *)
(* that may fail, and for the next one.                                    *)
(***************************************************************************)
ASSUME TimeoutLongEnough ==
  StartDelay + (MaxLost + 1) * HeartbeatInterval + Latency < HeartbeatTimeout

VARIABLES
  worker,      \* what the event's worker is doing
  hook,        \* state of the lifecycle action
  hookIn,      \* time until the hook expires without a heartbeat
  globalIn,    \* time until it expires with or without heartbeats
  heartbeat,   \* SendHeartbeats: not started, running or returned
  nextTick,    \* time until the ticker fires
  tickReady,   \* ticker.C holds a tick
  untilIn,     \* time until the deadline; the timeout channel is ready at 0
  readyFor,    \* how long the select has had a case it could take
  overdue,     \* how long the goroutine has run since the deadline
  stopCh, cancelCh,  \* whether the channel is closed
  lost,        \* heartbeats that failed since the last one that did not
  late         \* heartbeats sent since a channel was closed

(* Bounds of the counters, beyond what StopsPromptly allows. *)
MaxOverdue == 2 * Latency + 1
MaxLate == 2

timers == <<hookIn, globalIn, nextTick, tickReady, untilIn, readyFor, overdue>>
counters == <<lost, late>>
vars == <<worker, hook, heartbeat, timers, stopCh, cancelCh, counters>>

HeartbeatTypeOK ==
  /\ worker \in {"queued", "draining", "completing", "failed", "returned"}
  /\ hook \in {"waiting", "continued", "expired"}
  /\ hookIn \in 0 .. HeartbeatTimeout /\ globalIn \in 0 .. GlobalTimeout
  /\ heartbeat \in {"off", "on", "returned"}
  /\ nextTick \in 1 .. HeartbeatInterval
  /\ tickReady \in BOOLEAN
  /\ untilIn \in 0 .. HeartbeatUntil
  /\ readyFor \in 0 .. Latency
  /\ overdue \in 0 .. MaxOverdue
  /\ stopCh \in BOOLEAN /\ cancelCh \in BOOLEAN
  /\ lost \in 0 .. MaxLost
  /\ late \in 0 .. MaxLate

Init ==
  /\ worker = "queued"
  /\ hook = "waiting" /\ hookIn = HeartbeatTimeout /\ globalIn = GlobalTimeout
  /\ heartbeat = "off"
  /\ nextTick = HeartbeatInterval /\ tickReady = FALSE
  /\ untilIn = HeartbeatUntil
  /\ readyFor = 0 /\ overdue = 0
  /\ stopCh = FALSE /\ cancelCh = FALSE
  /\ lost = 0 /\ late = 0

-----------------------------------------------------------------------------
(* The worker's callbacks *)

PreDrainTask ==
  /\ worker = "queued"
  /\ worker' = "draining"
  /\ heartbeat' = "on"
  /\ UNCHANGED <<hook, timers, stopCh, cancelCh, counters>>

Drained ==
  /\ worker = "draining"
  /\ worker' = "completing"
  /\ UNCHANGED <<hook, heartbeat, timers, stopCh, cancelCh, counters>>

DrainFails ==
  /\ worker = "draining"
  /\ worker' = "failed"
  /\ UNCHANGED <<hook, heartbeat, timers, stopCh, cancelCh, counters>>

CancelDrainTask ==
  /\ worker = "failed"
  /\ cancelCh' = TRUE
  /\ worker' = "returned"
  /\ UNCHANGED <<hook, heartbeat, timers, stopCh, counters>>

(* The lifecycle action is completed after a delay, before stopCh is closed. *)
PostDrainTask ==
  /\ worker = "completing"
  /\ hook = "waiting"
  /\ hook' = "continued"
  /\ stopCh' = TRUE
  /\ worker' = "returned"
  /\ UNCHANGED <<heartbeat, timers, cancelCh, counters>>

(* The completion fails: the task returns, and closes nothing. *)
PostDrainTaskFails ==
  /\ worker = "completing"
  /\ worker' = "returned"
  /\ UNCHANGED <<hook, heartbeat, timers, stopCh, cancelCh, counters>>

-----------------------------------------------------------------------------
(* SendHeartbeats: one action per case of the select *)

Running == heartbeat = "on"

Ready == Running /\ (tickReady \/ untilIn = 0 \/ stopCh \/ cancelCh)

(* Mutant: a break that leaves the select and not the loop. *)
BreakSelect ==
  /\ tickReady' = FALSE
  /\ readyFor' = 0
  /\ UNCHANGED <<worker, hook, heartbeat, hookIn, globalIn, nextTick, untilIn, overdue,
                 stopCh, cancelCh, counters>>

Return ==
  /\ heartbeat' = "returned"
  /\ tickReady' = FALSE
  /\ readyFor' = 0
  /\ UNCHANGED <<worker, hook, hookIn, globalIn, nextTick, untilIn, overdue, stopCh,
                 cancelCh, counters>>

Closed == Running /\ (stopCh \/ cancelCh) /\ Return

Deadline == Running /\ untilIn = 0 /\ Return

(* A heartbeat renews the hook while it is waiting. *)
Beat ==
  /\ Running /\ tickReady
  /\ hook = "waiting"
  /\ hookIn' = HeartbeatTimeout
  /\ tickReady' = FALSE
  /\ readyFor' = 0
  /\ lost' = 0
  /\ late' = IF (stopCh \/ cancelCh) /\ late < MaxLate THEN late + 1 ELSE late
  /\ UNCHANGED <<worker, hook, globalIn, heartbeat, nextTick, untilIn, overdue, stopCh,
                 cancelCh>>

(* Mutant: the goroutine skips a tick after a heartbeat that failed. *)
BeatLostBackoff ==
  /\ Running /\ tickReady
  /\ lost < MaxLost
  /\ tickReady' = FALSE
  /\ readyFor' = 0
  /\ nextTick' = nextTick + HeartbeatInterval
  /\ lost' = lost + 1
  /\ UNCHANGED <<worker, hook, hookIn, globalIn, heartbeat, untilIn, overdue, stopCh,
                 cancelCh, late>>

(* Mutant: a heartbeat that failed is sent again at once. *)
BeatLostRetries ==
  /\ Running /\ tickReady
  /\ lost < MaxLost
  /\ readyFor' = 0
  /\ lost' = lost + 1
  /\ late' = IF (stopCh \/ cancelCh) /\ late < MaxLate THEN late + 1 ELSE late
  /\ UNCHANGED <<worker, hook, hookIn, globalIn, heartbeat, nextTick, tickReady, untilIn,
                 overdue, stopCh, cancelCh>>

(* A heartbeat fails with an error other than ValidationError: go on. *)
BeatLost ==
  /\ Running /\ tickReady
  /\ lost < MaxLost
  /\ tickReady' = FALSE
  /\ readyFor' = 0
  /\ lost' = lost + 1
  /\ late' = IF (stopCh \/ cancelCh) /\ late < MaxLate THEN late + 1 ELSE late
  /\ UNCHANGED <<worker, hook, hookIn, globalIn, heartbeat, nextTick, untilIn, overdue,
                 stopCh, cancelCh>>

(* The hook is over: ValidationError ends the goroutine. *)
BeatInvalid == Running /\ tickReady /\ hook # "waiting" /\ Return

SendHeartbeats == Closed \/ Deadline \/ Beat \/ BeatLost \/ BeatInvalid

-----------------------------------------------------------------------------
(* Time *)

TimeLeft == hookIn > 0 /\ globalIn > 0

HookExpires ==
  /\ hook = "waiting" /\ ~TimeLeft
  /\ hook' = "expired"
  /\ UNCHANGED <<worker, heartbeat, timers, stopCh, cancelCh, counters>>

Ticker ==
  IF Running
  THEN /\ nextTick' = IF nextTick = 1 THEN HeartbeatInterval ELSE nextTick - 1
       /\ tickReady' = (tickReady \/ nextTick = 1)
       /\ untilIn' = IF untilIn = 0 THEN 0 ELSE untilIn - 1
       /\ readyFor' = IF Ready THEN readyFor + 1 ELSE 0
       /\ overdue' = IF untilIn = 0 /\ overdue < MaxOverdue
                      THEN overdue + 1 ELSE overdue
  ELSE UNCHANGED <<nextTick, tickReady, untilIn, readyFor, overdue>>

Tick ==
  /\ hook = "waiting" => TimeLeft
  /\ worker = "queued" => hookIn > HeartbeatTimeout - StartDelay
  /\ Ready => readyFor < Latency
  /\ IF hook = "waiting" THEN hookIn' = hookIn - 1 /\ globalIn' = globalIn - 1
                         ELSE UNCHANGED <<hookIn, globalIn>>
  /\ Ticker
  /\ UNCHANGED <<worker, hook, heartbeat, stopCh, cancelCh, counters>>

WorkerNext ==
  \/ PreDrainTask \/ Drained \/ DrainFails \/ CancelDrainTask
  \/ PostDrainTask \/ PostDrainTaskFails

Next == WorkerNext \/ SendHeartbeats \/ HookExpires \/ Tick

Spec == Init /\ [][Next]_vars

(* Time passes, and a goroutine that can run does. *)
LiveSpec == Spec /\ WF_vars(Tick) /\ WF_vars(SendHeartbeats) /\ WF_vars(HookExpires)
                 /\ WF_vars(PreDrainTask)

-----------------------------------------------------------------------------
(* Properties *)

(***************************************************************************)
(* The hook does not expire while the goroutine sends heartbeats, although *)
(* MaxLost heartbeats in a row fail, before the global timeout of the hook *)
(* is over: HeartbeatUntil may be longer than that.                        *)
(***************************************************************************)
HookKeptAlive == (Running /\ hook = "expired") => globalIn = 0

(***************************************************************************)
(* When several cases of the select are ready, Go takes any of them: a     *)
(* heartbeat may be sent after a channel was closed or after the deadline, *)
(* but only one.  So a failed drain lets the hook expire, and the deadline *)
(* is overrun by no more than two scheduling delays.                       *)
(***************************************************************************)
StopsPromptly == late <= 1 /\ (Running => overdue <= 2 * Latency)

(* The select has been ready for as long as its tick, and waits no longer. *)
TickServed ==
  /\ readyFor > 0 => Ready
  /\ tickReady => HeartbeatInterval - nextTick <= readyFor

(* Room that is left for further failures when "lost" heartbeats failed. *)
Margin == HeartbeatTimeout - StartDelay - (lost + 1) * HeartbeatInterval

(* The hook outlives the next heartbeat that can renew it. *)
HookOutlivesBeat ==
  hook = "waiting" =>
    hookIn >= nextTick + Margin - (IF tickReady THEN HeartbeatInterval ELSE 0)

(* A heartbeat was served while something else was ready: none is near. *)
JustServed ==
  /\ ~tickReady
  /\ nextTick + readyFor >= HeartbeatInterval - Latency

(* A goroutine that is to end has sent no heartbeat since, or one just now. *)
EndIsNear ==
  /\ late > 0 => (late = 1 /\ (stopCh \/ cancelCh) /\ JustServed)
  /\ untilIn > 0 => overdue = 0
  /\ \/ overdue <= readyFor
     \/ overdue <= Latency + readyFor /\ JustServed

BeforeStart ==
  /\ heartbeat = "off" /\ hook = "waiting"
  /\ hookIn >= HeartbeatTimeout - StartDelay
  /\ globalIn = GlobalTimeout - HeartbeatTimeout + hookIn
  /\ nextTick = HeartbeatInterval /\ ~tickReady /\ untilIn = HeartbeatUntil
  /\ readyFor = 0 /\ overdue = 0 /\ lost = 0 /\ late = 0
  /\ ~stopCh /\ ~cancelCh

(* The facts HookKeptAlive and StopsPromptly rest on, together inductive. *)
HeartbeatInv ==
  /\ HeartbeatTypeOK
  /\ worker = "queued" => BeforeStart
  /\ heartbeat = "off" => worker = "queued"
  /\ late <= 1
  /\ Running => TickServed /\ HookOutlivesBeat /\ EndIsNear /\ HookKeptAlive

(* The goroutine ends, although nobody may ever close a channel. *)
HeartbeatEnds == Running ~> ~Running
=============================================================================
