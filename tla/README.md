# A TLA+ model of the AWS Node Termination Handler

The program in `src/` is a Kubernetes agent. It learns that an EC2 instance
is about to be interrupted, cordons and drains the node, and then lets the
interruption go on. This fork adds *Spot Guard*: it replaces an interrupted
spot instance and later removes the on-demand instances that stood in for it.

This directory models the parts of the program that have state and
concurrency. TLC checks them on small instances, and TLAPS proves some of
the properties for every instance.

- [The system and its parts](#the-system-and-its-parts)
- [Modules](#modules)
- [Runs](#runs)
- [Bounds, symmetry and views](#bounds-symmetry-and-views)
- [Fairness](#fairness)
- [Proofs](#proofs)
- [Where the code and its documentation differ](#where-the-code-and-its-documentation-differ)
- [Not modelled](#not-modelled)
- [Plan](#plan)

## The system and its parts

```
 IMDS pollers ──┐                                 ┌── node operations (API server)
 (per node)     ├─> interruptionChan ─> event ──> main loop ─> worker goroutines
 SQS monitor  ──┘   cancelChan       ─> store       (W slots)      │
 (per cluster)                                                     └── post-drain: complete the
                                                                       lifecycle hook, delete the
                                                                       message
 Spot Guard: pre-drain task of a rebalance recommendation ─> spot and on-demand groups
             self-monitor of an on-demand node            ─> spot and on-demand groups
```

| part | source | module | what is modelled |
|---|---|---|---|
| event store | `pkg/interruptioneventstore` | `EventStore` | every operation; events are heap objects, like the pointers of the code |
| main loop, watchers, both handlers | `cmd/node-termination-handler.go`, `pkg/interruptionevent` | `Dispatcher` | each blocking call of a handler is a step that may fail |
| queue processor | `pkg/monitor/sqsevent` | `SqsQueue` | messages, redelivery, dropped and rejected messages, lifecycle hooks, the error threshold, restarts |
| lifecycle heartbeats | `asg-lifecycle-event.go` | `Heartbeat` | the goroutine, its ticker, its limits and the two timeouts of the hook, in ticks of a clock |
| node operations | `pkg/node` | `KubeNode` | cordon, drain, labels, taints of one node, each call an update |
| writes of the Node object | `pkg/node`, `pkg/spotguard` | `NodeUpdates` | read, change, send back: stale copies, conflicts, retries, the deadline |
| cluster autoscaler protection, node detection | `ca_protection.go`, `node_detector.go` | `NodeUpdates` | the Spot Guard goroutine that `main` starts, and what it writes |
| metadata client | `pkg/ec2metadata` | `Ec2Metadata` | the token shared by the monitors, its lock, refresh, rejection and outages |
| IMDS monitors, reboot handling | `pkg/monitor/*`, `cmd` | `ImdsMode` | the pollers, pre-drain tasks, start-up, cancellation, pod restarts, reboots |
| Auto Scaling groups | external | `AutoScaling` | desired capacity, launch, termination, spot supply |
| Spot Guard scale-up | `pkg/spotguard/spotguard.go` | `ScaleUp` | `ScaleUpWithFallback` call by call, in several pods |
| Spot Guard self-monitor | `pkg/spotguard/self_monitor.go` and the checkers it calls | `SelfMonitor` | one check cycle call by call, in several nodes |
| capacity calculations | `health_checker.go`, `safety_checker.go` | `Capacity` | the arithmetic, with float64 rounding and division by zero |

`PROJECT.json` maps each definition to the lines it stands for, and lists the
hazards of the code with the properties that address them.

## Modules

`Dispatcher` EXTENDS `EventStore`. `SqsQueue` and `ImdsMode` EXTEND
`Dispatcher` and give its inputs and calls their meaning: the two modes the
program runs in. `ImdsMode` also EXTENDS `KubeNode`. `ScaleUp` and
`SelfMonitor` EXTEND `AutoScaling`. `Heartbeat`, `Capacity`, `NodeUpdates` and
`Ec2Metadata` stand alone.

Two modules are abstract. `EventLifecycle` says what the dispatcher promises
for one event, and `Dispatcher` implements it. `NodeMarks` says what a function
that marks the node promises, and `NodeUpdates` implements it.

**EventStore.** `interruptionEventStore` maps an EventID to an object;
`ignoredEvents`, `atLeastOneEvent` and `callsSinceLastClean` are the fields of
`Store`. The fields of an event are functions on objects (`sent`, `due`,
`inProgress`, `nodeProcessed`). The store and a worker hold the *same* object.
An event that is cancelled and sent again is another object with the same ID.
Each operation is atomic, because the store's lock is held during it.

**Dispatcher.** `mainPc` is the position of the main loop, `slots` the length
of the channel `interruptionEventStore.Workers`, `picked` the event that
`GetActiveEvent` returned, `pc[o]` the position of the worker that handles
`o`. A handler is split at each call that leaves the process: `GetNodeName`,
`GetNodeLabels`, `PreDrain`, `Cordon`, `Drain`, `CancelDrainTask`, `Mark`,
`PostDrain`, `TaintOutOfService`. The parameter `ok` says whether the call
succeeded. `watcher` and `cancelPc` are the goroutines that read the two
channels. The cancellation goroutine asks the store and then uncordons, in
separate steps.

**SqsQueue.** The monitor receives a batch, resolves each message to events
(or drops or rejects it), and sends the events to the store. A message that
is not deleted becomes visible again. `stale` and `continued` belong to the
worker: its receipt handle is out of date, it has completed the hook.
`StaleHandlesWork` chooses what SQS does with an old handle. `Crash` loses
the memory of the process and leaves the queue, the hooks and the node as
they are; a crash between completing the hook and deleting the message is
one of the interleavings. `drained` holds the nodes of which a cordon or drain
*succeeded*; with the API server's cache a drain may succeed without evicting
anything (see KubeNode), and what the properties say is then no more than that.

**ImdsMode.** There is one poller per kind of notice. `startPc` follows
`handleRebootUncordon` through its retries, one API call at a time. `task[o]`
follows the pre-drain task of a worker (mark the event, taint, mark the
action and its time). `Crash` restarts the pod, and `Reboot` the node: labels,
taints and the cordon survive both. In `NodeBackInService` and
`RebootedEventIgnored` the reboot is the one the notice announced.
`UncordonedOnce` says that a start-up leaves no label behind by which a later
one would uncordon the node again.

**Heartbeat.** Time is a countdown per timer (`nextTick`, `untilIn`,
`hookIn`, `globalIn`). A heartbeat sets `hookIn` back and leaves `globalIn`
alone: the global timeout of a hook (48 hours or 100 heartbeat timeouts,
`README.md` of the repository) ends it whatever is sent. `Tick` may not pass a deadline. A Go ticker holds one tick;
`tickReady` is that buffer. When several cases of the `select` are ready, any
one may be taken. `Latency` bounds how long the goroutine takes to act, and
`StartDelay` the age of the hook when it starts.

**ScaleUp, SelfMonitor.** Each call to AWS or Kubernetes is one step, so that
pods interleave between reading and writing a desired capacity. `ScaleUp` splits the
scale-up and takes the self-monitor's decrement as one step; `SelfMonitor`
does it the other way round. Timeouts are
modelled as steps that become possible once the wait has begun. Periods that a property is about
(minimum wait, stability) are counters. In `SelfMonitor` a node is `closed`
(tainted or cordoned) and has `pods` or not. The drain of the scale-down passes no
event recorder, so with the API server's cache it evicts nothing (`DrainEvicts`).
The wait for the termination of the node may give up at any moment before the
node is gone.

**Capacity.** A question is drawn from a finite domain and answered once. The
float64 quotient before `math.Ceil` is a choice between the exact value and
the next integer when the quotient is an integer. `Exceeds` says what a
division by zero or by a negative number does in a comparison, and a
utilisation exactly at the limit may be rounded to either side (`AtLimit`). The
questions include a cluster without other nodes and a node that is not ready.

**EventLifecycle.** An event is `absent`, `waiting`, `taken`, `settled` or
`abandoned`. It is taken by one of at most `Workers` workers. That worker
settles it, gives it up (it is forgotten, so that the next announcement starts
over) or abandons it; settled events are collected. In the refinement mapping
`Phase(id)` reads the phase off the store, the flags of the object and the
position of its worker. Only exclusive IDs are mapped: events that nobody but
their worker takes out of the store. `abandoned` is how the code leaves an
event after a failed `GetNodeName`, and every launch event: in
progress in the store, with no worker.

**NodeMarks, NodeUpdates.** The Node object is the set of its marks: taints, the
annotations of Spot Guard and marks of other programs. A process holds a copy
and the flag `stale`, which stands for an old resource version; every write
makes all copies stale, and an update from a stale copy is refused.
`FetchNode`, `Refresh`, `UpdateAccepted`, `UpdateFails`, `UpdateConflicts` and
`DeadlinePasses` are the loop that `addTaint` and `removeTaint` share.
`RemoveNTHTaints` fetches the node once for all the taints (`k8sNode`), so each
removal after the first successful one meets a conflict. The goroutine
`guard` first detects what the node is (`role`), and then protects it against
the autoscaler or is its self-monitor; it never retries a conflict. When the
ASG cannot be asked, the labels decide: `Labels` are the values that Karpenter,
EKS and node set-ups give to a node of the group, any of the three keys
absent, and `LabelsSayOnDemand` tests each key as the code does. An
update may be applied although its answer is lost. In `NodeMarks` a call sets
its mark in one step, at most once, and reports success only when the mark is
in place.

**Ec2Metadata.** A token is the time for which the service still accepts it.
`tokenTTL` is what the client believes and does not count down. `pc` follows
`Request` from the unlocked check (`CheckToken`) to the answer; the lock is held
from `LockToken` until the token is cached. A second attempt carries the headers of
both tokens, since the code adds to the request's header; the service may look at
either. The token is read twice, to test it and to add it (`TestToken`,
`AddToken`), and may be dropped in between; an empty one is then sent, which the
service refuses. In an outage the service answers nothing, or only its token
requests go unanswered (`issues`) and the client goes on without a token. `Torn` is the data race on the string `v2Token`: its outcome in the build
is an invalid memory access, which ends the process (`Crash`). It takes an
outage to reach it.

**KubeNode, AutoScaling.** In `KubeNode` a node update is one step, which
`NodeUpdates` justifies: it shows that the updates behave as if they were.
`EvictPods` is the drain: with the API server's cache it evicts what was listed for the
event recorder, that is nothing without a recorder, and perhaps nothing with one
when the list fails or is old. The Auto Scaling groups
are external and are modelled from how the code calls them; which instance a
group terminates is the group's choice.

## Runs

`tlc -config X.cfg M` for a configuration and module of a row.

| configuration | module | states | properties | what it shows |
|---|---|---|---|---|
| `Dispatcher.cfg` | `MCDispatcher` | 1.0 M | `SlotAccounting`, `IgnoredNeverHandled`, `DispatcherInv`, `WaitingEventKept`, `LifecycleKept` | One worker and the events of three nodes (a termination, maintenance that can be cancelled, a launch), with arrivals, cancellations, a SIGTERM, ageing and failures in any order: the worker slots are accounted for, an ignored event is never handled, a waiting event is not forgotten, and each exclusive event goes through the life cycle of EventLifecycle. |
| `SqsTerminate.cfg` | `MCSqsQueue` | 277 k | `EveryMessageDeleted`, `NoInterruptionLost`, `ContinuedOnlyWhenDone` | The lifecycle message of a termination, with redeliveries, a failed call and a crash, for an instance that ends in the end: the message is deleted and the hook completed only when the node was drained, and under fairness the message leaves the queue. |
| `SqsLaunch.cfg` | `MCSqsQueue` | 2.2 M | `ContinuedOnlyWhenDone`, `NoConcurrentHandling` | Two workers and a launch message for a node that joins at any time, beside a test message and one the monitor rejects, with redeliveries and failed calls up to the error threshold: the launch hook is completed only for a ready node, and no two workers handle one event. |
| `Heartbeat.cfg` | `Heartbeat` | 184 k | `HookKeptAlive`, `StopsPromptly`, `HeartbeatInv`, `HeartbeatEnds` | A heartbeat goroutine with late ticks, slow calls and a lost heartbeat: the hook is kept alive while heartbeats are sent, up to the global timeout that no heartbeat extends; heartbeats stop promptly and at the configured limit. |
| `ImdsReboot.cfg` | `MCImdsMode` | 264 k | `RebootedEventIgnored`, `UncordonedOnce`, `NodeBackInService`, `EndedMaintenanceUncordons` | A maintenance reboot of the node: after it the event is ignored, the node is put back in service once and for all, and ended maintenance uncordons the node. |
| `ImdsOperator.cfg` | `MCImdsMode` | 1.6 M | `OperatorCordonKept` | A node that the operator had cordoned is not uncordoned after the reboot, with a failed call and a restart of the pod. |
| `ImdsSpot.cfg` | `MCImdsMode` | 121 k | `InterruptionHandled`, `ProcessedMeansDrained` | A spot interruption and an ASG termination of one node, with a failed call and a restart of the pod: an event counts as processed only once the node was drained, and under fairness a notice that stays up is handled. |
| `ScaleUp.cfg` | `MCScaleUp` | 1.2 M | `PreDrainTaskEnds`, `SuccessHasInstance`, `GrowthBounded` | Two pods scale up at once, with an outage, a change of the spot supply and an instance that is reclaimed or scaled down on the way: success is reported only after a new instance, a group never grows by more than its requests, and under fairness every pre-drain task ends. |
| `SelfMonitor.cfg` | `MCSelfMonitor` | 680 k | `SelfMonitorInv`, `MinimumWaitKept`, `LoweredOnlyAfterDrain`, `ScaleDownCompletes` | One on-demand node and a second one that a fallback may add, with pre-scale, a flap or loss of spot capacity, a load change, a failed call and a restart: a node is closed only after its minimum wait, the group is made smaller only by a monitor whose own node is drained, and once spot capacity is back for good the group goes down to its minimum. |
| `Capacity.cfg` | `Capacity` | 113 k | `PreScaleSuffices`, `PreScaleNeverShrinks`, `BufferMeansRoom` | The pre-scale and buffer calculations on every input in the bounds: the pre-scale suffices above the target and never shrinks the group, and the buffer check passes only with room, also where nothing would remain. |
| `NodeUpdates.cfg` | `MCNodeUpdates` | 210 k | `UpdatesInv`, `GuardMatchesNode`, `UpdatesAtomic`, `ProtectionEnds`, `TaintingEnds` | A worker, the canceller and the Spot Guard goroutine write one Node object, with conflicts from other programs, failed calls and restarts: together they implement NodeMarks, in which a mark is set in one step, the retries and the protection end, and the goroutine that runs fits the group of the node, whichever labels it has. |
| `Ec2Metadata.cfg` | `MCEc2Metadata` | 100 k | `MetadataInv`, `TokenAlwaysValid`, `RequestEnds`, `PollsResume` | Two monitors share the IMDSv2 token, with an outage of the metadata service, or of its token requests alone: without one the token in use is always valid, and after one every call still ends and every monitor gets answers again. |

The properties in words stand above each definition in the modules.

Some choices of the runs need a remark. `SqsLaunch` checks safety alone,
because a launch whose node never joins waits for ever by design.
`SqsTerminate` ends every instance (`EndingSpec`), so that a message whose
interruption is over has to leave the queue; together with
`NoInterruptionLost`, `EveryMessageDeleted` means that every interruption is
settled. Deadlock is checked except in
`ScaleUp` and `Capacity`, where the pods end and the question is answered.

## Bounds, symmetry and views

- **Two objects** per event allow one that a worker still holds and one that
  was added again after a cancellation or a restart. The code bounds neither: the properties speak of two
  workers with one event, and of one event replaced by another, and both happen.
- **Workers**: one, so that a second event finds all workers busy; two in
  `SqsLaunch`, the least for which two workers can meet.
- **CleaningPeriod** is 7200 in the code. It is 1 or 2 here, so that cleaning
  can happen at any moment; the proofs hold for every value.
- **MaxFaults, MaxCrashes, MaxReboots, MaxOutages, MaxLosses, MaxShortages,
  MaxChanges** bound how often the environment acts badly. Each fault may hit
  any call. A bound of one reaches every single failure at every point; a
  combination of two is reached where the constants are 2.
- **EventIDs of the ASG poller.** The code makes a new ID at each poll. In
  `ImdsMode` an ID that nothing refers to any more counts as new, so that the
  poller never runs out of IDs.
- **duplicateErrThreshold** is 3 as in the code, or 1 in `SqsLaunch`, to reach
  the end of the process.
- **Groups** have at most two spot and two on-demand instances (three spot
  ones in `ScaleUpOutage`). In `ScaleUp` the maximum of the spot group (4) is
  above what two pods may ask for (3), so that `GrowthBounded` is not a
  consequence of the maximum; the on-demand group is at its maximum after one
  fallback, so that a request is refused there.
- **SelfMonitor**: one on-demand node at the start and a second that a fallback adds at
  any moment, so that two monitors run and the group may terminate either node.
- **Heartbeat**: in units of 10 minutes, interval 3, timeout 12, limit 288 (48
  hours) and global timeout 288. With a start delay of 4, a latency of 1 and
  one lost heartbeat the margin is exactly what `TimeoutLongEnough` asks for, and the
  global timeout is reached while heartbeats are still being sent.
- **NodeUpdates**: a node of either group or of none, with every combination of the
  labels; one worker, the canceller and the Spot Guard goroutine, with
  one taint and one foreign mark: the least with which three writers of two
  programs conflict. `MaxCalls` is 2, so a taint is added and removed. A taint
  update may lose any number of races before its deadline.
- **Ec2Metadata**: two monitors, a margin of 3 for a period and a latency of 1.
  The assumption `Period + 2 * Latency <= secondsBeforeTTLRefresh` is tight: with a
  margin of 2 TLC finds an expired token in use. In the code the margin is 15
  seconds, the period 2 and the timeout of a try 2.
- **Capacity**: percentages around the defaults (65, 75) and at 0, 100 and
  beyond; up to six nodes; amounts up to 3, other nodes with none included.

*Symmetry.* Objects are interchangeable: nothing but the identity of an object
is used. `ObjectSymmetry` is used in the safety runs only.

*Views.* A cell of the heap that neither the store, a worker, the main loop
nor the watcher refers to is garbage, and its contents are never read before they
are written again. `LiveHeap` leaves them out. Two states with the same view
have the same successors up to the view, and satisfy the same properties. That
makes the quotient a bisimulation, which liveness respects too. In
`MCSqsQueue` the view also omits what queue mode never reads
(`ignoredEvents`, `atLeastOneEvent`, `due`, the cancellation goroutine).

## Fairness

The Go scheduler runs every goroutine that can run, and every modelled call
returns: the code sets deadlines or the client libraries do. Therefore each
goroutine has weak fairness of its steps.

- `QueueFairness`: the monitor, the watcher, the main loop and the workers
  (weak); `VisibilityExpires` (weak: SQS makes a message visible again when
  its timeout is over); receiving a message (strong: a
  message that is visible again and again is received). A step that fails
  is bounded by `MaxFaults`.
- `EndingSpec` adds that the instances whose interruption was announced end.
- `ImdsFairness`: start-up, pollers, store, main loop, workers, cancellation,
  and `EventBecomesDue` (a start time is passed in the end).
- `Heartbeat`: time passes, the goroutine acts within `Latency`, the hook
  expires when its time is over. Of the worker only its pre-drain task is
  fair: a drain may hang.
- `ScaleUp`: each pod, and the end of an outage. `OutageSpec` leaves the
  last one out. Nothing is assumed of the groups.
- `NodeUpdates`: a call that was begun goes on, time passes, and the ticker of
  the protector ticks. Strong fairness of its update: other programs may write
  the object at any moment, but not each time between its Get and
  its Update, minutes after the last ones. Nothing is assumed of the races of a taint update: its
  deadline ends them.
- `Ec2Metadata`: time, the monitors, and strong fairness of their steps, since
  Go's mutex lets no goroutine starve. Strong fairness too of testing and of adding a
  token that is present: without it two monitors may drop each other's token
  between its caching and the next statements for ever, and `PollsResume`
  fails. That this does not go on for ever is an assumption about timing which
  the code does not enforce. Nothing is assumed of the service but what the properties say.
- `SelfMonitor`: the check cycle, time, and that the group launches,
  terminates and registers instances when it can.

No fairness is assumed of arrivals, notices, cancellations, faults, crashes
or changes of load and supply.

## Proofs

The theorems hold for every value of the constants that satisfies the
assumptions named below.

| theorem | states | assumptions |
|---|---|---|
| `Dispatcher_proofs!Invariance` | `Spec => []DispatcherInv` | `StoreAssumption`, `DispatcherAssumption` |
| `Dispatcher_proofs!TypeCorrect` | `DispatcherTypeOK` always | same |
| `Dispatcher_proofs!SlotsCounted` | `SlotAccounting` always | same |
| `Dispatcher_proofs!IgnoredRespected` | `IgnoredNeverHandled` always | same |
| `Dispatcher_proofs!HandlingExclusive` | `NoConcurrentHandling` always | same |
| `Dispatcher_proofs!WaitingKept` | the action property `WaitingEventKept` | same |
| `Dispatcher_proofs!LifecycleImplemented` | `Spec => LifecycleKept`, the refinement of `EventLifecycle` | same |
| `Heartbeat_proofs!Invariance` | `Spec => []HeartbeatInv` | `HeartbeatAssumption`, `GlobalTimeoutAssumption`, `TimeoutLongEnough` |
| `Heartbeat_proofs!HookKept` | `HookKeptAlive` always | same |
| `Heartbeat_proofs!PromptEnd` | `StopsPromptly` always | same |
| `ScaleDown_proofs!PreScaleIsEnough` | `PreScaleSuffices` always | `CapacityAssumption` |
| `ScaleDown_proofs!PreScaleOnlyGrows` | `PreScaleNeverShrinks` always | same |
| `ScaleDown_proofs!BufferIsRoom` | `BufferMeansRoom` always | same |
| `ScaleDown_proofs!SelfMonitorInvariance` | `Spec => []SelfMonitorInv` | `MonitorAssumption`, `GroupAssumption` |
| `ScaleDown_proofs!WaitIsKept` | `MinimumWaitKept` always | same |
| `ScaleDown_proofs!LoweringIsEarned` | the action property `LoweredOnlyAfterDrain` | same |
| `SqsQueue_proofs!NothingLost` | `NoInterruptionLost` always | `QueueAssumption`, `SafeSetting` |
| `SqsQueue_proofs!HookAfterDrain` | `ContinuedOnlyWhenDone` always | same |
| `SqsQueue_proofs!QueueHandlingExclusive` | `NoConcurrentHandling` always, of `QueueSpec` | `QueueAssumption` |
| `SqsQueue_proofs!QueueTypeCorrect` | `QueueTypeOK` always | same |
| `ImdsMode_proofs!OperatorRespected` | `OperatorCordonKept` always | `ImdsAssumption`, `StoreAssumption`, `DispatcherAssumption` |
| `ImdsMode_proofs!ImdsIgnoredRespected` | `IgnoredNeverHandled` always, of `ImdsSpec` | same |
| `ImdsMode_proofs!ImdsHandlingExclusive` | `NoConcurrentHandling` always, of `ImdsSpec` | same |
| `ImdsMode_proofs!ImdsTypeCorrect` | `ImdsTypeOK` always | same |
| `ImdsMode_proofs!RebootRespected` | `StartupUndisturbed => RebootedEventIgnored` always | same |
| `ImdsMode_proofs!ProcessedIsDrained` | `ProcessedMeansDrained` always | same, `OneManner` and `PodsListed` |
| `ScaleUp_proofs!GrowthIsBounded` | `GrowthBounded` always | `ScaleUpAssumption`, `GroupAssumption` |
| `ScaleUp_proofs!SuccessIsReal` | `SuccessHasInstance` always | same |
| `ScaleUp_proofs!TypeCorrect` | `ScaleUpTypeOK` always | same |
| `NodeUpdates_proofs!Invariance` | `Spec => []UpdatesInv` | `UpdatesAssumption` |
| `NodeUpdates_proofs!AtomicImplemented` | `Spec => UpdatesAtomic`, the refinement of `NodeMarks` | same |
| `NodeUpdates_proofs!GuardFitsNode` | `GuardMatchesNode` always | same |
| `Ec2Metadata_proofs!Invariance` | `Spec => []MetadataInv` | `MetadataAssumption` |
| `Ec2Metadata_proofs!TokenValid` | `TokenAlwaysValid` always | same |

**Dispatcher.** `NoConcurrentHandling` is not inductive: it says nothing of the
event the main loop has picked, nor of what is in the store. `DispatcherInv`
adds that an exclusive event (one that cannot be cancelled and whose node has no
other event) stays in the store while it is handled, that the in-progress flag
is set from dispatch until the handler returns it, and that the store maps an ID to an
object of this ID. Then two objects with one ID cannot both be handled: both
would be the store's object for it. `slots = Cardinality(Busy)` is part of the
invariant and gives the slot accounting with the guard of the channel.
Events that can be cancelled are excluded, because a cancellation takes the
event out of the store under its worker and a new event with its ID may
follow; the code does not prevent that.

**Heartbeat.** `TimeoutLongEnough` is
`StartDelay + (MaxLost + 1) * HeartbeatInterval + Latency < HeartbeatTimeout`.
The code only warns when the interval is not below the timeout; an interval
just below it is enough as long as no call is late or lost. `GlobalTimeoutAssumption`
is the rule of Auto Scaling: the smaller of 48 hours and 100 heartbeat
timeouts. `HookKeptAlive` says that a hook that expires under a running heartbeat
has reached this limit; `HeartbeatInv` says why, `GlobalRoom` that the limit
is never nearer than the first heartbeat needs. `HookOutlivesBeat` relates the hook's remaining time to the next
tick, with the lost heartbeats charged against the margin; `TickServed` says a
ready tick is as old as the goroutine's wait. `EndIsNear` shows that a closed
channel that loses the `select` once cannot lose it again before the next tick.

**Capacity.** `CapacityInv` says that an answer is the one the operator gives.
The rest is arithmetic: lemmas about the ceiling of a quotient and its
rounding, and about comparisons multiplied out. `BufferMeansRoom` is about
quotients that mean something (`Meaningful`): a remainder that is not
negative, and some CPU in use. A remainder of zero is among them, and the
infinite quotient makes the check fail as it should.

**Life cycle.** `DispatcherInv` is enough to show that every step of the
dispatcher maps to one step of `EventLifecycle` or to none. The bound on `Take` comes from
`slots = Cardinality(Busy)`: distinct taken IDs have distinct busy objects.

**Queue.** `SqsQueue` extends the dispatcher, so each of its steps is a step of
`Dispatcher` as far as the store and the workers go, and `DispatcherInv` is
inherited. `DoneInv` adds what a worker has achieved at each position: from
`mark` on the node was drained, from the deletion on the hook is complete.
`SafeSetting` says that each message describes one event, that a lookup by
provider ID gives the event's own node, and that the message of a missing
node is kept. The divergences `SqsScheduled`, `SqsNotFoundApiError` and
`SqsNotFoundProvider` show what happens without these.

**IMDS mode.** `ImdsMode` extends the dispatcher too. The dispatcher takes
`IgnoreEvent` to come before anything else; in IMDS mode it comes at the end of a
start-up that takes several calls. `Fresh` says that until then nothing was
stored and nothing runs, so each step is a step of `Dispatcher`, a restart,
or leaves its variables alone, and `DispatcherInv` holds across pod restarts and
reboots. The event ID that the start-up ignores is read from a label;
`LabelledWithID` says that only event IDs are written there. `OperatorInv` explains
`OperatorCordonKept`: the node has no action label, no pre-drain task is on
its way to setting one, no start-up is past the check of it, and no
cancellation is waiting to be sent.

`RebootInv` follows the event of a reboot from the label to `eventID` of
`handleRebootUncordon` and from there to the ignored events. It holds while
`StartupUndisturbed` does: the reboot is the pod's first restart and the first call
does not fail. This is what the code gives: the labels are removed before the
event is ignored, so a call that fails in between forgets the event
(`ImdsReboot` with a fault shows it), and a second restart forgets what the first
one ignored.

`DrainInv` explains `ProcessedMeansDrained`: as long as no maintenance has ended or
taken place, nothing uncordons the node (the label of the time is never older
than the boot, and no cancellation is waiting), so a worker at `drain` has a
cordoned node and one at `mark` a node as its event asks. `MarkAllAsProcessed`
settles every event of the node with this one; `OneManner` says that they ask for
the same, and `PodsListed` that the API server's cache is not used, so that a drain
that succeeds has evicted the pods. The
divergences `ImdsRebalance` and `ImdsCache` show what happens otherwise. TLC
finds `RebootInv` and `DrainInv` true in the instances of `ImdsSpot` and of
`ImdsOperator` without the operator's cordon, where calls fail and the pod restarts.

Most steps of these proofs are wide and need no arithmetic, so the module uses
Zenon and names the SMT solver where a leaf needs numbers.

**Scale-up.** `GrowthBounded` alone is not inductive, since a pod may hold an old
target. `PodInv` bounds a held target by the initial size, the requests so far
and one; a later request of another pod only raises the bound. For
`SuccessHasInstance` it adds that a pod that waits without a new instance sees
no more instances in service than it started from.

**Node updates.** `UpdatesInv` says that a copy that is not stale equals the
object. An accepted update therefore writes the object with one mark changed,
which is `Succeed` of `NodeMarks`; every other step is a `Begin`, a `Fail`,
another program's write, or changes nothing that `NodeMarks` sees.
`GuardMatchesNode` needs that the role and the operation of the guard fit the node;
`LabelsAgree` shows that the three tests read the labels of a group rightly.

**Metadata token.** `TokenKnown` bounds by how much the cached TTL may be ahead of
the token: by the time since a call of this monitor ended, its latency and, during
a call, the pause before it. At the check this is at most
`Period + 2 * Latency`, so a token that passes outlives the call.

**Self-monitor.** `MonitorInv` says what a monitor has established when it is at a
given point of its cycle: past the marker check its node has run for the minimum
wait, at the drain the node is closed to new pods, and at the reading and the
setting of the capacity it is closed and empty. The marker and the clock of a
monitor are never ahead of the age of its node, also after a restart. No step of
another monitor or of a group takes this away while the node lives. So the
desired capacity is only lowered by a monitor whose own node has waited and is
drained (`LoweredOnlyAfterDrain`, for any number of nodes), and no node is closed
before its wait (`MinimumWaitKept`). Which instance the group then
terminates is the group's choice: `SelfMonitorWrongNode.cfg` shows that it may be
another one, so nothing is proved about the instance that goes. The invariant and
`LoweredOnlyAfterDrain` also hold in the instance of that configuration.

*Only model-checked.* All liveness properties, for they need fairness and
ENABLED, which the prover does not handle, and `UncordonedOnce`.

## Where the code and its documentation differ

The rows below show statements of a comment, a document or a log line that the
code does not keep. Each names a configuration, with the constants that differ, if any,
and one property to be checked in place of the configuration's own. TLC finds
a behaviour that violates it. These checks are not in the list of runs of
`PROJECT.json`, which has only what holds: to repeat one, put the constants and the
property of its row into the configuration.

| configuration | module | property | statement and behaviour |
|---|---|---|---|
| `Dispatcher.cfg` | `MCDispatcher` | `SigtermStopsDispatch` | cmd/node-termination-handler.go:336 says "Exit interruption loop if a SIGTERM is received or the channel is closed". The break leaves the select and not the loop: the signal is consumed, the next tick takes the default branch, and events are dispatched as before. |
| `SqsLaunchRetry.cfg` | `MCSqsQueue` | `ReadyLaunchCompleted` | README.md:523 says "Once a node becomes ready, NTH will complete the lifecycle hook". When CompleteLifecycleAction fails once for a ready node, RunPostDrainTask only logs the error; the handler neither cancels the event nor marks it processed, so it stays in the store as in progress, every redelivery of the message is taken for the stored event, and the hook is never completed. |
| `SqsNotFoundProvider.cfg` | `MCSqsQueue` | `NotFoundMessageDeleted` | config/helm/aws-node-termination-handler/README.md:317 says "If `true`, delete the SQS Message from the SQS Queue if the targeted node is not found." With use-provider-id the missing node makes GetNodeName fail, and HandleEvent returns before nodeFound is ever set: the message is not deleted, and the event stays in progress in the store. |
| `SqsNotFoundApiError.cfg` | `MCSqsQueue` | `UnsettledOnlyIfNotFound` | config/helm/aws-node-termination-handler/README.md:317 says "delete the SQS Message from the SQS Queue if the targeted node is not found". Any error of GetNodeLabels sets nodeFound to false, so a passing API error followed by a failed drain deletes the message of a node that exists and was not drained. |
| `SqsScheduled.cfg` | `MCSqsQueue` | `NoInterruptionLost` | pkg/monitor/sqsevent/sqs-monitor.go:254 says "Don't delete the message in order to allow retries". The events of one AWS Health message share one EventID, so the store keeps the first alone, and its PostDrainTask deletes the whole message: the other node is never drained. |
| `ImdsReboot.cfg` with `MaxFaults = 1` | `MCImdsMode` | `RebootedEventIgnored` | pkg/node/node.go:226 says "MarkWithEventID will add the drain event ID to the node to be properly ignored after a system restart event". UncordonIfRebooted removes the labels before the taints; when a call after the labels fails, the retry of handleRebootUncordon finds no label and returns without IgnoreEvent, and the event that caused the reboot is handled again. |
| `ImdsReboot.cfg` with `MaxCrashes = 1, MaxReboots = 0` | `MCImdsMode` | `EndedMaintenanceUncordons` | pkg/interruptioneventstore/interruption-event-store.go:144 says "ShouldUncordonNode returns true if there was a interruption event but it was canceled", and test/e2e/maintenance-event-cancellation-test:184 expects the node uncordoned. atLeastOneEvent is in memory only: when the pod restarts after cordoning, the cancellation finds a store that has seen no event, and the node stays cordoned. |
| `ImdsReboot.cfg` with `MaxCrashes = 1, MaxReboots = 0` | `MCImdsMode` | `InterruptionHandled` | README.md:37 says the IMDS monitor will "react accordingly to drain and/or cordon the corresponding node". handleRebootUncordon ignores the labelled event whether or not UncordonIfRebooted found a reboot, so a pod that restarts between marking the node and draining it never drains it for this event. |
| `ImdsCache.cfg` | `MCImdsMode` | `ProcessedMeansDrained` | pkg/node/node.go:122 says "CordonAndDrain will cordon the node and evict pods based on the config". With UseAPIServerCacheToListPods the pods are listed only for the event recorder: without one pods is nil, nothing is evicted, and the event is marked processed. With one, a failed list is an empty list whose error the eviction overwrites, and a list from the cache may be old. |
| `ImdsReboot.cfg` with `ExcludedBefore = TRUE` | `MCImdsMode` | `ForeignLabelKept` | pkg/node/node.go:377 says "removeLabelIfValueMatches will remove a node label given a label key provided the label's value equals matchValue". The test is inverted: the function returns early when the value equals matchValue, and removes the label when it differs. |
| `ImdsAsg.cfg` | `MCImdsMode` | `OneEventPerNotice` | pkg/monitor/asglifecycle/asg-lifecycle-monitor.go:79 says "There's no EventID returned, so we'll create it using a hash to prevent duplicates." The hash is over the time of the poll, so each poll of the same target state gives an event of its own. |
| `ImdsReboot.cfg` | `MCImdsMode` | `NoUncordonWhileActive` | cmd/node-termination-handler.go:414 logs "Another interruption event is active, not uncordoning the node". ShouldUncordonNode is asked before Uncordon is called and the store is not held between the two: an event that arrives and is handled in between has its node uncordoned. |
| `ImdsRebalance.cfg` | `MCImdsMode` | `ProcessedMeansDrained` | pkg/interruptioneventstore/interruption-event-store.go:122 says "MarkAllAsProcessed should be called after the node has been drained". It is also called after a cordon alone (a rebalance recommendation in IMDS mode), and then marks the spot interruption of the same node as processed: that node is never drained. |
| `ScaleUpOutage.cfg` | `MCScaleUp` | `WaitTimesOut` | pkg/config/config.go:274 says "Timeout in seconds for waiting for new instances to reach InService state." A failed count takes the continue before the timeout is compared, so the wait lasts as long as the failure does, and the node is not cordoned meanwhile. |
| `ScaleUp.cfg` | `MCScaleUp` | `IncreasesByOne` | pkg/spotguard/spotguard.go:78 says "scaleUpASG increases the desired capacity of an ASG by 1". The desired capacity is read and written in two calls: pods that read the same value write the same value, and one of the replacements is never asked for. |
| `ScaleUp.cfg` | `MCScaleUp` | `FallbackOnlyWhenNeeded` | docs/spot-guard/SPOT_GUARD_COMPLETE_FLOW_DIAGRAM.md:235 says "**Intelligent fallback** to on-demand only when needed". initialCount is read after SetDesiredCapacity: an instance that is in service by then is counted as an old one, the wait times out, and an on-demand instance is added as well. |
| `SelfMonitorWrongNode.cfg` | `MCSelfMonitor` | `TerminatedAfterDrain` | docs/spot-guard/SPOT_GUARD_COMPLETE_FLOW_V2.md:280-281 says "Step 6: Terminate this EC2 instance" by "Call: TerminateInstanceInAutoScalingGroup()". decreaseASGCapacity only lowers the desired capacity: with two on-demand instances the group may terminate the one that still runs its pods. |
| `SelfMonitor.cfg` with `OnDemand <- OneNode, UseAPIServerCacheToListPods = TRUE` | `MCSelfMonitor` | `TerminatedAfterDrain` | pkg/spotguard/scaledown_executor.go:198 says "drainNode gracefully evicts pods from the node". It passes no event recorder to CordonAndDrain, so with UseAPIServerCacheToListPods the pods are not listed, nothing is evicted, and the node is terminated with its pods. |
| `SelfMonitor.cfg` | `MCSelfMonitor` | `FlapResetsStability` | pkg/spotguard/health_checker.go:547 says "If currently unhealthy or nodes not ready, reset stability tracking", and docs/spot-guard/SPOT_GUARD_COMPLETE_FLOW_V2.md:481 "Spot capacity stable (no flapping)". checkAndScaleDown returns on an unhealthy status before it stores HealthySince, so the old start of the period is kept, and a scale-down may follow right after a flap. |
| `SelfMonitor.cfg` | `MCSelfMonitor` | `EverySpotNodeReady` | pkg/spotguard/health_checker.go:144 says "checks if all nodes in the spot ASG are ready in Kubernetes", and docs/spot-guard/SPOT_GUARD_COMPLETE_FLOW_V2.md:168 "Check if connected to k8s". Readiness is asked of the nodes that match an instance; an instance in service without a node is not looked at. |
| `SelfMonitor.cfg` | `MCSelfMonitor` | `ThresholdTemporary` | pkg/spotguard/self_monitor.go:615 says "Temporarily increase the threshold for the safety checker". Nothing writes maxUtilization back, also when the drain does not follow. |
| `SelfMonitor.cfg` | `MCSelfMonitor` | `Level2Proceeds` | pkg/spotguard/self_monitor.go:612 logs "Will proceed with drain on next check cycle". The pre-scale of level 1 has raised the desired capacity of the spot group and level 2 leaves it there: without spot capacity the group is never healthy again, and each later check stops before the safety check. |
| `SelfMonitor.cfg` | `MCSelfMonitor` | `DecreasesByOne` | pkg/spotguard/scaledown_executor.go:255 says "decreaseASGCapacity decreases the desired capacity of the ASG by 1". The value is read and written in two calls: a fallback that raises it in between is overwritten, and the capacity goes down by two. |
| `NodeUpdates.cfg` | `MCNodeUpdates` | `StartTimeRecorded` | pkg/spotguard/self_monitor.go:428-429 logs "Failed to set start time annotation, will retry" and says "Return the time anyway, we'll try to update again next cycle". getOrCreateStartTime is called once, when the monitor is made: after a conflict the annotation is not written before the pod restarts, and the minimum wait then starts again. |
| `Capacity.cfg` | `Capacity` | `TargetAfterDrain` | pkg/spotguard/health_checker.go:607-608 says "determines how many spot nodes to add to achieve target utilization after draining on-demand". The early return compares the utilisation before the drain: at or below the target no node is added, though the spot nodes alone would be above it. |
| `Capacity.cfg` | `Capacity` | `BufferAlwaysMeansRoom` | pkg/spotguard/safety_checker.go:280 says "hasClusterCapacityBuffer checks if cluster has sufficient capacity buffer". A node that is not ready is left out of the total and subtracted from it all the same: the remaining capacity is too small, zero or negative, and a negative or undefined utilisation passes the check. |

Some of these bear on the properties of the runs above. `ImdsReboot` has no
failed call and no pod restart, because with one the code breaks
`RebootedEventIgnored` or `EndedMaintenanceUncordons`; `ImdsSpot` has no rebalance
recommendation because of `ImdsRebalance`, and none of the runs uses the API
server's cache because of `ImdsCache`. Within these settings the properties hold.

A note in `pkg/spotguard/ca_protection.go:32` says that the protection may be
removed "up to 5 minutes later due to check interval". A conflict makes it later by
another interval (`ProtectionEnds` says that it is removed in the end). When the node's
type cannot be detected after a restart, `main` starts no protector, and the
annotation of the earlier process stays.

Further configurations that hold:

- `Dispatcher.cfg` with `CleaningPeriod = 1, Workers = 2` (`MCDispatcher`), `DispatcherTypeOK`, `SlotAccounting`, `IgnoredNeverHandled`, `NoConcurrentHandling`, `DispatcherInv`, `WaitingEventKept`: The dispatcher of the first run with two workers.
- `SqsNotFound.cfg` (`MCSqsQueue`), `NotFoundMessageDeleted`: With deleteSqsMsgIfNodeNotFound and node names from the event, the message of a node that is not in the cluster is deleted, a restart included.
- `ImdsCancel.cfg` (`MCImdsMode`), `EndedMaintenanceUncordons`: Maintenance that is cancelled at any moment of its handling, with one failed call: the node does not stay cordoned.

## Not modelled

- **Fallback monitor and tracker** (`monitor.go`, `fallback_tracker.go`): nothing
  in the program starts them.
- **EC2 helper, SQS request retryer**: stateless; their answers, or the failure
  of a call after its retries, are inputs of the modules.
- **Parsing of metadata answers**: a notice is there or not.
- **Configuration, webhook, metrics, logging, Kubernetes events, uptime**:
  parsing and output.
- **Pod selection of a drain** (filters, daemon sets, grace periods): the drain
  library's; a drain that is given the pods evicts them or fails. Dry run is left
  out.
- **Labels that contradict the group** of a node, in `NodeUpdates`: an operator's
  mistake would be read as the code reads it.
- **The load of the cluster** is a level in `SelfMonitor` and an amount in
  `Capacity`; pods are not assigned to nodes. That two on-demand nodes pass the
  utilisation check at once, each counting on the other's room, is listed as a
  hazard without a property.

## Plan

1. A load per node, so that two self-monitors can both pass the utilisation
   check.
2. `NodeUpdates` composed with `ImdsMode`, in place of `KubeNode`.
