# Verification of the kb-labs platform services

This directory holds a TLA+ development beside the kb-labs repository: models of the parts of
the platform whose correctness depends on interleavings, failures and restarts, TLC instances
that check them, and TLAPS proofs for every value of their constants. Paths below are relative
to the repository root.

## 1. Inventory

kb-labs is a platform of plugins, services and adapters. Most of it is configuration,
discovery, rendering and I/O. The parts with a protocol of their own are these; the last column
names the module, or says that there is none.

| Component | Source | State it keeps | Operations | What makes it hard | Correct when | Model |
|---|---|---|---|---|---|---|
| Status machine | `plugins/workflow/constants/src/state-machine.ts` | none | `assertTransition`, `isTerminal` | three tables that every write relies on; a hand-made terminal set | terminal statuses of runs are final; every write takes an edge of its table | `WorkflowStatus` |
| Run record | `plugins/workflow/engine/src/state-store.ts` | one JSON document per run | `updateRun`, `transitionRun/Job/Step`, `resolveBlockedJobs`, daemon lease | read-modify-write by many activities and processes | no update is lost; a job is released exactly when its last need succeeds | `WorkflowEngine` |
| Record lock | `plugins/workflow/engine/src/lock.ts` | one cache key with a life | `withLock` | expiry during the critical section, a release in two calls, a timeout | one holder at a time, no key left behind, no needless timeout | `WithLock` |
| Job queue | `plugins/workflow/engine/src/scheduler.ts` | one sorted set per priority | `scheduleRun`, `enqueueJob`, `dequeueJob`, `reschedule` | several daemons; read and remove are two calls | an entry is handed out once, none is lost, priorities are kept | `JobQueue` |
| Engine | `plugins/workflow/engine/src/engine.ts` | retry timers | `markJob*`, `markStep*`, `checkRunCompletion`, `resolveApproval`, `cancelRun`, start-up sweeps | every operation is several writes with awaits in between | needs come first, verdicts agree with jobs, every run settles | `WorkflowEngine` |
| Worker | `plugins/workflow/daemon/src/worker.ts` | `claimedJobs`, `runningJobs`, loop locals | poll, claim, provision, step loop, gates, children, stop | N loops on one event loop, stale snapshots, shutdown | one execution per job, steps in order, interrupted jobs resume | `WorkflowEngine`, without gates |
| Child workflows | `worker.ts`, `engine.ts`, `daemon/src/bootstrap.ts` | the link of a step to its child run | invoke, park, `reconcileChildCompletion`, cancellation down and up | the child's end, the loop, a cancellation and start-up reconcile at once | a step ends as its own child did, children in order, none forgotten | `ChildInvocation` |
| Run admission | `engine/src/run-coordinator.ts`, `concurrency-manager.ts` | idempotency keys, concurrency groups | `createRun`, `ensureRun`, `acquire` | check-then-act across awaits | one run per key, one run per group while its lock lasts | `RunAdmission` |
| Daemon | `plugins/workflow/daemon/src/bootstrap.ts` | liveness lease | start-up order, shutdown | two daemons, hasty restarts | a sweep never spoils a job that is alive | its sweeps, in `WorkflowEngine` |
| Approval endpoint | `plugins/workflow/daemon/src/api/approvals-api.ts` | none | resolve, list | a check in one read, a write in another | an answer resumes a parked job once, never a dead run | `WorkflowEngine` |
| Worker pool | `core/plugin-execution-factory/src/backends/worker-pool` | worker processes, waiting calls, counters | `execute`, `processQueue`, recycle, health checks, recovery, shutdown | timers, aborts and exits of processes race the result | a call is in one place, answered once, run at most once; the pool recovers | `WorkerPool` |
| Resource broker | `core/resource-broker/src` | priority queue, rate limits | enqueue, process, retry, `tryAcquire`, shutdown | the limiter is awaited, slots, retries, timeouts that do not stop the work | a request is executed and answered once, every execution holds a slot | `ResourceBroker` |
| Gateway: hosts | `services/gateway/app/src/hosts/{ws-handler,registry}.ts`, `app/src/execute`, `services/gateway/core/src/dispatcher.ts` | record of a host, sockets, pending calls | connect, close, grace timer, heartbeats, watchdog, execute, cancel | late closes, overlapping read-modify-write, lost answers | an execution ends once and with its host; the record is exact | `HostConnection` |
| Cron, file watcher, job broker | `plugins/workflow/daemon/src/*.ts` | timers, registrations | tick, (un)register | a tick overlapping a registration | no tick after unregistration, no double registration | none |
| State broker, cache adapters | `core/state-broker/src`, `core/platform/src/inmemory`, `adapters/state-broker` | keys with a life, sorted sets | get, set, setIfNotExists, zadd | lazy expiry, atomicity | setIfNotExists has one winner, a sorted set keeps its members | sorted sets, in `JobQueue` |
| IPC | `core/ipc/src` | pending calls | call, respond, reconnect | late answers, lost sockets | an answer reaches its own call, once | none |

The rest (platform loader, plugin discovery, CLI, studio, sites, artifact merging, snapshots) is
sequential data handling and I/O; `PROJECT.json` lists it with the reason for leaving it out.

### How the modelled parts interact

`createRun` admits a run (idempotency key, concurrency group), saves its document and enqueues its
unblocked jobs. N worker loops of a daemon poll `dequeueJob`; a loop reads the run, claims the
job in the set `claimedJobs`, marks it running, provisions a workspace and walks through its
steps, one engine call after another. A step may start a run of its own: the loop then parks the
job, and whoever notices the child's end settles the step and enqueues the job again. When the
last step is done the loop asks the engine to complete or fail the job; the engine then
releases dependents, enqueues them, cancels those that cannot run any more, decides the run or
arms a retry timer. Approval requests, cancellations, timers and the start-up sweep of a new
process call the same engine at any time. Nothing but the per-run lock of `updateRun`
serialises them, and every engine operation takes the lock several times with awaits in
between. This is where the hard behaviours come from: stale reads, half-done operations, lost
timers, duplicate entries and claims that outlive what they protect.

A step's work is a call to an execution backend. One backend is the worker pool of a process,
another sends the call through the gateway to a host that holds a WebSocket open; calls of rate
limited resources go through the resource broker. These three differ in everything but their
promise, one answer for a call and its work begun at most once and not after the answer, which is
stated once, as `CallService`, and which each is compared with.

## 2. Modules

| Module | Contents |
|---|---|
| `WorkflowStatus` | the three status tables, the terminal sets, legality of a transition |
| `RunContract` | abstract specification of a run: jobs move along their table, start after their needs, the verdict is final and agrees with the jobs |
| `WorkflowEngine` | one run executed by one daemon: record, queue as a bag, loops, timers, approvals, cancellation, stop, crash, start-up |
| `WorkflowInvariants` | the inductive invariant `IInv` of `WorkflowEngine`, in named parts |
| `ChildInvocation` | a job whose steps start child runs: parking, the racing reconciliations, cancellation, crash and start-up |
| `AtomicRecord` | abstract specification of a shared record: an update is applied to what the last one left, or not at all |
| `WithLock` | `updateRun` under `withLock`: attempts, backoff, deadline, expiry, release, deaths |
| `JobPool` | abstract specification of a queue: an entry waits until one loop takes it |
| `JobQueue` | `scheduler.ts`: priorities, unlocked probe, locked read and removal, expiry |
| `AdmissionContract` | abstract specification of `createRun`: a key stands for one run, answered means started |
| `RunAdmission` | `ensureRun` between any number of requests, in one process or several |
| `CallService` | abstract specification of whoever executes calls: one answer, begun at most once, never after the answer |
| `WorkerPool` | the pool of child processes, its queue, timers, recycling, health checks, recovery |
| `ResourceBroker` | the broker's queue, its loop and the in-memory limiter, retries, `tryAcquire` |
| `HostConnection` | one host of the gateway: connections, registry record, dispatcher, executions |
| `*_proofs` | the theorems about the module of that name; `WorkflowEngine_proofs` proves `IInv` part by part, then what follows from it |
| `MC*` | instances for TLC |

The modules meet at four places. `WorkflowEngine` makes each locked write of the record one
action, which `WithLock` implementing `AtomicRecord` justifies; it treats the queue as a bag
from which `Dequeue` takes an entry in one step, which `JobQueue` implementing `JobPool`
justifies. `JobQueue` in turn takes the queue's lock as a mutual exclusion, which `WithLock`
shows. `ChildInvocation` uses the status tables and the same cut of the loop as `WorkflowEngine`,
on a job of which every step invokes.

### WorkflowEngine

State. `run`, `status`, `step`, `pending`, `blocked`, `attempt` are the fields of the stored
document that decide anything (run status, per job the status, the step statuses,
`pendingDependencies`, `blocked`, `attempt`). `queue[j]` counts the entries that name job `j`.
`pc`, `cur`, `local` are the position and the locals of each loop, `claimed` is `claimedJobs`;
`local.seen` is the snapshot of the steps the loop iterates over. `retry`, `request`,
`unscheduled` are the activities outside the loops: armed or half-done retry timers, approval
requests between their check and their enqueue, and the part of `scheduleRun` still to do.
`daemon`, `startup`, `sweep`, `torn`, `resumed` describe the running process and one that starts
up against the same store.

Actions. A handler is cut at its awaits on the record or on the queue; each piece is an action
named after the source function. `PickUp` is `processJob` up to the step loop, `RunStep` the
step loop, `SettleJob` the completion and failure paths of the engine, then `RetryStep`,
`FinishRequest`, `CancelRun`, `Stop`, `Exit`, `Crash`, `StartUp`. The constant `Faults` names
the environment events an instance admits: cancellation, graceful stop, crash, unresolved
secrets, failed provisioning, a failing cache, a restart before the old lease has lapsed
(`hasty`), a needless second launch (`stray`).

### ChildInvocation

State. `run`, `status`, `step`, `link` are the parent's record, `link[i]` the child its step
waits for; `child` and `of` are the child runs and the step that made each. `queue`, `claimed`,
`pc`, `local` are as above. `act` holds the reconciliations under way, one for each activity that
may start one: the loop that has just parked the job, the end of a child, the cancellation of a
child, the start-up. `asked` is the progress of `cancelRun` of the parent.

Actions. `Dequeue` to `Check` are the loop up to the invocation; `Invoke` creates the child, `Park`
writes the link, after which the loop looks at the child itself. A reconciliation reads the child,
then the parent, writes the step, resumes or fails the job, each a step of its own; the
reconciliation of a cancelled parent cancels the child, which reconciles again. `ChildEnds`,
`CancelParent`, `ListChildren`, `Crash`, `Restart` and `Ready` complete it.

### WithLock

State. `lock` is the cache key (its token and remaining life), `record` the updates the stored
document contains; per caller its position, its copy of the document, the ticks to its deadline,
to its next attempt, and since it took the lock. Actions: one attempt (`Attempt`), backoff
(`Busy`, `WakeUp`), the read and the write of `updateRunRecord`, the two calls of the release
(`CheckToken`, `DeleteKey`), `Die`, and `Tick` for a second.

### JobQueue

State. `queue[k]` is the sorted set of the k-th priority, `life[k]` the ticks until the key
expires (0: never), `lock[k]` its lock; per loop its position, the priority it looks at, the
entry it has read and the entry it was given. `due` is a history variable: what a loop could
have taken when its scan began. Actions: `EnqueueJob`, the scan (`DequeueJob`, `Probe`,
`TakeLock` or `LockTimesOut`, `ReadHead`, `RemoveHead`, `Unlock`), `Finish` and `Reschedule` for
what becomes of an entry, `Die`, `LockExpires`, `Tick`.

### RunAdmission

State. `keyOf` and `groupOf` are the cache keys, `stored` the saved records, `scheduled` and
`over` the runs handed to the queue and ended; per request its position, the run it has found and
what it was told. A run has the name of the request that made it. `lapsed` is a history variable:
the runs that lost the lock of their group before they were over.

Actions, one per await: `LookUp` and `Load` (`loadByIdempotencyKey`), `Acquire`, `SaveRun`,
`Register` (the loser of a race for the key throws), `Schedule`; `Breaks` is a death or a failing
call at any point, `EndRun` the end of a run, `ExpireGroup` the end of a group's lock, which may come
at any moment, its holder at work or not.

### WorkerPool

State. `state`, `job`, `expired` are the pool's view of a worker, `handlers` what its child
process executes in truth, `leaving` and `unverified` children told to shut down and killed trees
not verified gone. `queue` and `viaQueue` are the waiting calls and those with an acquire timer,
`answer` what each caller was told, `count` the per-plugin counter. `recovery`, `desired`,
`checked`, `closing` are the pool's own activities; `starts` is a history variable.

Actions. One Node process owns all this, so an action is one turn of the event loop: a call that
is refused, served, bounced or queued; `Result`, `AbortQueued`, `AbortRunning`, `AcquireTimeout`,
`ExecutionTimeout`; the exits of children (`ChildExits`, `KilledExits`, `TreeUnverified`,
`ShutdownTimeout`); starts (`SpawnReady`, `SpawnFails`, `SpawnDies`, `LateExit`, `RetrySpawn`);
health checks; `Shutdown`. `processQueue` ends a turn and hands out several calls: while
`loop = "queue"` only its steps are taken.

### ResourceBroker

State. `queue` is the three lists of `PriorityQueue` behind one another, `hand` the item the loop
has looked at and what the limiter answered, `exec` the runs of `executeItem`, `active` and `used`
the limiter, `user` what a user of `tryAcquire` holds. `stray` holds the attempts that timed out and
whose executor works on: a timeout wins a race with the executor and does not stop it. Actions:
`Enqueue`, the loop's `Granted` and `Denied`, the ends of an attempt (`Succeed`, `FailForGood`,
`FailAgain`, then `Retry`), each failure being the executor's or, with `TimesOut`, the timer's,
`StrayEnds`, `TryAcquire` and `ReleaseUser`, `NewWindow`, `Unregister`, `Shutdown` and its timeout.

### HostConnection

State. Per connection the state of the socket (`link`: open, cut without notice, shut) and of its
handler (`at`); `record`, `grace` and `ops` are the registry's record, its reconnect timer and the
operations that have read the record and not yet written it; `socketOf` and `pending` are the
dispatcher's; `call` and `via` the executions and the connection each was sent over. `prompt`
says that every call of the cache is answered before the next event (in-memory adapter).

Actions: `Connect`, `Cut`, the handler from token to listening (`Admit`, `SetOnline`, `Register`,
`Listen`), the close, heard or not, `SetOffline`, `ArmGrace`, `GraceFires`, heartbeat and watchdog
with their writes, `Restart` of the gateway, `Execute`, the host's answer, timeout, `Cancel`.

## 3. Runs

| Run | Instance | Shows |
|---|---|---|
| `Engine_faults` | chain a -> b, approval and conditional job, 2 loops, 2 approval requests, 2 attempts, 2 deaths or needless launches, every fault | `IInv`, `OneExecutor`, `StepsInOrder`, refinement `KeepsContract` |
| `Engine_settle` | diamond of 4 jobs, 2 loops, 2 attempts, cancellation at any moment, failing workspaces, fair | `QueuedIsCarried`, `NoDuplicateEntry`, `IInv` (with its parts `HandedOnce` and `NoneForgotten`, which say nothing in `Engine_faults`), `RunSettles`, `CancelQuiesces` |
| `Child_steps` | 2 steps, 2 loops, 2 children, cancellation, an invalid reference, failing children, a death, fair | `ChildInv`, `ChildrenInOrder`, `StepIsSettled`, `CancelReachesChild` |
| `Lock_turns` | 3 callers, life 5, deadline 15, holds up to 4, deaths anywhere | `LockInv`, `NobodyTimesOut`, `KeyIsGivenBack`, refinement `UpdatesAreAtomic` |
| `Queue_shared` | 2 entries at any priority, 2 loops that die anywhere, rescheduling up to 2 ticks, no expiry of the sets, fair | `QueueInv`, `NoInversion`, `EntryServed`, refinement `EachEntryOnce` |
| `Admission_keys` | 4 requests, 2 idempotency keys, 1 group, each may break at any point, a lock that lapses at any time | `AdmissionInv`, `LockHolderIsAlone`, refinement `OneRunPerKey` |
| `Pool_serving` | 2 calls of one plugin, 1 to 2 workers, a queue of 1, one death, aborts, unready children, unverified trees, fair | `PoolInv`, `OpenCallIsHeld`, `OneHandler`, `CallsAreAnswered`, `Recovers`, refinement `KeepsService` |
| `Broker_queue` | 3 requests of one priority, 2 resources, a user of `tryAcquire`, 2 slots, 2 requests a window, 1 retry, 1 executor that may outlive its timeout, unregistration, fair | `BrokerInv`, `OpenIsSomewhere`, `RunsHoldSlots`, `RequestsAreAnswered`, refinement `KeepsService` |
| `Host_calls` | 2 connections, 1 execution, cuts, restarts of the gateway, a prompt and a slow cache, fair | `HostInv`, `RecordIsExact`, `ExecutionsEnd`, `GraceEnds`, refinement `KeepsService` |
| `Child_v_cancel` | 1 step, 1 loop, a cancellation | refutes `CancelReturns`, section 6 |
| `Pool_v_acquire` | as `Pool_serving` | refutes `TimedOutNeverRan`, section 6 |
| `Broker_v_lost` | as `Broker_queue`, with three different priorities | refutes `OpenIsSomewhere`, section 6 |

Why the bounds are enough.

- Engine: two loops are the fewest that race for a claim or finish two needs at once. One approval
  and one regular step give every order of park, answer, execute and retry; two requests give two
  humans. Two attempts give one retry. Two deaths give a death during the start-up that follows a
  death. A diamond has both a job that releases two and a job that waits for two.
- Children: two steps with a child each give an order of children; two loops race for the resumed
  job while the loop, the child's end, a cancellation and a start-up reconcile. A third run, needed
  for two children of one step, is beyond this instance; the theorems about `ChildInv` cover it.
- Lock: three callers are a holder, one that waits and one that comes third; life and deadline keep
  the ratio of the constants of `lock.ts` (5 s and 15 s).
- Queue: two loops race for one head, two entries at two priorities make an inversion possible.
- Admission: two requests share a key and a group, a third has another key of that group, a fourth
  the first key and no group: each of key and group is contended alone and with the other.
- Pool: a call can run while another waits, or both run; one is over the maximum in the making (a
  killed process beside its replacement); the queue is full with one.
- Broker: more requests than slots, an item at the head that is denied while the next, of another
  resource, could go, a window that runs out, a retry beside another execution. One request has an
  executor that may work on after its timeout (`Slow`): it can be left twice, by the first attempt and
  by the retry, and be at work beside its own retry and beside another request. A left executor gives
  nothing that the others see, so more of them add nothing to what the run checks; the theorems cover them.
- Host: an old and a new connection, whose close, registration and writes overlap.

TLC explores the faults of the engine and the callers of the lock with symmetry; runs with a
liveness property use no symmetry. `CHECK_DEADLOCK FALSE` is set everywhere because a settled run, a
returned caller, an empty queue at the end of the clock, a pool or broker that was shut down and a
host with no connection left to open really stop.

### Fairness

- Engine and children: Node's event loop serves every pending activity, so each loop, timer,
  half-done request, reconciliation and the start-up sequence is weakly fair; a step ends because
  the execution backend enforces `timeoutMs`; a supervisor restarts a dead daemon. Nothing makes a
  human answer, a cancellation happen, a child run end or a process die. `RunSettles` is checked
  without approvals, for a run that waits for a human does not end.
- Queue: loops that live, the clock and the expiry of a dead loop's lock are fair.
- Pool: the queue's loop, every timer, starts (each succeeds, fails, or its child exits), and the
  exit of a child that was killed. Children need not answer: the execution timeout answers for them.
- Broker: the loop, the end of a run (each attempt has a timeout; what its executor does after that
  need not end), windows pass, users of `tryAcquire`
  give back what they hold, the timeout of the shutdown.
- Host: timers, registry writes and the handlers' own awaits; the grace timer is strongly fair,
  since with a slow cache it is an event among others. No host need reconnect or answer.

`RequestsAreAnswered` and `Recovers` carry an exception each, for what the code does not survive:
a resource all of whose slots leaked (`Exhausted`), a start that never settles because the child
exits before it is ready (`Stuck`).

## 4. Proofs

| Theorem | Statement |
|---|---|
| `TypeCorrect`, `Exclusive` | `Spec => []TypeOK`, `Spec => []OneExecutor` of the engine |
| `Inductive` | `Spec => []IInv` |
| `NeedsComeFirst`, `SuccessMeansComplete`, `StepsComeInOrder` | `Spec => []NeedsFirst`, `Spec => []SuccessIsComplete`, `Spec => []StepsInOrder` |
| `HandedOutOnce` | for workflows without approvals: `Spec => []NoDuplicateEntry` |
| `NoneIsForgotten` | for those, if nothing fails but workspaces and the daemon stays up: `Spec => []QueuedIsCarried` |
| `Implements` | `Spec => KeepsContract`: the engine implements `RunContract` |
| `BegunHaveTheirNeeds`, `ResultsAreFinal` | `Spec => []BegunAreReady`, `Spec => ResultsStand`, which follow |
| `ChildInvHolds` | `Spec => []ChildInv` |
| `StepEndsWithItsChild`, `ChildrenAreInOrder` | `Spec => []ResultIsChilds`, `Spec => []ChildrenInOrder` |
| `LockInductive`, `LockIsExclusive`, `LockIsGivenBack`, `UpdateRunIsAtomic` | for holds shorter than the life of the key: `Spec => []LockInv`, `[]MutualExclusion`, `[]KeyIsGivenBack`, `Spec => UpdatesAreAtomic` |
| `NoneOverwritten` | under the same hypothesis `Spec => []NoUpdateLost`, which follows |
| `WaitsInductive`, `NobodyIsRefused` | `Spec => [](LockTypeOK /\ WaitIsShared)`; for few callers `Spec => []NobodyTimesOut` |
| `QueueInductive`, `PriorityKept`, `EntryOnce` | for sorted sets that do not expire: `Spec => []QueueInv`, `Spec => []NoInversion`, `Spec => EachEntryOnce` |
| `AdmissionInductive`, `GroupIsTheHolders`, `KeysAreHonoured` | `Spec => []AdmissionInv`, `Spec => []LockHolderIsAlone`, `Spec => OneRunPerKey`: admission implements `AdmissionContract` |
| `KeysStartOnce` | `Spec => []OneStartedPerKey`, which follows |
| `PoolInductive` | `Spec => []PoolInv` |
| `NoCallIsLost`, `ProcessesRunOneCall`, `CallsAreCounted`, `PoolIsBounded` | `Spec => []OpenCallIsHeld`, `[]OneHandler`, `[]CountedIsOpen`, `[]CapacityBound` |
| `LeaversGetNothing`, `PoolServes` | `Spec => LeavingGetNothing`, `Spec => KeepsService`: the pool implements `CallService` |
| `RunsStayWithinLimit`, `BrokerInductive` | `Spec => []RunsHoldSlots`, `Spec => []BrokerInv` of the broker, whatever the priorities |
| `NoneIsLost`, `BrokerServes` | for requests of one priority: `Spec => []OpenIsSomewhere`, `Spec => KeepsService` |
| `HostInductive`, `ExecutionsGoWithConnection`, `RecordExact` | `Spec => []HostInv`, `Spec => []NoOrphans`, `Spec => []RecordIsExact` |
| `GatewayServes` | `Spec => KeepsService`: the gateway implements `CallService` |

They hold for every workflow, every number of loops, steps, children, requests, calls, workers,
connections, attempts and deaths, and every subset of faults. The assumptions on constants are the
named `ASSUME`s of the modules; a theorem that needs more has it as a hypothesis, which the table
names and the text below justifies.

*The engine.* `NeedsFirst` is not inductive: a job may be executed because of a queue entry made
long ago by a timer, an approval, a sweep or another loop. `IInv` therefore follows every way in
which a job can be handed on (`HandedOutIsCleared`: entries, loops with their local sets of jobs
to enqueue or skip, armed timers, requests, half-done schedules and sweeps, parked steps and
interrupted jobs) and says each of them concerns a job whose needs have all succeeded. It holds
because a success is never taken back and because a dependency is struck off only when it has
succeeded (`PendingIsExact`), although the loop that strikes it off acts on a name it remembered
two writes ago. `ClaimsHeld` ties a loop past its claim to `claimedJobs`, which gives
`OneExecutor`. `VerdictIsSound` says that a verdict of success decided from a stale read is still
justified when it is written. `Implements` maps the record to the variables of `RunContract`: each
action is a `MoveJobs`, a `MoveRun` or a stutter, and `IInv` supplies `Ready` and the
justification of the verdict.

`ProgressIsTrue` is what makes the order of steps survive a stale snapshot. A loop walks through
the steps as it saw them; what it saw settled must still be settled as it was seen (`SeenIsTrue`:
approvals, sweeps and cancellations write only to steps that are open), and what it has walked past
is settled in the record (`NoneLeftOpen`). `StepsInOrder` is the second for the step it executes.

`HandedOnce` is the part for workflows without approvals. `Carriers(j)` is the set of everything that
bring or have brought job j to a loop, each tagged with what it is: entries of the queue, loops that
have the job, loops that have it in the list of jobs they are about to enqueue, and a retry, an
approval, a schedule or a resumption that has written the job `queued` and not yet enqueued it. It has
at most one element, none while the job is blocked or interrupted (`IdleAreIdle`), and while a retry
timer runs only the loop that is leaving the job (`TimersAlone`), so that whoever hands the job on next
is alone. With approvals that is false: an answer that comes while the loop still parks the job makes
a second carrier (section 6).

`NoneForgotten` says the reverse, that there is at least one. It needs to know for each status who has
the job: what is `queued` has not been begun (`BegunOrQueued`), a claim that no loop holds and a list
of released jobs that no loop will enqueue are left behind only by a run that is over (`ClaimsEnd`,
`ListsEnd`). Its hypothesis `Gentle` admits cancellations and failing workspaces. It is not weaker
than needed: with any of the other faults TLC finds a job that is lost, dropped by a loop that cannot
resolve its secrets, refused by the cache after the record says `queued`, or lost with the timer or
the list of a process that dies or stops.

*Children.* `ChildInv` says what each activity remembers and why it stays true: a link names a child
of its own step (`LinksAreOwn`), what a loop saw succeeded has succeeded for good (`LoopsKnow`), and
a reconciliation holds a child whose end it has read (`ReconcilersKnow`). Then a step can be settled
only by an end of a child of its own, however many reconciliations race, and a loop that invokes
step i has seen all earlier steps succeed.

*The lock.* `HoldersOwn` says that the remaining life of the key and the time its owner has held it
add up to the life it was given, so with holds shorter than that (`Sound`) the key is there as long as
anybody is inside; the second reader would have to find it gone. Then a copy read under the lock
is what is stored when it is written, which makes the update an `Apply` of `AtomicRecord`; and a key
that is there belongs to a caller inside or to one that died, so that none is left when all return.

`WaitIsShared` bounds a wait, and needs no bound on holds. A caller that waits has spent no more than
a time to live and a pause (`Turn`) for each caller that has gone before it, less what the one in
front may still cost it (`Owed`): the key's remaining life and then the waiter's own pause. Taking the
lock adds one caller to those `Ahead` of every other, a tick takes one from `Owed`. The deadline
can therefore pass only after more callers than the acquire timeout has room for: `FewCallers`
is `(n - 1) * Turn <= AcquireTimeout + MaxPause`, with the constants of `lock.ts` (5 s, 0.5 s, 15 s)
up to three callers at once. For more there is no such theorem: enough dead holders in a row do
make a caller fail.

*The queue.* `QueueInv` says an entry is in one place (still to come, once in one queue, or with
one loop) and that a loop that is about to remove the head it has read owns the lock of that
queue, where the head still is. The refinement maps a loop's entry to `holder`: `RemoveHead` is
`Take`, everything before it stutters. Its part `ScansOK` ties a scan to what was due when it began:
what of that nobody has taken is still due, and a loop that finds a priority empty, without the lock
or under it, has nothing left of it, and so for all priorities it has passed, which is `NoInversion`.

*Admission.* `AdmissionInv` says that a request about to schedule holds the run its key stands for,
that one about to register has not, and that whoever was let into a group has its lock until the run
is over or the lock has lapsed (`lapsed`). Two of a group that have not lapsed would both be named by
the one key of the group, which gives `LockHolderIsAlone`. Nothing is assumed about how long a run
takes: that two runs of a group are never under way is false (section 6). `Register` is `Choose` of
`AdmissionContract`, `Schedule` is `Answer`.

*The pool.* Every one of its actions is classified by what it does to calls (`CallStep` in the proof:
nothing, refuse, begin, join the queue, hand out, give up, finish, flush) and by what it does to a
worker (`Moves`, `Grown`, killed, removed); `PoolInv` is preserved by each class rather than by each
of thirty actions. Its core: a worker that keeps a promise executes exactly that call, an idle worker
executes none, and a call waits in one place. `CallService` follows from the same classes.

*The broker.* `RunsHoldSlots` counts: the runs of `executeItem` for a resource, the users that hold it
and the slot the limiter has promised to the loop are never more than `active`, and each action changes
both sides alike, save the retry that takes a slot of its own, which only widens the gap. It counts runs
and not executors: those left behind by a timeout hold no slot (section 6). What can be said of them is
`OneExecutorEach`: an executor that is left belongs to an earlier attempt than the one under way, so
that no attempt has two. `KeepsService` likewise counts how often `executeItem` was begun for a request,
not its attempts. `InOrder` is the part
for requests of one priority: then an insertion goes behind all that waits, so that what the loop
looked at is still the head when it takes the head off, and a request is queued once and not begun, or
executed. With several priorities it is false, which is the run `Broker_v_lost`. The queue is one
sequence, and its lemmas (what `Insert` and the removal of unregistered heads leave, each item once)
carry the weight of the proof.

*The gateway.* `HostInv` ties each running execution to a handler that has not seen the end of its
connection and the dispatcher's socket to such a handler. A close that is handled cancels all
executions of the host and makes the dispatcher forget its socket, whichever connection they belong
to, so that nothing is left of the connection that ended. A late close of an old socket therefore
harms the new connection as well, which `HostInv` does not exclude (section 6). `RecordIsExact` speaks
of quiet moments only, so its proof follows the one registry operation that may be under way: with a
prompt cache there is one at a time, and until it has written, the record is what it read (`PromptInv`
in the proof).

*What the contracts give.* A refinement says that the code is no worse than its contract;
`BegunHaveTheirNeeds`, `NoneOverwritten` and `KeysStartOnce` say in one state predicate each what the
contract is worth to its user, by induction over the steps of the contract alone. They needed nothing
more about the code than the refinement. No run lists them, since the refinement is checked there.

Only model-checked: all liveness (`RunSettles`, `CancelQuiesces`, `StepIsSettled`,
`CancelReachesChild`, `EntryServed`, `CallsAreAnswered`, `Recovers`, `RequestsAreAnswered`,
`ExecutionsEnd`, `GraceEnds`), which is beyond the prover used. Every invariant and every refinement
that a passing run checks is a theorem, under hypotheses that the run's instance satisfies.

## 5. Modelling assumptions

Engine:
- each write by `updateRun` is atomic (see `WithLock`: an atomic adapter, holds below 5 s);
- one run; runs meet only in the queue, in the loops' time and in the claims;
- one daemon executes; a second process matters through its start-up sweep only;
- publication of an event does not reject; a retry's delay outlasts the publication that precedes
  the release of the claim;
- whether a failure is retryable and what an `if:` evaluates to are free choices;
- `CheckApproval` merges the endpoint's check and `resolveApproval`'s first read of the run;
- the two consecutive reads of `cleanupStaleRuns` are one snapshot (`BeginCleanup`); the jobs of
  a sweep come in any order; one start-up at a time; a needless launch finds a lapsed lease only
  where renewals may fail (`cache`), and a restart a fresh one only if it is `hasty`;
- the order of resolved and skipped dependents within a handler is free;
- step inputs and outputs, workspaces' contents, artifacts, analytics and logs are left out.

Children: one parent run with one job, all of whose steps invoke, and no other run that waits for a
child; the two writes of `markJobStarted` are one; a restart comes after the old lease has lapsed;
a failed invocation is not retried (no default policy retries its kind of error); child runs end as
they like and only their ends matter. Limits on depth and cycles are one way for an invocation to
fail.

Lock: a tick is a second; an attempt takes no time and the backoff, at most 500 ms, no more than a
tick; `MaxHold` is an assumption on storage and scheduling that the code does not enforce.

Queue: its lock is a mutual exclusion; one clock; `Reschedule` may be called by whoever holds the
entry (`rescheduleJob` is public, the worker does not use it); each adapter call is atomic.

Admission: `setIfNotExists` is atomic (Redis); idempotency keys, which live a day, do not expire. The
lock of a group ends by time alone; nothing is assumed about when.

Pool: the ids of workers that have left the map are reused; limits on requests and uptime are the
action `Expire`, at any time; `MaxDeaths` bounds crashes, failed starts and failed health checks
together. The start-up before the first call and warm-up are left out.

Broker: the in-memory limiter, which the runtime installs; its answer is awaited, its reservation is
immediate. Which errors are retried is a free choice, save that a timeout is retried while there are
retries left. The executors in `Slow` may work on after a timeout for as long as they like, the others
stop with it.

Host: one host; a prompt cache answers each call before the next event of the process, a slow one at
any time later. An execution is tried once (`routes.ts` passes no retry configuration).

## 6. Disagreements between code and documentation

Three are runs that TLC refutes; `PROJECT.json` quotes the text.

| Run | What happens |
|---|---|
| `Child_v_cancel` | `cancelRun` of a parent that waits for a child never returns: cancelling the child reconciles the parent, which is cancelled with a step still waiting, which cancels the child again; `cancelled -> cancelled` is a legal write, so nothing ends it. A start-up that finds such a parent hangs the same way |
| `Pool_v_acquire` | the acquire timer of a queued call is not stopped when a worker takes the call: the caller is told that no worker was available while the work is done |
| `Broker_v_lost` | `processQueue` peeks, awaits the limiter and dequeues whatever is the head by then: a request that overtook is taken off the queue and never executed or answered, the other is executed twice |

The following were met while modelling and are part of the models' behaviour. The properties above
hold in spite of them, or are stated so as to allow them.

Engine:
- a retried job meets its own step, still `failed`, and `failed -> running` is no legal transition: the
  retry fails at once (`engine.ts:475`);
- a job whose retry is armed counts as finished: another job's completion fails the run
  (`engine.ts:723`);
- a cancellation between `resolveApproval`'s check and its write: a job of a cancelled run is queued
  again (`engine.ts:986`);
- a death with a retry armed, or between the last job and the verdict: no sweep picks the run up
  (`engine.ts:472`);
- a released job is written `queued` and then enqueued; when the enqueue fails it stays queued for ever
  (`engine.ts:649`);
- `stop()` takes the run id for the job id and marks nothing as interrupted (`worker.ts:1224`);
- a quick approval is dequeued while the parked loop still has its claim: the entry is dropped and the
  job stays queued for ever (`worker.ts:289`; `ApprovedJobResumes` of `WorkflowEngine` states the
  contrary and is violated).

Children:
- two reconciliations of one child both resume the job: a second entry, or, when the first resumption
  has already parked the job at the next step, an illegal write that fails the parent although its
  child succeeded (`engine.ts:302` calls them idempotent);
- the entry made by a quick child is dropped while the loop that invoked it still has its claim;
- a loop whose copy of the steps is stale starts a second child for a step (`worker.ts:468` says it
  must never);
- the claim of a job is never given back when `markJobStarted` throws;
- a death between the write of the step and that of the job leaves the parent waiting for ever.

Gates (not modelled): a gate that fails is still `queued`, so that failing it is an illegal write
which masks its error (`worker.ts:806`); the entry a gate's restart makes may be dropped for the loop's
own claim (`worker.ts:1484`); a restart across jobs resets jobs that another loop may be executing
(`worker.ts:1409`).

Lock and queue: `setIfNotExists` of the in-memory adapter is not atomic; one overrun of the lock can
make a later holder, which is in time, lose its own; the state broker gives a sorted set a life of
300 s, so that a queue nobody writes for that long is lost.

Admission: the lock of a group lasts 30 minutes and is not renewed, so that a run that takes longer
shares its group with the next one (`lock.ts:8` calls the lock "run-scoped"; `GroupHasOneRun` of
`RunAdmission` states the contrary and is violated); it is given back by `finalizeRun` only, which
nothing calls, so that it also stays locked after a shorter run has ended; the loser of a race for a
key leaves its saved run and its locked group behind.

Pool: the end of a call that never waited wakes no waiting call; a start whose child exits before it
is ready never settles, and ends the recovery of capacity; the health check listens for the next
message of the child, whichever it is.

Broker: a timeout does not stop the executor, which works on while the slot is given back and taken by
another request, or while the retry starts a second executor: more may be at work than
`maxConcurrentRequests`, the "Maximum concurrent requests" of `types.ts:43` (`resource-broker.ts:380`;
`ExecutorsWithinSlots` of `ResourceBroker` states the contrary and is violated); a retry takes a slot
of its own and one release follows for both; a retry that is denied goes on all the same; `shutdown`
waits for the queue to drain after it has stopped the loop that would drain it, so that it rejects
what waits after its full timeout; one denied request at the head holds up those of other resources.

Host: a late close of an old socket cancels the executions sent over the new one and removes it from
the dispatcher while the record stays online (`ws-handler.ts:316`; `OnlineIsReachable` of
`HostConnection` states the contrary and is violated); heartbeats never bring a degraded host back
online; with a slow cache two operations on one record may undo one another.

## 7. Not modelled

Gates (`builtin:gate`): their skips and restarts act inside the step loop and would multiply the
engine's state by the iteration counts of every gate. Snapshots and replay, deletion of runs: data
handling over finished runs. Two daemons with loops of their own and the race for the lease: a sweep
of a second process is modelled, its loops are not. Cron, file watcher, job broker: clients of
`createRun`. IPC: the pattern of pending calls and timeouts that `HostConnection` has, over a local
socket. State broker: plain values, namespaces and quotas. Pool: start-up and warm-up. Gateway:
authentication, adapter calls from the host, streaming, the other routes. The platform loader, the
plugins other than workflow, the CLI, the studio and the sites are configuration, discovery, rendering
and I/O, which is most of the repository by volume and has no protocol to check. `PROJECT.json` gives
the reason for each component.

## 8. Plan

Done: status machine, engine and worker with all faults, record lock, job queue, child workflows, run
admission, worker pool, resource broker, hosts of the gateway; their abstract specifications, runs and
theorems.

What is left, in this order:
1. `Gates`: skip, restart inside a job and across jobs, iteration limit, on top of the job part of
   `WorkflowEngine`.
2. `DaemonLease`: two daemons that start together, renewals, sweeps.
3. IPC, and cron with its ticks and registrations.
4. Theorems about what the first three promise; an invariant for entries made while a job is being
   parked, which would extend `HandedOutOnce` to workflows with approvals.
