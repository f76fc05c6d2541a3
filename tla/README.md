# Apache Aurora scheduler: a TLA+ verification project

Aurora is a Mesos framework: its scheduler keeps *tasks* (instances of jobs)
running on a cluster that it only sees through lossy messages, survives its own
failovers by replaying a replicated log, and is driven at the same time by
clients, administrators, timers, rolling updates and status reports.  Its web
pages, and those of the Thermos observer on each agent, follow it by polling.  This
directory holds TLA+ modules translated from the Java and JavaScript source, TLC
configurations that check them on small instances, and TLAPS proofs of the
properties that should hold for every number of tasks, instances and messages.

Paths below are relative to `src/src/main/java/org/apache/aurora/scheduler/`
unless they start with `src/`.

## 1. Inventory

| Component | State | Operations | Interacts with | What makes it correct |
|---|---|---|---|---|
| Task state machine (`state/TaskStateMachine`) | none (built from the stored task) | `updateState` | state manager | no backward step; kill what should not run; reschedule exactly what must run again |
| State manager (`state/StateManagerImpl`) | the task store | `insertPendingTasks`, `changeState`, `assignTask`, `deleteTasks` | all callers below, event bus, driver | one active task per instance; one successor per task; no task abandoned |
| Delayed work (`reconciliation/TaskTimeout`, `reconciliation/KillRetry`, `scheduling/TaskThrottler`, `async/GatedDelayExecutor`) | timers in memory | event handlers, `run` | event bus, state manager | a stale timer does nothing; every transient state ends; timers survive a failover |
| Rescheduling penalty (`scheduling/RescheduleCalculator`) | none | `getFlappingPenaltyMs`, `getStartupScheduleDelayMs` | state manager, task groups | a penalised task is released |
| History pruning (`pruning/TaskHistoryPruner`) | timers in memory | event handler, `deleteTasks` | state manager | never removes a task that still has to be replaced |
| Task groups, scheduling, assignment (`scheduling/TaskGroups`, `TaskScheduler`, `state/TaskAssigner`) | group membership, reservations | `taskChangedState`, `startGroup`, `schedule`, `maybeAssign` | offers, state manager, preemptor, driver | a pending task is never forgotten and never launched twice |
| Preemption (`preemptor/`) | cached slots | `attemptPreemptionFor`, slot search | scheduler, state manager | stale victims are harmless |
| Status updates and driver (`TaskStatusHandlerImpl`, `MesosSchedulerImpl`, `mesos/`) | queue of updates | `statusUpdate`, `run`, `launchTask`, `killTask` | Mesos, state manager | late, duplicated and reordered updates are harmless |
| Reconciliation (`reconciliation/TaskReconciler`) | none | explicit, implicit | Mesos | tasks the scheduler lost sight of are found |
| Mesos (external) | agents, messages | launch, kill, report | driver | environment |
| Offers (`offers/OfferManager`) | held offers by identifier, slave and host; bans | `addOffer`, `cancelOffer`, `getOffers`, `banOffer`, `launchTask`, `hostAttributesChanged`, `driverDisconnected`, the return timer | assigner, maintenance, driver | an offer is answered once; the indices agree; a match is missed for ever only behind an offer of a host at the job's limit |
| API (`thrift/SchedulerThriftInterface`) | none | RPCs | nearly everything | -- |
| Maintenance (`state/MaintenanceController`) | host modes | `startMaintenance`, `drain`, `endMaintenance`, `taskChangedState` | state manager, offers | a drain ends, and only when the host is empty of what it drained |
| Replicated log storage (`storage/log/`, `log/mesos/`) | the log, the stores | `start`, `write`, `snapshot`, replay | everyone | memory and log agree; transactions are atomic |
| Scheduler life cycle (`SchedulerLifecycle`) | leader state | lead, start, shut down | everyone | work starts only after recovery |
| Job updater (`updater/`) | update states, instance evaluators | start, pause, resume, abort, pulse | state manager, locks | updates end; batches stay bounded |
| Locks (`state/LockManagerImpl`) | lock store | acquire, release, validate | API, updater | one holder |
| Cron (`cron/quartz/`) | templates, triggers, deferred launches | `createJob`, `updateJob`, `deleteJob`, `startJobNow`, `doExecute` | state manager, Quartz | two runs of the same instances never overlap; an execution ends |
| Quota (`quota/`) | quota store | check | API, updater | quota never exceeded |
| Web pages (`src/src/main/webapp/js`, `src/src/main/resources/.../http/ui`, `src/src/main/python/apache/thermos/observer/http/assets`) | what is shown, calls in flight, timers, forms, IndexedDB | polls, answers, scroll events, form steps | scheduler, observer, browser | what is shown agrees with the server, and keeps up with it |
| Filters, SLA, stores, HTTP handlers | derived data, I/O | -- | -- | -- |
| Thermos executor and runner (`src/src/main/python/apache/thermos`) | checkpoint, process states | run, kill, finalise | Mesos executor | processes end, order kept |
| Command-line client (`src/src/main/python/apache/aurora/client`) | none | commands | API | -- |

Hard behaviours, each listed with its line under `hazards` in `PROJECT.json`:
updates that arrive late, twice or after a timeout; driver calls made inside a
transaction that is then lost; timers that live only in memory; cached victims,
offers and timers that are stale when used; the netsplit in which a task
reported lost is still running; the failure counter at its limit; offers that are
launched on, returned, merged and rescinded by threads without a common lock; a cron
execution that spans three transactions; answers that reach a page which has moved on.

## 2. Modules

```
TaskStateMachine            transition table, side effects       (pure)
  ^ StateManager            task store and its transactions
      ^ MesosCluster        + agents, lossy messages, reconciliation
InstanceLife                abstract: who holds an instance (StateManager implements it)
StorageOps                  logged operations, replay, coalescing (pure)
  ^ DurableStore            abstract: atomic, durable transactions
  ^ LogStorage              log, frames, snapshots, recovery; implements DurableStore
JobUpdater                  rolling updates, locks and pulses of one job
Offers                      held offers, assignment, maintenance of hosts
Cron                        one cron job and its executions
LogPailer                   viewer of a log file             (observer)
Grapher                     graph page and its polling       (scheduler)
  ^ GraphView               the parser of its queries
JobConsole                  forms and table of created jobs  (web application)
SchedulerPages              update pages                     (scheduler)
WebPages                    a browser with one of the four pages open (extends them)
MC*                         instances for TLC
*_proofs                    TLAPS proofs about the module of that name; LogStorage_proofs
                            covers StorageOps too, WebPages_proofs the four pages
```

`A ^ B` reads "B extends A".  The families meet at two interfaces that each
one states for itself: a transaction of `StateManager`, `JobUpdater`, `Offers` and `Cron` either
commits or leaves no trace, which is what `DurableStore` promises, and the tasks
of `JobUpdater` and `Cron` change the way `InstanceLife` lets an instance's active task
change (one at a time, a successor in the transaction that ends its ancestor), which
`StateManager` implements.  The
web pages share no state: `WebPages` composes them as a browser with one of them open,
for any parser of graph queries; `MCWebPages` gives it that of `GraphView`.

### The life of a task

**TaskStateMachine** is `TaskStateMachine.java`.  `Allowed(from)` is the table of
the `StateMachine.builder` call; `Followups` the callbacks attached to it, one
operator per callback (`ManageTerminatedTasks`, `ManageRestartingTask`,
`IncrementFailuresMaybeReschedule`, ...); `SideEffects` is `updateState`.  The
Java callbacks run for *illegal* transitions as well; that is why `Followups`
does not ask whether `to` is allowed, and it is what kills zombies.

**StateManager** holds the task store (`task`), the delayed work of the event
subscribers (`work`), and the driver calls of the last step (`kills`,
`launches`).  A transaction is a *set of outcomes*: `ChangeState(s, t, cas, to)`
maps the part of the state a transaction works on to the possible results (more
than one because a replacement gets a fresh identifier and perhaps a penalty).
`Write(outcomes)` commits one, or aborts it: the log append fails after the
driver calls were made, the process shuts down, and the next leader recovers the
store without the transaction.  Each caller of the state manager is an action:

| Action | Code |
|---|---|
| `InsertPendingTasks` | `StateManagerImpl.insertPendingTasks` and the API calls that use it |
| `KillTask`, `RestartShard`, `ForceTaskState` | `killTasks`, `restartShards`, `forceTaskState` of `SchedulerThriftInterface` |
| `DrainTask` | `MaintenanceController.drainTasksOnHosts` |
| `StatusUpdate` | `TaskStatusHandlerImpl.run` |
| `Timeout`, `KillRetry`, `Throttle` | `TaskTimeout`, `KillRetry`, `TaskThrottler` |
| `Prune`, `PruneJobHistory` | `TaskHistoryPruner`, by age and by history size |
| `ScheduleGone`, `ScheduleNoMatch`, `ScheduleLaunched`, `ScheduleLaunchFailed` | the outcomes of `TaskGroups.startGroup` / `TaskScheduler.schedule` / `TaskAssigner.maybeAssign`, with `Preempting` for `Preemptor.attemptPreemptionFor` |
| `Failover` | death of the leader, `LogStorage` recovery, `storage.start` events |

Mesos may report anything about any identifier at any time in this module.

**InstanceLife** is what the store promises to those that read only active tasks
(`Query.instanceScoped(..).active`): the updater's `getActiveInstance` and `KillTask`, cron,
the collision check.  An instance is empty or held by one task, of which only the
identifier, the configuration and one of four phases show.  Its turns: `Taken`
(`insertPendingTasks`), `Advanced` (assigned, asked to stop, killed), `HandedOver`
(RESCHEDULE: to a fresh task of the same configuration, in the same step) and `GivenUp`
(killed, or completed if it is not a service).  `StateManager` maps its store to it by
`Holders` and `Used`, and implements it (`ImplementsInstanceLife`).

**MesosCluster** replaces that environment by agents: messages to the driver may
be lost, updates are redelivered until acknowledged (after the commit), agents
may be partitioned while their tasks run on, and reconciliation reports what
runs and what does not.  It also checks, and proves, that it implements
`StateManager`.

### Storage

**StorageOps** has the operations a transaction records (`Op`), what replaying one
does to the stores (`ReplayOp`, from `storage/log/LogStorage.java`), and how an
operation is merged into the one before it (`CanCoalesce`, `Coalesce`, from
`storage/log/StreamManagerImpl.java`).

**LogStorage** keeps the replicated log as a sequence of frames, the volatile stores,
the open transaction or snapshot and what is left to append of it.  The write lock
admits one at a time.

| Action | Code |
|---|---|
| `Start`, `StartFails`, `Crash` | `LogStorage.prepare`/`start`, `MesosLog` becoming coordinator with a no-op, death of the process |
| `Begin`, `SaveTask`, `RemoveTask`, `RegisterFramework`, `PutEntry`, `SaveOffer`, `SetMaintenanceMode` | `LogStorage.write` and the calls of `WriteAheadStorage`, with the callers' guards |
| `WorkThrows`, `CommitEmpty`, `Commit` | the end of the caller's work: `StreamTransactionImpl.commit` |
| `AppendFrame`, `AppendFails` | one append of `StreamManagerImpl` / `MesosLog.LogStream`; a failed one may have been written |
| `Snapshot`, `Truncate`, `TruncateFails` | `LogStorage.doSnapshot`, `SnapshotStoreImpl`, `StreamManagerImpl.snapshot` |

`ReadFrame` is `readFromBeginning` with `tryDecodeFrame`: `Recoverable(log)` is the
state the next leader finds.

**DurableStore** is the promise: a transaction works on a copy, and all of it or
nothing becomes the stored state.  `LogStorage` maps the stored state to
`Recoverable(log)`, so that the append of the last frame is the commit point, and
crashes, truncation and recovery are stuttering steps.  A leader whose log writer is
disabled is mapped to having no transaction: nothing it does is ever stored.

### Job updates

**JobUpdater** is one job with its tasks, its lock, the updates in storage and what
the controller keeps in memory: the updater (the map `updates`), the pulse states,
the scheduled re-evaluations (`deferred`) and unblockings.  As in `StateManager` a
transaction maps a record of the state (`Job`) to the set of its results, composed
the way the code calls itself: `ChangeStatus` is `changeJobUpdateStatus`, `Evaluate`
is `evaluateUpdater`, `Proceed` is `OneWayJobUpdater.evaluate` with the side effects
`evaluateUpdater` performs, `Result` is `InstanceUpdater.evaluate`, `NextGroup` the
batching strategies.

| Action | Code |
|---|---|
| `Start`, `Pause`, `Resume`, `Abort`, `Pulse` | `JobUpdateControllerImpl` and `startJobUpdate` with `JobDiff` |
| `PulseTimeout`, `Unblock` | expiry of a pulse, and the work `pulse` hands to the executor |
| `InstanceChanged` | `instanceChanged` with the snapshot an event carries |
| `Reevaluate` | `getDeferredEvaluator` |
| `Failover` | loss of memory and `systemResume` |
| `TaskRuns`, `TaskStops`, `TaskStable`, `TaskEnds`, `TaskKilled`, `ClientKills`, `ClientAdds` | the tasks of the job and the requests that the lock guards |
| `AcquireLock`, `ReleaseLock` | `LockManagerImpl`; a release is not validated |

### Offers, maintenance and cron

**Offers** keeps the attribute store, the tasks as far as they occupy a host, the four
structures of `HostOffers`, the events and offers on their way, and what Mesos has
heard of each offer.  The write lock admits one transaction; the two that read the
pool and act on what they read (`resourceOffers`, `schedule`) take two steps each,
between which the driver's thread, the event bus and the return timers run.

| Action | Code |
|---|---|
| `OfferMade`, `ResourceOffers`, `AddOffer` | `MesosSchedulerImpl.resourceOffers` and `OfferManagerImpl.addOffer`: two offers of a slave are both handed back |
| `ReturnOffer` | `removeAndDecline`, after the return delay |
| `OfferRescinded`, `HostAttributesChanged`, `DriverDisconnected` | `cancelOffer`, `hostAttributesChanged`, `driverDisconnected` |
| `PickOffer`, `AssignOrBan` | `TaskAssigner.maybeAssign` with `SchedulingFilterImpl.filter`, `launchTask` and `banOffer` |
| `StartMaintenance`, `EndMaintenance`, `Drain`, `TaskChangedState` | `MaintenanceController`; the last is what ends a drain |
| `TaskEnds`, `Disconnect`, `Failover` | the environment; a new leader posts an event for every stored task |

**Cron** is one job: the stored template, the triggers Quartz holds, the execution
beyond its first transaction and the active task of each instance.

| Action | Code |
|---|---|
| `Schedule`, `Deschedule`, `Fire` | `CronJobManagerImpl`; a new schedule drops the triggers of the old one |
| `Execute` | the first transaction of `AuroraCronJob.doExecute`: launch, cancel, or remember the active tasks |
| `KillAncestors`, `Poll`, `Launch` | the second transaction, `delayedStartBackoff.doUntilSuccess`, the third transaction |
| `TaskEnds`, `TaskReplaced`, `ClientKills`, `Failover` | the tasks and the leader |

### Web pages

| Module | Code | Actions |
|---|---|---|
| `LogPailer` | `jquery.pailer.js` | `Answered`, `Failed` and `TimerFires` for each call in flight, `ScrollEvent`, `UserScrolls`, `ProcessWrites` |
| `Grapher` | `grapher.js` | `applyQuery`, `Tick`, `Answer`, `QueryFails`, `ToggleRealTime`, `Sample`; the parser is the constant operator `Parsed` |
| `GraphView` | `parser.js` | `ParseLines` with `parse`: the parser with the state of its regular expressions; the configuration of the run gives it as `Parsed` |
| `JobConsole` | `auroraClient.js` | the steps of the two forms, the answers to `createJob`, the transactions of IndexedDB (`CursorMoves`, `AddSucceeds`, ...) |
| `SchedulerPages` | `controllers.js`, `services.js` | the polling loops of the update, job and updates pages, their answers with and without a result; `getUpdateStats`, `fillInstanceSummary` |
| `SchedulerPages` | `OneWayJobUpdater`, `JobUpdateControllerImpl` | the update that the pages show, with the instance events it leaves: `evaluateUpdater`, `EvaluationThrows`, `pause`, `resume`, `abort` |

### Abstractions

* A task keeps its status, key, configuration, failure count and ancestor.
  `killed` records that a change to KILLING was accepted, which the code finds
  in `taskEvents`.  A deleted task remembers its fields for the properties only.
* Requests that change several tasks in one transaction (`killTasks` with a
  query, a batch of status updates, several preemption victims) are sequences of
  one-task transactions.  The store then reaches a superset of the states the
  code can commit, so the safety results carry over.
* The delivery of an event and the delay of the executor are one: work is
  pending from the commit on and runs at any later time.
* `MayHaveFlapped` leaves open how long a task was active, and whether it was
  restarted or drained; the code penalises a subset of what the model does.
* A log append that times out although it was written is a commit followed by
  `Failover`.  The last steps of a leader whose log has failed are not modelled:
  it writes nothing any more.
* Identifiers come from the finite set `TaskIds`.  When it is exhausted no task
  can be rescheduled; the liveness properties say so with `Exhausted`.
* Log frames: a checksum is the entry it was computed from; whether an entry needs
  chunks is left open (`ChunkCounts`).  Cron jobs, locks and quotas are one keyed
  store, as they are saved and removed in the same way.  `rewriteTask`, the
  operations of job updates and `pruneHistory` are left out.
* `TaskStoreTransactional` and `WorkMayThrow` are constants: the properties of
  storage hold if the task store rolls back (`-use_beta_db_task_store`) *or* no
  caller's work throws; remark 3 of section 3 says what happens with neither.
* Job updates: durations become facts that have or have not happened (`TaskStable`,
  `PulseTimeout`, a deferred evaluation).  PENDING stands for all active states
  before RUNNING, STOPPING for RESTARTING, PREEMPTING and DRAINING.  The snapshot of an event is taken when the task changes, so it
  never shows a task that has already run its minimal time.  Two equal undelivered
  snapshots of an instance are one.  Events replayed at storage start are handled
  before `systemResume` has made an updater, so they change nothing and `Failover`
  drops them.  The token of a lock disappears with the lock (a cascade in the
  schema), so an update holds its lock exactly while `lock` is its key.  Instance
  events (which `SchedulerPages` has), messages, quota checks and authorisation are left out; so is the ERROR of
  an update whose stored settings are invalid, which are validated when it starts.
  Initially every instance runs stably with one configuration.
* Offers: the timer of an offer may fire as long as it is held.  The slave identifier
  is not part of the attributes that are saved.  Reservations are left out.  Of the vetoes,
  `VetoOf` keeps the order and the group: maintenance, value constraints and resources are
  static, the limit (whose attribute is the host) is dynamic, and an attempt ends with
  either, but only a static one bans the offer.  Of several offers with equal labels any may
  be the first, where the code keeps an arbitrary order.  A pruned task has had its end handled before.  A transaction
  that the death of the leader cuts short is a failover before it.
* Cron: an identifier is an instance together with what the execution remembers; when
  a task ends or is replaced, its instance leaves `exec.ids`.
* Web pages: the content of an answer is computed when it is delivered, between the
  state at the request and the state now.  In the log viewer a byte is a line of the
  element, and markup is left out.  In the graph operators, constants and values are
  left out: a point records the columns it was computed from.  In the console the
  fields of the forms that are copied as they are are left out.
* Update pages: the scheduler's side is one update and the events of each instance (their
  order across instances does not matter to the pages).  Which idle instances an evaluation
  starts, and why an instance goes on, succeeds or fails, are left open, as `JobUpdater` has
  the strategies and the tasks; so more happens here than can.  What leaves events is as in
  the code: re-evaluations, tolerated failures, the events that are suppressed, the
  evaluation that starts an updater, and an evaluation that throws, which storage forgets
  and the updater does not.  A paused update stands for one that awaits a pulse.  Events of
  an instance are taken in the order in which they were saved, although storage
  sorts them by a time stamp that two of them may share.

## 3. Runs

| Run | Instance | What it shows |
|---|---|---|
| `state_manager` | 3 tasks of one instance, of a service or of a batch job with 2 failures, at most one stale timer | all invariants of `StateManager`, `NeverBackwards` and the implementation of `InstanceLife`, under every order of requests, updates, timers, aborts and failovers |
| `cluster_zombies` | 2 tasks; kills and restarts | a task the scheduler believes dead, or does not know, is found and killed |
| `cluster_timeouts` | 2 tasks, Mesos owes nothing | every transient state that has a timeout ends although every message may be lost; the cluster implements `StateManager` |
| `cluster_throttle` | 3 tasks | a penalised replacement is released, across failovers |
| `log_frames` | 1 task, 1 operation per transaction, entries of 1 or 3 frames, a log of 5, work that throws, a transactional task store | no torn or abandoned frame is ever misread; `DurableStore` is implemented, so memory and log agree when a transaction begins |
| `log_ops` | 2 tasks, 2 values, a host, a framework, a lock; 2 operations per transaction, a task store without rollback | every operation is recorded and replayed as performed, and coalescing loses nothing, for the sequences the callers produce |
| `job_update` | 2 instances, one to be changed and one to be removed, groups of 1, rollback on failure, every request | the updater, lock and pulse bookkeeping; a bounded group; nothing at work is forgotten; a finished update left what it promised |
| `offers` | 4 offers of 3 slaves of 2 hosts; a task limited to one of its job on a host and another of its job on the first host, running or ended; 1 request, 1 lost connection or leader | an offer is answered once although four threads compete for it; the indices agree; a drain ends; a match is found unless an offer of a host at the limit may come first |
| `cron` | 2 instances, 3 templates, 2 triggers, 4 runs | runs do not overlap and executions end, with replacements, kills, new templates and failovers between the transactions |
| `web_pages` | one of four pages open; files of 5 bytes in pages of 2, 3 samples, 2 queries, 2 jobs; an update that adds an instance and removes one, tolerates one failure, rolls back on more, and gets a new updater once; one failed call | text, points, table and lists agree with the server, and catch up with it; what a page says of an update has happened |

Bounds.  Every run should end in minutes on a small machine.
Three identifiers are the fewest with which a task is rescheduled
twice, hence with which a replacement can be THROTTLED (the penalty looks at the
ancestor of the replaced task) and a batch job can use up two failures.
`MaxStale = 1` bounds timers whose task has moved on: two such timers never act
on each other, as each transaction takes one.  `OneJob`
gives all tasks of `state_manager` one configuration, the service's or the batch job's: a task that is
replaced hands its configuration on, and only `HandedOver` compares those of two tasks; that it
does so among several configurations is proved (`LivesOfInstances`).
`InOrder` takes identifiers in ascending order: they are interchangeable, and
symmetry is not sound for liveness.  `MaxUpdates` bounds unacknowledged
updates per task and `MaxOffers` the launches.  `MaxLog` (the constraint
`LogBound`) bounds the length of the log; 5 positions hold an abandoned frame, the
no-op of the next leader and a complete entry of three frames, which is what a
reader can confuse.  `MaxOps = 2` is enough for coalescing, which looks at two
operations.  `MaxEvents = 1` bounds the changes of an instance by others than the
updater that are still undelivered; with those the updater makes itself, several
snapshots of an instance are in flight and may arrive in either order; `MaxPending`
(`EventBound`) bounds all of them.  With groups
of one, an instance that is added, changed or removed is met in every position of
the order; what takes a group of two is in `update_converges`.  Symmetry over identifiers (and
instances) is used only in the runs without liveness properties.
Three of the four offers give one slave a second offer while another slave of the same
host, whose agent came back with a new identifier, has one: the entry of the host then names
either.  The fourth is of another host, so that a matching offer can be behind one whose host is
at the limit, or behind one that is banned.  The constraint `Scenarios` of `MCOffers` keeps
the limit with the second host apart from faults and requests, and the second offer of a slave
from having both; that of `MCWebPages` follows what a resumption or an undone
evaluation leaves (`MaxResumes = 1`) on the page of the update while no call has been lost.
One resumption gives an instance events from two updaters, which is where duplicates are
suppressed; two instances and one tolerated failure let an update end with an instance
updated, failed or untouched.
`MaxTriggers = 2` lets a trigger wait behind an execution, `MaxRuns = 4` two runs be
launched after a collision.  A page of 2 bytes in a file of 5 is met in the middle, at the
beginning and cut by it; a line longer than a page occurs (offsets 2 to 4).
`CHECK_DEADLOCK FALSE` appears where the system may really come to rest.

Two runs are expected to fail: they state what a comment or a test says and TLC shows
the code doing otherwise.

| Run | Statement | What the code does |
|---|---|---|
| `update_scope` | `src/src/test/java/org/apache/aurora/scheduler/thrift/SchedulerThriftInterfaceTest.java:2070`: a scoped update is allowed "when unchanged instances are included in the scope" | an instance in the scope that needs no change has no desired state, and is killed |
| `update_converges` | `updater/StateEvaluator.java:25` "It's expected that it will eventually converge" | an event that is out of date makes its action throw; an instance that the same evaluation took into the group stays WORKING and nothing looks at it again |

The counterexample of `update_converges` needs a group of two and an updater that was
rebuilt (a pause, a failover and a resumption) while task changes were under way.

Remarks on the code that the models rest on or allow, without a run of their own:

1. `state/TaskAssigner.java:170` says of a failed launch "It is in the LOST state and a
   new task will move to PENDING to replace it."  The task is ASSIGNED already, so the
   change that expects PENDING does nothing, and it waits for its timeout.
2. A task in STARTING has no timeout, although `src/docs/user-guide.md:139` gives it one.
   A timeout in KILLING goes to LOST without a kill, although
   `reconciliation/TaskTimeout.java:120` requires LOST transitions to trigger one.
   RESTARTING creates the replacement when the task has ended, not "in parallel"
   (`src/docs/user-guide.md:283`).
3. `MemTaskStore` does not roll back: tasks changed by work that threw stay in memory and
   the next snapshot writes them, although `storage/log/LogStorage.java:113` says "If the
   op fails to apply to local storage we will never write the op to the log".
4. Of two saves of a host in one transaction, coalescing keeps the slave and the mode of
   the earlier one (`storage/log/StreamManagerImpl.java:353`).  `CoalescingLossless` states
   the condition under which nothing is lost.
5. An event that is out of date can make `KillTask` kill a task that already has the
   desired configuration.
6. Offers: a task may be assigned to a host that is DRAINING or DRAINED, from an offer
   whose label the event has not reached yet, and nothing drains it.  A late
   `DriverDisconnected` clears offers of the next connection as well.  The race that the
   comment of `addOffer` accepts does not happen between two offers, because
   `resourceOffers` holds the write lock.  An attempt ends at the first veto
   (`state/TaskAssigner.java:189`), and a dynamic one bans nothing (line 182): an offer of a
   host at the limit of the job, if it comes first, is met by every attempt and hides
   the offers behind it until the limit is lifted or the offer is returned.  A ban
   that was decided on a label of an earlier moment stays as long as the offer is held.
7. Cron: a deferred launch uses the template that was read when it was triggered, also
   after an update or a removal of the job.  A task that is replaced between the first
   two transactions is neither killed nor waited for: the launch collides with it and
   the run is skipped, or, when the template has been given other instances, runs beside it.
8. Log viewer: a page that failed to load is never tried again, although the page says
   "RETRYING" (`jquery.pailer.js:208`), since `paging` stays set; a second tail
   loop shows bytes twice; bytes are left out when a tail or `initialize` moves the start
   under the read of a page; a line longer than a page stops paging backwards.
9. Graph: a query applied while data is on its way may plot wrong columns from then on;
   an error that is not JSON stops the polling; `rate(rate(a))` and `((a))` are
   rejected, the line after an unknown function may be too, and `log` cannot be
   evaluated.
10. Job console: two creations that are answered together list jobs twice; after a
    parallel task of the advanced form the simple form throws; processes that take more
    than one row of the grid are ordered by column, those below each other in any order.
11. Update pages: an answer without a result ends the polling of an update's page, while
    the lists go on; the progress counts instances ever updated, also after a rollback.
    A finished update may show instances as pending, for which there was nothing to do
    (`updater/JobUpdateControllerImpl.java:602`), and as failed, which was tolerated
    (`updater/OneWayJobUpdater.java:210`): fewer are updated than the total.  An instance
    whose change was undone in storage but not in the updater may even show as updating.  An
    update that only removes instances has no desired state: `services.js:341` throws, no
    progress is shown and the polling ends.  A scope may name instances outside the total.

### Fairness

`SchedulerFairness` is weak fairness of the status handler (a queue drained by
one thread) and of timeouts (a scheduled executor); a fair step is one that
commits, so the log may fail any finite number of times.  `ThrottlerFairness` is
the same for the throttler.  `MesosFairness` is strong fairness of reconciliation,
which runs at a fixed rate, and of the arrival of kills: a kill that is repeated
for ever arrives once.  `LossySpec` does without it.  Nothing requires clients to act, offers to
arrive, or tasks to start or end.

`OffersFairness`: a thread that holds the lock goes on (weak); a pending task is tried
again, the event of a task is handled and a task told to stop ends (strong, because the
lock is taken by others in between, and locks are fair queues).  No offer, request or
return of an offer is owed.  `CronFairness`: the thread of an execution goes on, and a
task in KILLING ends, which `TransientEnds` shows for the timeouts of `StateManager`.  The
pages: while a page is open a call is answered or fails, a timer fires, an event is
dispatched and IndexedDB goes on with its transactions; the user owes nothing, and the
number of failures is finite.  `LogSpec` and `JobSpec` state no fairness: their
properties are safety.  That an update ends is approximated by `InstancesAttended`
(whatever is at work will be looked at again); the temporal form needs ENABLED of
actions that are sets of outcomes, which TLC evaluates too slowly.

## 4. Proofs

All theorems hold for every value of the constants that meets the named assumptions of
the module; for the life of a task these are `NoneAssumption` (`None` is not a task,
instance, configuration or status) and `ConfigAssumption` (types of the configuration functions).

* `TaskStateMachine_proofs`: facts about the table -- side effects are typed, a
  terminal or deleted task saves no state and is never rescheduled, and so on.
* `StateManager_proofs`: the inductive invariant `Inv` is the conjunction of
  `TasksInv` (`Typed`, `Unique`, `Succeeded`, `Single`, `Replaced`, `Budgeted`) and
  `Remembered` with the types of the other variables.  `OneActivePerInstance` is
  not inductive alone: rescheduling adds an active task of the same instance, which
  is sound only because the rescheduled one leaves the active states in the same
  transaction.  `SingleSuccessor` needs `Succeeded`: whatever has a successor has
  ended, and nothing that has ended is rescheduled again.  `NeverAbandoned` needs
  that a task in KILLING was killed.  The proof follows the code: lemmas for one
  update of one task, for `ChangeState`, for sets of outcomes, for `Write`, and then
  one step per action.
* Theorems: `TypeCorrect`, `InstancesUnique`, `SuccessorsUnique`, `TasksReplaced`,
  `FailuresBounded`, `WorkRestored`, `LifeCycleForward`.
* `LivesOfInstances`, in the same module: the store implements `InstanceLife`.  One change
  of one task is one turn of its instance (`MoveTurns`, `RescheduleTurns`), which needs
  `Unique`: without it "the" holder would be one of several.  A transaction may change two
  tasks: a preemption after the launch of another task, which are different
  instances unless the launch failed and left the task alone, so no instance turns twice
  (`PreemptAfterLaunch`, `LaunchFailureIgnored`).  Only `DELETED` and terminal
  statuses end a hold, and from the table the ones reached without a RESCHEDULE are those
  after a kill, of a batch task, or of a task that was never launched.
* `MesosCluster_proofs`: `ClusterRefinement` (every step of the cluster is a step of
  `StateManager` or leaves its variables alone) and, from it, `ClusterSafety` and
  `ClusterLives`.

* `LogStorage_proofs`.  `CoalescingLossless`: merging an operation into the one before it
  and replaying the result is replaying both, for every store and every pair of
  operations that may be merged, except two saves of a host that differ in slave or
  mode (remark 4 of section 3).  `AlwaysReadable`: whatever was appended, abandoned or
  truncated, the next leader can read the log.  Its invariant `ReadableInv` says where the
  reader of the log stands (`Readers`) and that the frames still to be appended are what
  it expects next; a crash leaves it inside an entry, and a new leader's no-op or first
  frame brings it out.  `MemoryDurable`: outside a transaction the stores in memory are
  what the log would restore.  `StorageIsDurable`: `LogStorage` implements `DurableStore`.
  Both need `DurableInv` as well: during a transaction, replaying the recorded operations
  on the state to roll back to gives the stores in memory, and that state is what the log
  would restore; so appending the last frame makes the stores in memory durable.  They hold under two hypotheses that
  the theorems name: `OneSlavePerHost`, without which coalescing two saves of a host in one
  transaction forgets the second slave, and `WorkIsUndone`, without which work that throws
  leaves the task store changed (remarks 3 and 4).  `AlwaysReadable` needs neither.
  The folds that replay operations and read frames are unrolled at the end of the sequence:
  that the fold of `q` is a function determined by its prefixes is proved by the least
  index at which two candidates would differ, since the induction theorems of the library
  cannot be instantiated.
* `JobUpdater_proofs`: `JobInv` is `JobTypeOK` with `UpdaterFollowsStatus`,
  `LockedByActive` and `PulsedWhileActive`, for any number of instances, updates,
  configurations and any settings, under `UpdateAssumption` and `NoneAssumption`.  It
  is inductive as it stands, but not inside a transaction: between the change of a
  status and the end of the evaluation it starts, update and updater disagree.  The
  proof therefore follows the transaction record: `Open(j, u)` says that only update
  `u` may be out of step, `Settled(j, u)` that it is not, `Others` that no other update
  is active; lemmas show that `Stopped`, `Act`, `Proceed`, `Rolling`, `ChangeStatus` and
  `Evaluate` take the first to the second, and then there is one step per action.
  Theorems: `UpdateTypes`, `UpdaterKept`, `LockReleased`, `PulsesKept`.  What the updater
  achieves needs a second invariant, `WorkInv`, along the same transactions: the updater
  works on the instructions in storage (`Instructed`), at most a group is WORKING, an
  instance that is WORKING is `Attended` (an event, a deferred evaluation or a task that
  must change is on its way), and while the update holds the lock the instances that are
  done are as they should be (`Achieved`).  Theorems: `WorkSound`; `GroupsBounded`, for any
  settings; `InstancesWatched` and `UpdatesDeliver` if `OneGroupAtATime` (groups of one, or
  the batch strategy), `UpdatesDeliver` also if updates have no scope.  Neither hypothesis
  can be dropped: `update_converges` and `update_scope` are the counterexamples.  A consequence
  of `JobInv`: the check "Updater already exists" of `changeJobUpdateStatus` never fails, and no
  deferred evaluation meets another update's updater.

* `Cron_proofs`: `CronInv` is `CronTypeOK`, `WaitsForDying` and `RunsDoNotOverlap` with
  `OfItsRun`: a task is one of the instances of its run.  A launch is the only step that could make runs
  overlap, and there the new run's instances are free, while every other run with the
  same instances would have one of them active.  Theorems: `CronTypes`, `RunsSeparate`, `ExecutionsWait`, for any
  templates, instances and bounds, under `CronAssumption`.
* `Offers_proofs`: `OffersInv` is `OffersTypeOK`, `IndicesAgree`, `AnsweredOnce` and
  `DrainedIsEmpty`, with `OfferOnce` and `TasksHoused`.  `AnsweredOnce` is not inductive:
  it takes `OfferOnce`, which says that an offer is at one place at a time (in the inbox,
  in the hands of the transaction that adds it, or held) and that none of these was
  answered.  `DrainedIsEmpty` takes `TasksHoused`: an active task has a host that is
  known.  Lemmas state what `Add`, `Remove` and `UpdateHostAttributes` do to the
  indices; then there is one lemma per action.  Theorems: `OffersTypes`,
  `OffersAnsweredOnce`, `IndicesKept`, `DrainedHostsEmpty` and, from the same invariant, the
  action property `OpenOffersKept` (an offer that is still open is dropped without an
  answer only by the event of a lost connection), for any offers, slaves, hosts and tasks, under
  `OfferAssumption` and `TaskAssumption`.
* `WebPages_proofs`, an inductive invariant for each page, types included.
  `LogIsShown` (`PailerInv`): as long as reads do not disturb each other the text shown is the
  piece of the file between `start` and `end`; `PagesFit` and `TailsFit` say that the answers
  under way continue it on their side, for any page size and place of newlines, under
  `PailerSizes`.  `PailerBounds` (the bytes shown lie in the file, the scroll position in the
  text, and no call is pending twice) holds whether or not reads disturb each other.
  `PlotsInOrder` (`GraphInv`): the points are the latest samples, each once and
  in order, from the columns of their own query; `RequestInv` relates the request under way
  to the query and the last time stamp.  It holds for *every* parser `Parsed` whose
  expressions are made of lines of the query (`ParsedAssumption`), under
  `maxPointsAssumption`.  `TableIsRefreshed` (`TableInv`: `AllListed`, `InOrder`): the table
  lists every stored job when the database is at rest; until then some
  refresh has listed every key behind its cursor.  `SentAsArranged` (`FormInv`): a configuration that is sent
  orders its own processes.  Both under `ListsAssumption`.  `PagesAreHonest` (`PagesInv`): an
  update's page claims neither more nor less than has happened, for any ranges, scope and
  number of tolerated failures.  `Sound` says of every instance what its events may be whatever updaters it
  has had (`Kept`): only those of the direction of the update, begun before ended, ended when
  the updater has done with it, and none only if no evaluation ever left it at work; so a finished update
  leaves each instance without events or with an end as the last one.  Instances with a
  change that storage rolled back are excepted, and the counts are compared only if the scope
  lies within the ranges.  Under `RangesAssumption`, `SettingsAssumption` and
  `LostAssumption`.  A step of the browser is a step of the page that is open and a stutter of
  the others (`PageOpen`), so the invariants hold together: `WebTypes` states the types of the
  whole browser, `WebPagesAreTrue` the pages' properties, both of `WebSpec`.

The type invariants of `JobUpdater`, `Offers` and `Cron` are theorems and not repeated in
the runs.

Only model-checked: the liveness properties (`ZombiesAreKilled`, `TransientEnds`,
`ThrottledIsReleased`, `DrainEnds`, `MatchIsFound`, `ExecutionEnds` and those of the
pages), which need fairness and ENABLED, out of the prover's reach; and `ParserForgets`, whose
parser is a RECURSIVE operator over its input.

## 5. Plan

What is left, in the order of its worth:

1. *Preemption and reservations* (`preemptor/`, `scheduling/TaskScheduler`): a
   reservation does not starve the other tasks; victims are not killed for nothing.
2. *Scheduler life cycle* (`SchedulerLifecycle`): nothing is scheduled before recovery
   is complete, and every failure on the way to leading ends in shutdown.
3. *Thermos runner*: process states and the recovery from its checkpoint.

## 6. Not modelled

* *Quota, filters, SLA statistics*: pure functions of data the models abstract.
* *Thermos executor and runner, command-line client*: programs of their own in Python.
  `MesosCluster` models the executor from the updates the scheduler expects, and the
  scheduler accepts the calls of a client in any order.
* *Reservations, back-off and rate limits of scheduling; registration and shutdown of the
  leader; read-only calls, authentication and validation of the API*.
* *Pages without state of their own*: the formatting filters, instance ranges, table
  widgets, charts and routing of the scheduler's pages, the pages that show one answer as it is, and
  `observer.js`, which no page includes.
* *Vendored JavaScript.*  Most lines of JavaScript in the repository belong to copies of
  jQuery, jQuery UI, Bootstrap, Handlebars and other libraries.  They are not Aurora's
  code; the pages are modelled from the calls they make to them.  Of the JavaScript that is
  Aurora's own, the map covers what keeps state or computes what the pages show, which is
  a small share of all JavaScript lines.

Of the components modelled in part, `PROJECT.json` says for each what was left out.
