---------------------------- MODULE StateManager ----------------------------
(***************************************************************************)
(* The scheduler's task store and everything that changes it: the state    *)
(* manager (state/StateManagerImpl.java) and its callers, which are the    *)
(* client and administrator RPCs, the status updates of Mesos, the task    *)
(* groups and the assigner, preemption, draining, the throttler, the       *)
(* transient-state timeout, the kill retry, and the history pruner.        *)
(*                                                                         *)
(* Each action is one storage.write transaction (they are serialised by    *)
(* the storage write lock).  A transaction is a set of possible outcomes   *)
(* over the part of the state it works on, a record [task, work, kills];   *)
(* transactions that change several tasks compose those sets.              *)
(*                                                                         *)
(* Mesos is the environment of this module: it may report any status of    *)
(* any task at any time, late, twice or out of order.  MesosCluster        *)
(* replaces it by agents.                                                  *)
(***************************************************************************)
EXTENDS TaskStateMachine

CONSTANTS
  TaskIds,           \* identifiers TaskIdGenerator may produce
  Instances,         \* instance keys: a job and an instance id
  Configs,           \* task configurations
  IsService,         \* [Configs -> BOOLEAN]
  MaxTaskFailures,   \* [Configs -> Int], -1 for no limit
  None               \* the absent value of Optional and of unset fields

ASSUME NoneAssumption ==
  /\ None \notin TaskIds \cup Instances \cup Configs
  /\ None \notin ScheduleStatus

ASSUME ConfigAssumption ==
  /\ IsService \in [Configs -> BOOLEAN]
  /\ MaxTaskFailures \in [Configs -> Int]

VARIABLES
  task,      \* the task store: [TaskIds -> Task]
  work,      \* work the event subscribers put on the delay executor
  kills,     \* the tasks for which the last step called driver.killTask
  launches   \* the tasks for which the last step called driver.launchTask

vars == <<task, work, kills, launches>>

(***************************************************************************)
(* A task that is not in the store is in state DELETED; its other fields   *)
(* are None if the identifier was never used, and otherwise remember the   *)
(* deleted task for the properties: no action reads them.  killed says     *)
(* that a change to KILLING was accepted (taskEvents holds the statuses).  *)
(***************************************************************************)
Task == [status   : TaskState,
         instance : Instances \cup {None},
         config   : Configs \cup {None},
         failures : Nat,
         ancestor : TaskIds \cup {None},
         killed   : BOOLEAN]

NoSuchTask == [status |-> "DELETED", instance |-> None, config |-> None,
               failures |-> 0, ancestor |-> None, killed |-> FALSE]

\* Mutation: no timeout for tasks that are being killed.
TransientButKilling == {"ASSIGNED", "PREEMPTING", "RESTARTING", "DRAINING"}

TRANSIENT_STATES == {"ASSIGNED", "PREEMPTING", "RESTARTING", "KILLING", "DRAINING"}

WorkKinds == {"timeout", "killRetry", "throttle", "schedule", "prune"}

Work == WorkKinds \X TaskIds \X ScheduleStatus

Unused(tasks) == {t \in TaskIds : tasks[t].instance = None}

(***************************************************************************)
(* What the subscribers of TaskStateChange enqueue when t enters status s. *)
(* The delivery of the event and the delay of the executor are one: the    *)
(* work is pending from the transaction on, and runs at any later time.    *)
(***************************************************************************)
TimeoutWork(t, s)   == When(s \in TRANSIENT_STATES, {<<"timeout", t, s>>})
KillRetryWork(t, s) == When(s = "KILLING", {<<"killRetry", t, s>>})
ThrottleWork(t, s)  == When(s = "THROTTLED", {<<"throttle", t, s>>})
ScheduleWork(t, s)  == When(s = "PENDING", {<<"schedule", t, s>>})
PruneWork(t, s)     == When(s \in TERMINAL_STATES, {<<"prune", t, s>>})

Notify(t, s) ==
  TimeoutWork(t, s) \cup KillRetryWork(t, s) \cup ThrottleWork(t, s)
    \cup ScheduleWork(t, s) \cup PruneWork(t, s)

\* Mutation: the timers of the previous leader are not restored.
RecoveredNothing(tasks) == {}

\* storage.start posts TaskStateChange.initialized for every stored task.
Recovered(tasks) ==
  UNION {Notify(t, tasks[t].status) : t \in {u \in TaskIds : tasks[u].status # "DELETED"}}

-----------------------------------------------------------------------------
(* The state manager: one change of one task, inside a transaction.        *)

Effects(tk, to) ==
  SideEffects(tk.status, to,
              tk.config # None /\ IsService[tk.config],
              IF tk.config = None THEN 0 ELSE MaxTaskFailures[tk.config],
              tk.failures)

\* The task after INCREMENT_FAILURES, SAVE_STATE and DELETE.
Mutated(tk, to) ==
  LET fx == Effects(tk, to)
  IN  [status   |-> IF "DELETE" \in fx THEN "DELETED"
                    ELSE IF "SAVE_STATE" \in fx THEN to ELSE tk.status,
       instance |-> tk.instance,
       config   |-> tk.config,
       failures |-> IF "INCREMENT_FAILURES" \in fx THEN tk.failures + 1
                                                   ELSE tk.failures,
       ancestor |-> tk.ancestor,
       killed   |-> tk.killed \/ (to = "KILLING" /\ to \in Allowed(tk.status))]

\* The task RESCHEDULE creates: it carries the incremented failure count.
Replacement(t, tk, s) ==
  [status |-> s, instance |-> tk.instance, config |-> tk.config,
   failures |-> tk.failures, ancestor |-> t, killed |-> FALSE]

\* The task may count as flapping: it is still stored and nobody killed it.  How
\* long it was active, and whether it was restarted or drained, is left open.
MayHaveFlapped(tk) == tk.status # "DELETED" /\ ~ tk.killed

\* The penalty of the replacement depends on the ancestors of the replaced task.
RescheduledStates(tasks, ancestor) ==
  {"PENDING"}
    \cup When(ancestor # None /\ MayHaveFlapped(tasks[ancestor]), {"THROTTLED"})

\* createTask: the task is stored and announced.
CreateTask(s, n, tk) ==
  [task  |-> [s.task EXCEPT ![n] = tk],
   work  |-> s.work \cup Notify(n, tk.status),
   kills |-> s.kills]

\* Everything updateTaskAndExternalState does to the task itself.
UpdateTask(s, t, to) ==
  LET fx == Effects(s.task[t], to)
  IN  [task  |-> [s.task EXCEPT ![t] = Mutated(s.task[t], to)],
       work  |-> s.work \cup When("SAVE_STATE" \in fx, Notify(t, to)),
       kills |-> s.kills \cup When("KILL" \in fx, {t})]

UpdateTaskAndExternalState(s, t, to) ==
  IF "RESCHEDULE" \in Effects(s.task[t], to)
  THEN UNION {{CreateTask(UpdateTask(s, t, to), n,
                          Replacement(t, Mutated(s.task[t], to), st)) :
                 st \in RescheduledStates(s.task, s.task[t].ancestor)} :
                 n \in Unused(s.task)}
  ELSE {UpdateTask(s, t, to)}

\* changeState with a compare-and-set state, or without one (cas = None).
ChangeState(s, t, cas, to) ==
  IF cas # None /\ s.task[t].status # cas
  THEN {s}
  ELSE UpdateTaskAndExternalState(s, t, to)

-----------------------------------------------------------------------------
(* Transactions.                                                           *)

Store == [task |-> task, work |-> work, kills |-> {}]

\* The same, with the work item that runs this transaction taken off the queue.
StoreWithout(item) == [Store EXCEPT !.work = @ \ {item}]

Commit(outcome) ==
  /\ task'  = outcome.task
  /\ work'  = outcome.work
  /\ kills' = outcome.kills

(***************************************************************************)
(* Driver calls are made while the transaction runs.  When the log append  *)
(* fails afterwards, the process shuts down and the next leader recovers   *)
(* the store without the transaction, but the calls cannot be taken back.  *)
(***************************************************************************)
Abort(outcome) ==
  /\ task'  = task
  /\ work'  = Recovered(task)
  /\ kills' = outcome.kills

Write(outcomes) == \E o \in outcomes : Commit(o) \/ Abort(o)

Change(t, to) == Write(ChangeState(Store, t, None, to)) /\ launches' = {}

-----------------------------------------------------------------------------
(* Clients and administrators.                                             *)

ActiveIn(tasks, i) ==
  {t \in TaskIds : tasks[t].instance = i /\ tasks[t].status \in ACTIVE_STATES}

NewTask(i, c) ==
  [status |-> "PENDING", instance |-> i, config |-> c,
   failures |-> 0, ancestor |-> None, killed |-> FALSE]

\* Mutation: no collision check.
InsertColliding(i, c) ==
  /\ \E n \in Unused(task) : Write({CreateTask(Store, n, NewTask(i, c))})
  /\ launches' = {}

\* An active task of the same instance fails the call with a collision.
InsertPendingTasks(i, c) ==
  /\ ActiveIn(task, i) = {}
  /\ \E n \in Unused(task) : Write({CreateTask(Store, n, NewTask(i, c))})
  /\ launches' = {}

\* killTasks: the query may name statuses, so the task need not be active.
KillTask(t) ==
  /\ task[t].status # "DELETED"
  /\ Change(t, "KILLING")

RestartShard(t) ==
  /\ task[t].status \in ACTIVE_STATES
  /\ Change(t, "RESTARTING")

DrainTask(t) ==
  /\ task[t].status \in SLAVE_ASSIGNED_STATES
  /\ Change(t, "DRAINING")

\* An administrator may ask for any status of any identifier.
ForceTaskState(t, s) == Change(t, s)

-----------------------------------------------------------------------------
(* Mesos.                                                                  *)

\* Images of the Mesos task states under Conversions.convertProtoState.
MesosStatus == {"STARTING", "RUNNING", "FINISHED", "FAILED", "KILLED", "LOST"}

StatusUpdate(t, s) == Change(t, s)

-----------------------------------------------------------------------------
(* Work of the delay executor.                                             *)

Timeout(t, s) ==
  LET item == <<"timeout", t, s>>
  IN  /\ item \in work
      /\ Write(ChangeState(StoreWithout(item), t, s, "LOST"))
      /\ launches' = {}

\* Not a transaction: reads the store, calls the driver and enqueues itself.
KillRetry(t) ==
  LET item == <<"killRetry", t, "KILLING">>
  IN  /\ item \in work
      /\ IF task[t].status = "KILLING"
         THEN kills' = {t} /\ work' = work
         ELSE kills' = {} /\ work' = work \ {item}
      /\ launches' = {}
      /\ UNCHANGED task

Throttle(t) ==
  LET item == <<"throttle", t, "THROTTLED">>
  IN  /\ item \in work
      /\ Write(ChangeState(StoreWithout(item), t, "THROTTLED", "PENDING"))
      /\ launches' = {}

\* deleteTasks fetches the tasks first: an absent one is skipped.
Prune(t, s) ==
  LET item == <<"prune", t, s>>
  IN  /\ item \in work
      /\ Write(IF task[t].status = "DELETED" THEN {StoreWithout(item)}
               ELSE UpdateTaskAndExternalState(StoreWithout(item), t, "DELETED"))
      /\ launches' = {}

\* A task that terminates also trims its job's history, oldest tasks first.
PruneJobHistory(t) ==
  /\ \E u \in TaskIds, s \in TERMINAL_STATES : <<"prune", u, s>> \in work
  /\ task[t].status \in TERMINAL_STATES
  /\ Write(UpdateTaskAndExternalState(Store, t, "DELETED"))
  /\ launches' = {}

\* A group member that is no longer PENDING is dropped from its group.
ScheduleGone(t) ==
  LET item == <<"schedule", t, "PENDING">>
  IN  /\ item \in work
      /\ task[t].status # "PENDING"
      /\ Write({StoreWithout(item)})
      /\ launches' = {}

\* assignTask and launchTask: the launch precedes the commit.
ScheduleLaunched(t) ==
  LET item == <<"schedule", t, "PENDING">>
  IN  /\ item \in work
      /\ task[t].status = "PENDING"
      /\ Write(ChangeState(StoreWithout(item), t, None, "ASSIGNED"))
      /\ launches' = {t}

(***************************************************************************)
(* launchTask throws (the offer is gone, or the driver is not running):    *)
(* the assigner asks for LOST if the task is PENDING, in the transaction   *)
(* that has just made it ASSIGNED.  schedule returns false, so the task    *)
(* stays in its group and maybePreemptFor may run.                         *)
(***************************************************************************)
AfterLaunchFailure(s, t) ==
  UNION {ChangeState(a, t, "PENDING", "LOST") : a \in ChangeState(s, t, None, "ASSIGNED")}

\* A cached preemption victim was on a slave once, and may be gone by now.
Victims(t) ==
  {v \in TaskIds \ {t} :
     task[v].instance # None /\ task[v].status \notin {"PENDING", "THROTTLED"}}

Preempting(outcomes, victims) ==
  UNION {UNION {ChangeState(o, v, None, "PREEMPTING") : o \in outcomes} : v \in victims}

ScheduleFailed(t, outcomes) ==
  /\ <<"schedule", t, "PENDING">> \in work
  /\ task[t].status = "PENDING"
  /\ Write(outcomes \cup Preempting(outcomes, Victims(t)))
  /\ launches' = {}

ScheduleNoMatch(t) == ScheduleFailed(t, {Store})

ScheduleLaunchFailed(t) == ScheduleFailed(t, AfterLaunchFailure(Store, t))

\* The leader dies and the next one replays the store.
Failover ==
  /\ work' = Recovered(task)
  /\ kills' = {}
  /\ launches' = {}
  /\ UNCHANGED task

-----------------------------------------------------------------------------

Init ==
  /\ task = [t \in TaskIds |-> NoSuchTask]
  /\ work = {}
  /\ kills = {}
  /\ launches = {}

Requests(t) ==
  \/ KillTask(t)
  \/ RestartShard(t)
  \/ DrainTask(t)
  \/ \E s \in ScheduleStatus : ForceTaskState(t, s)

Scheduling(t) ==
  \/ ScheduleGone(t)
  \/ ScheduleLaunched(t)
  \/ ScheduleNoMatch(t)
  \/ ScheduleLaunchFailed(t)

Delayed(t) ==
  \/ \E s \in TRANSIENT_STATES : Timeout(t, s)
  \/ \E s \in TERMINAL_STATES : Prune(t, s)
  \/ PruneJobHistory(t)
  \/ KillRetry(t)
  \/ Throttle(t)

Next ==
  \/ \E i \in Instances, c \in Configs : InsertPendingTasks(i, c)
  \/ \E t \in TaskIds :
       \/ Requests(t)
       \/ Scheduling(t)
       \/ Delayed(t)
       \/ \E s \in MesosStatus : StatusUpdate(t, s)
  \/ Failover

Spec == Init /\ [][Next]_vars

-----------------------------------------------------------------------------
(* Properties.                                                             *)

\* Every task that was ever stored has a key and a configuration.
TypeOK ==
  /\ task \in [TaskIds -> Task]
  /\ \A t \in TaskIds :
       IF task[t].instance = None THEN task[t] = NoSuchTask
                                  ELSE task[t].config # None
  /\ work \in SUBSET Work
  /\ kills \in SUBSET TaskIds
  /\ launches \in SUBSET TaskIds

(***************************************************************************)
(* No instance has two active tasks in the store.  The updater, the API    *)
(* and cron take the only element of an instance's active tasks, and would *)
(* throw; here reschedules, restarts, drains, kills, timeouts, late status *)
(* updates and insertions race for the same instance.                      *)
(***************************************************************************)
OneActivePerInstance ==
  \A t, u \in TaskIds :
    /\ task[t].status \in ACTIVE_STATES
    /\ task[u].status \in ACTIVE_STATES
    /\ task[t].instance = task[u].instance
    => t = u

(***************************************************************************)
(* A task is rescheduled at most once: duplicated or late terminal status  *)
(* updates, and timeouts that race with them, create no second successor.  *)
(***************************************************************************)
SingleSuccessor ==
  \A t, u \in TaskIds :
    task[t].ancestor # None /\ task[t].ancestor = task[u].ancestor => t = u

(***************************************************************************)
(* A task that ended without having been asked to by KILLING is replaced,  *)
(* unless it finished its work or exhausted its failures; this is also so  *)
(* for a service task whose record has been pruned.                        *)
(***************************************************************************)
MustBeReplaced(tk) ==
  /\ tk.instance # None
  /\ ~ tk.killed
  /\ \/ tk.status \in {"LOST", "KILLED"}
     \/ tk.status \in TERMINAL_STATES \cup {"DELETED"} /\ IsService[tk.config]
     \/ /\ tk.status = "FAILED"
        /\ \/ MaxTaskFailures[tk.config] = -1
           \/ tk.failures < MaxTaskFailures[tk.config]

NeverAbandoned ==
  \A t \in TaskIds :
    MustBeReplaced(task[t]) => \E u \in TaskIds : task[u].ancestor = t

(***************************************************************************)
(* A task that is not a service fails at most max_task_failures times over *)
(* its whole chain of reschedules, however many of them end otherwise.     *)
(***************************************************************************)
FailureLimit(c) == IF MaxTaskFailures[c] >= 1 THEN MaxTaskFailures[c] ELSE 1

FailureBudget ==
  \A t \in TaskIds :
    /\ task[t].instance # None
    /\ ~ IsService[task[t].config]
    /\ MaxTaskFailures[task[t].config] # -1
    => /\ task[t].failures <= FailureLimit(task[t].config)
       /\ task[t].status \in ACTIVE_STATES =>
            task[t].failures < FailureLimit(task[t].config)

(***************************************************************************)
(* Every stored task has the delayed work its status calls for: a pending  *)
(* task is in a task group, a throttled one will be released, a transient  *)
(* one will time out, one being killed is killed again, a finished one is  *)
(* pruned.  Timers live in memory only, so a failover must restore them.   *)
(***************************************************************************)
NothingForgotten ==
  \A t \in TaskIds :
    task[t].status # "DELETED" => Notify(t, task[t].status) \subseteq work

(***************************************************************************)
(* A task never moves backwards in its life: no event revives a terminated *)
(* or deleted task, returns a launched task to the queue, or changes how a *)
(* task is said to have ended.                                             *)
(***************************************************************************)
Stages ==
  <<{"INIT"}, {"THROTTLED"}, {"PENDING"}, {"ASSIGNED"}, {"STARTING"}, {"RUNNING"},
    BeingStopped, {"KILLING"}, TERMINAL_STATES, {"DELETED"}>>

Precedes(s, r) ==
  \E i, j \in 1 .. 10 : i < j /\ s \in Stages[i] /\ r \in Stages[j]

NeverBackwards ==
  [][\A t \in TaskIds :
       task[t].instance # None =>
         task'[t].status = task[t].status \/ Precedes(task[t].status, task'[t].status)]_vars

-----------------------------------------------------------------------------
(* What the store shows of an instance.                                    *)

PhaseOf(s) ==
  IF s \in {"PENDING", "THROTTLED"} THEN "waiting"
  ELSE IF s \in Revives THEN "placed"
  ELSE IF s \in BeingStopped THEN "stopping" ELSE "killing"

HolderOf(tasks, t) ==
  [id |-> t, config |-> tasks[t].config, phase |-> PhaseOf(tasks[t].status)]

Holders(tasks) ==
  [i \in Instances |-> {HolderOf(tasks, t) : t \in ActiveIn(tasks, i)}]

Used(tasks) == TaskIds \ Unused(tasks)

Life == INSTANCE InstanceLife
          WITH Ids <- TaskIds, active <- Holders(task), spent <- Used(task)

(***************************************************************************)
(* The store implements the life of an instance: seen through its active   *)
(* tasks, an instance changes hands only by a kill, a completion or a      *)
(* reschedule that is one step, keeps its configuration until it is given  *)
(* up, and no identifier returns.  So the updater, which reads the active  *)
(* task of an instance between transactions, never finds the instance of a *)
(* service empty unless somebody asked for a kill, however updates,        *)
(* timeouts, preemption and failovers interleave.                          *)
(***************************************************************************)
ImplementsInstanceLife == Life!LifeSpec
=============================================================================
