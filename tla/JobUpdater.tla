----------------------------- MODULE JobUpdater -----------------------------
(***************************************************************************)
(* Rolling updates of one job: updater/JobUpdateControllerImpl.java with   *)
(* JobUpdateStateMachine, UpdateFactory, OneWayJobUpdater, InstanceUpdater,*)
(* the batching strategies and JobDiff, the job's lock (LockManagerImpl)   *)
(* and the pulses of coordinated updates.                                  *)
(*                                                                         *)
(* An update lives in storage; the updater that works on it lives in       *)
(* memory, and is built anew when the update is resumed or the scheduler   *)
(* fails over.  Task changes reach it as events that carry a snapshot of   *)
(* the task, from a pool of threads: late, and in any order.               *)
(***************************************************************************)
EXTENDS Integers, FiniteSets

CONSTANTS
  Instances,               \* instance numbers
  Configs,                 \* task configurations
  UpdateKeys,              \* identifiers of updates
  Client,                  \* a client that locks the job itself
  None,                    \* the absence of a task, configuration, update or lock
  Counts,                  \* the numbers of instances an update may ask for
  Scopes,                  \* updateOnlyTheseInstances; {} for all
  Requests,                \* a subset of {"pause", "abort", "locks", "tasks", "pulse"}
  GroupSize,               \* updateGroupSize
  BatchStrategy,           \* waitForBatchCompletion
  MaxPerInstanceFailures,
  MaxFailedInstances,
  RollbackOnFailure,
  MaxEvents                \* bound on the changes of an instance not yet delivered

ASSUME UpdateAssumption ==
  /\ Instances \subseteq Nat /\ IsFiniteSet(Instances)
  /\ None \notin Configs \cup UpdateKeys \cup {Client}
  /\ Client \notin UpdateKeys
  /\ Counts \subseteq Nat
  /\ Scopes \subseteq SUBSET Instances
  /\ GroupSize \in Nat \ {0}
  /\ BatchStrategy \in BOOLEAN
  /\ MaxPerInstanceFailures \in Nat
  /\ MaxFailedInstances \in Nat
  /\ RollbackOnFailure \in BOOLEAN
  /\ MaxEvents \in Nat \ {0}

VARIABLES
  task,        \* [Instances -> the active task, or None]
  events,      \* task changes not yet delivered to the controller
  update,      \* the updates in storage
  lock,        \* the holder of the job's lock
  updater,     \* the updater at work, in memory (the map "updates")
  pulse,       \* pulse states, in memory
  deferred,    \* scheduled re-evaluations
  unblocks     \* scheduled attempts to unblock

updateVars == <<task, events, update, lock, updater, pulse, deferred, unblocks>>

-----------------------------------------------------------------------------
(* JobUpdateStateMachine.                                                  *)

Forward == {"ROLLING_FORWARD", "ROLL_FORWARD_PAUSED", "ROLL_FORWARD_AWAITING_PULSE"}
Backward == {"ROLLING_BACK", "ROLL_BACK_PAUSED", "ROLL_BACK_AWAITING_PULSE"}

ACTIVE_JOB_UPDATE_STATES == Forward \cup Backward

AUTO_RESUME_STATES == {"ROLLING_FORWARD", "ROLLING_BACK"}
PausedStates == {"ROLL_FORWARD_PAUSED", "ROLL_BACK_PAUSED"}
BlockedStates == {"ROLL_FORWARD_AWAITING_PULSE", "ROLL_BACK_AWAITING_PULSE"}

TERMINAL_STATES == {"ROLLED_FORWARD", "ROLLED_BACK", "ABORTED", "FAILED", "ERROR"}

UpdateStatus == ACTIVE_JOB_UPDATE_STATES \cup TERMINAL_STATES \cup {"NONE"}

\* The three behaviour maps differ only in which of three states they lead to.
RollingState(s) == IF s \in Forward THEN "ROLLING_FORWARD" ELSE "ROLLING_BACK"
PauseState(s) == IF s \in Forward THEN "ROLL_FORWARD_PAUSED" ELSE "ROLL_BACK_PAUSED"
BlockedState(s) ==
  IF s \in Forward THEN "ROLL_FORWARD_AWAITING_PULSE" ELSE "ROLL_BACK_AWAITING_PULSE"

-----------------------------------------------------------------------------
(* Tasks, as the updater sees them.  PENDING stands for every active state *)
(* before RUNNING, STOPPING for RESTARTING, PREEMPTING and DRAINING;       *)
(* stable for having run the minimal time.  A snapshot may also show a     *)
(* task that ENDED without a request of the job's owner, or was KILLED.    *)

ActiveStatus == {"PENDING", "RUNNING", "STOPPING", "KILLING"}

Snapshot(c, s) == [cfg |-> c, st |-> s, stable |-> FALSE]

Task == [cfg : Configs, st : ActiveStatus, stable : BOOLEAN]

Event == [cfg : Configs, st : ActiveStatus \cup {"ENDED", "KILLED"}, stable : {FALSE}]

Cfg(t) == IF t = None THEN None ELSE t.cfg

\* isTaskPresent, isKillable
Present(t) == t # None /\ t.st # "KILLED"
Killable(t) == t.st \in {"PENDING", "RUNNING", "STOPPING"}

-----------------------------------------------------------------------------
(* InstanceUpdater, OneWayJobUpdater and the strategies.                   *)

InstanceState == {"OUT", "IDLE", "WORKING", "SUCCEEDED", "FAILED"}

Updater ==
  [key : UpdateKeys, forward : BOOLEAN,
   target : [Instances -> Configs \cup {None}],
   state : [Instances -> InstanceState],
   failures : [Instances -> Nat]]

ByState(w, s) == {i \in Instances : w.state[i] = s}

\* UpdateFactory.newUpdate
NewUpdater(u, up, forward) ==
  [key |-> u, forward |-> forward,
   target |-> IF forward THEN up.desired ELSE up.initial,
   state |-> [i \in Instances |-> IF i \in up.instances THEN "IDLE" ELSE "OUT"],
   failures |-> [i \in Instances |-> 0]]

\* A task of the desired configuration has terminated.
Failure(w, i, t) ==
  /\ w.target[i] # None
  /\ Present(t)
  /\ t.cfg = w.target[i]
  /\ t.st = "ENDED"

\* InstanceUpdater.evaluate
Result(w, i, t) ==
  CASE Failure(w, i, t) ->
         IF w.failures[i] + 1 > MaxPerInstanceFailures THEN "FAILED_TERMINATED" ELSE "AWAIT"
    [] Present(t) /\ t.cfg = w.target[i] /\ t.st = "RUNNING" ->
         IF t.stable THEN "SUCCEEDED" ELSE "WATCH"
    [] Present(t) /\ t.cfg = w.target[i] /\ t.st \in {"PENDING", "STOPPING", "KILLING"} -> "AWAIT"
    [] Present(t) /\ t.cfg # w.target[i] -> IF Killable(t) THEN "KILL" ELSE "AWAIT"
    [] ~ Present(t) -> IF w.target[i] = None THEN "SUCCEEDED" ELSE "REPLACE"

\* Mutation: a killed task counts as gone before it is.
StateAfterKill(r) ==
  CASE r \in {"SUCCEEDED", "KILL"} -> "SUCCEEDED"
    [] r = "FAILED_TERMINATED" -> "FAILED"
    [] OTHER -> "WORKING"

\* InstanceUpdate.evaluate: the state an instance is in after a result.
StateAfter(r) ==
  CASE r = "SUCCEEDED" -> "SUCCEEDED"
    [] r = "FAILED_TERMINATED" -> "FAILED"
    [] OTHER -> "WORKING"

\* evaluateInstances: only an instance that is being worked on.
EvaluateInstance(w, i, t) ==
  IF w.state[i] # "WORKING" THEN w
  ELSE [w EXCEPT !.state[i] = StateAfter(Result(w, i, t)),
                 !.failures[i] = IF Failure(w, i, t) THEN @ + 1 ELSE @]

\* computeJobUpdateStatus
OneWayStatus(w) ==
  IF Cardinality(ByState(w, "FAILED")) > MaxFailedInstances THEN "FAILED"
  ELSE IF ByState(w, "IDLE") \cup ByState(w, "WORKING") = {} THEN "SUCCEEDED"
  ELSE "WORKING"

\* How many idle instances come before i: upwards, or downwards in a rollback.
Rank(w, i) ==
  Cardinality({j \in ByState(w, "IDLE") : IF w.forward THEN j < i ELSE j > i})

\* Mutation: instances at work do not count.
NextGroupUnlimited(w, tasks) == {i \in ByState(w, "IDLE") : Rank(w, i) < GroupSize}

\* startNextInstanceGroup: with nothing at work, whole groups are started until
\* one of them has something to do; otherwise the group is filled up, unless
\* it has to be completed first.
NextGroup(w, tasks) ==
  LET idle == ByState(w, "IDLE")
      working == ByState(w, "WORKING")
      Group(i) == Rank(w, i) \div GroupSize
  IN  IF working = {}
      THEN {i \in idle : \A j \in idle :
              Result(w, j, tasks[j]) # "SUCCEEDED" => Group(i) <= Group(j)}
      ELSE {i \in idle : ~ BatchStrategy /\ Rank(w, i) < GroupSize - Cardinality(working)}

StartInstances(w, group, tasks) ==
  [w EXCEPT !.state = [i \in Instances |->
     IF i \in group THEN StateAfter(Result(w, i, tasks[i])) ELSE w.state[i]]]

-----------------------------------------------------------------------------
(* What is stored of an update: the instructions say what its instances    *)
(* were like before and should be like after; proposed is what the request *)
(* asked for.  PulseState is what the pulse handler keeps.                 *)

Update ==
  [status : UpdateStatus, coordinated : BOOLEAN, instances : SUBSET Instances,
   proposed : [Instances -> Configs \cup {None}],
   initial : [Instances -> Configs \cup {None}],
   desired : [Instances -> Configs \cup {None}]]

PulseState == [status : ACTIVE_JOB_UPDATE_STATES, expired : BOOLEAN]

ASSUME NoneAssumption == None \notin Task \cup Event \cup Updater \cup PulseState

-----------------------------------------------------------------------------
(* JobUpdateControllerImpl.  A transaction maps the part of the state it   *)
(* works on to the set of its possible results.                            *)

Job == [task |-> task, events |-> events, update |-> update, lock |-> lock,
        updater |-> updater, pulse |-> pulse, deferred |-> deferred]

PulseExpired(j, u) ==
  j.update[u].coordinated /\ (j.pulse[u] = None \/ j.pulse[u].expired)

PulseWithStatus(p, s) == IF p = None THEN None ELSE [p EXCEPT !.status = s]

\* Mutation: the lock outlives the update.
StoppedLocked(j, u, s) ==
  [j EXCEPT
     !.update[u].status = s,
     !.updater = None,
     !.pulse[u] = IF s \in TERMINAL_STATES THEN None ELSE PulseWithStatus(@, s)]

\* Mutation: the updater outlives a pause.
StoppedAtEnd(j, u, s) ==
  [j EXCEPT
     !.update[u].status = s,
     !.updater = IF s \in TERMINAL_STATES THEN None ELSE @,
     !.lock = IF s \in TERMINAL_STATES /\ @ = u THEN None ELSE @,
     !.pulse[u] = IF s \in TERMINAL_STATES THEN None ELSE PulseWithStatus(@, s)]

\* changeJobUpdateStatus to a state in which nothing is watched.
Stopped(j, u, s) ==
  [j EXCEPT
     !.update[u].status = s,
     !.updater = None,
     !.lock = IF s \in TERMINAL_STATES /\ @ = u THEN None ELSE @,
     !.pulse[u] = IF s \in TERMINAL_STATES THEN None ELSE PulseWithStatus(@, s)]

\* The pulse has expired.  One may arrive after that was seen and before the
\* status is changed: it is recorded and unblocks nothing.
Blocked(j, u) ==
  LET b == Stopped(j, u, BlockedState(j.update[u].status))
  IN  IF b.pulse[u] = None THEN {b}
      ELSE {[b EXCEPT !.pulse[u].expired = e] : e \in BOOLEAN}

\* A stale snapshot asks for what can no longer be done: insertPendingTasks finds
\* the instance active, or KillTask finds no active task.  The changed instance is
\* acted upon first, so nothing has been done yet when it throws.
Throws(j, effect) ==
  \E i \in DOMAIN effect :
    \/ effect[i] = "REPLACE" /\ j.task[i] # None
    \/ effect[i] = "KILL" /\ j.task[i] = None

\* changeState(KILLING) deletes a task that has not been assigned yet.
Killed(t, deleted) == IF deleted THEN None ELSE Snapshot(t.cfg, "KILLING")

\* The instances an evaluation had one of the results rs for.
With(effect, rs) == {i \in DOMAIN effect : effect[i] \in rs}

\* The tasks after the instance action handlers have run.
TasksAfter(j, effect, gone) ==
  [i \in Instances |->
     IF i \in With(effect, {"REPLACE"}) THEN Snapshot(j.updater.target[i], "PENDING")
     ELSE IF i \in With(effect, {"KILL"}) THEN Killed(j.task[i], i \in gone)
     ELSE j.task[i]]

\* The actions of an evaluation, and the re-evaluations they ask for.
Acted(j, effect, tasks) ==
  [j EXCEPT
     !.task = tasks,
     !.events = @ \cup {<<i, tasks[i]>> : i \in With(effect, {"REPLACE", "KILL"})},
     !.deferred = @ \cup {<<i, j.updater.key>> : i \in With(effect, {"REPLACE", "KILL", "WATCH"})}]

\* Mutation: nobody looks at the instance again.
ActOnce(j, effect) ==
  {[Acted(j, effect, TasksAfter(j, effect, {})) EXCEPT !.deferred = j.deferred]}

Act(j, effect) ==
  {Acted(j, effect, TasksAfter(j, effect, gone)) :
     gone \in SUBSET {i \in With(effect, {"KILL"}) : j.task[i].st = "PENDING"}}

\* OneWayJobUpdater.evaluate and what evaluateUpdater makes of it, once the changed
\* instances are evaluated as w with the results in effect.  When an action throws,
\* storage is rolled back, but not the updater.
Proceed(j, u, w, effect) ==
  LET group == IF OneWayStatus(w) = "WORKING" THEN NextGroup(w, j.task) ELSE {}
      next == [j EXCEPT !.updater = StartInstances(w, group, j.task)]
      effects == [i \in DOMAIN effect \cup group |->
                    IF i \in group THEN Result(w, i, j.task[i]) ELSE effect[i]]
  IN  IF OneWayStatus(next.updater) = "SUCCEEDED"
      THEN {Stopped(next, u, IF w.forward THEN "ROLLED_FORWARD" ELSE "ROLLED_BACK")}
      ELSE IF Throws(j, effect) THEN {next}
      ELSE Act(next, effects)

\* evaluateUpdater of a new updater.
FirstEvaluation(j, u) ==
  IF j.lock # u THEN {Stopped(j, u, "ERROR")}
  ELSE IF PulseExpired(j, u) THEN Blocked(j, u)
  ELSE Proceed(j, u, j.updater, << >>)

\* changeJobUpdateStatus to a state in which an updater works.
Rolling(j, u, s) ==
  FirstEvaluation(
    [j EXCEPT
       !.update[u].status = s,
       !.updater = NewUpdater(u, j.update[u], s = "ROLLING_FORWARD"),
       !.pulse[u] = PulseWithStatus(@, s)],
    u)

\* changeJobUpdateStatus
ChangeStatus(j, u, s) ==
  IF j.lock # u THEN {Stopped(j, u, "ERROR")}
  ELSE IF s \notin AUTO_RESUME_STATES THEN {Stopped(j, u, s)}
  ELSE IF s = "ROLLING_FORWARD" /\ j.updater # None THEN {j}
  ELSE Rolling(j, u, s)

\* evaluateUpdater after a change of instance i, of which t is known.
Evaluate(j, u, i, t) ==
  LET w == EvaluateInstance(j.updater, i, t)
      effect == [k \in {i} \cap ByState(j.updater, "WORKING") |-> Result(j.updater, i, t)]
  IN  IF j.lock # u THEN {Stopped(j, u, "ERROR")}
      ELSE IF PulseExpired(j, u) THEN Blocked(j, u)
      ELSE IF OneWayStatus(w) # "FAILED" THEN Proceed(j, u, w, effect)
      ELSE IF w.forward /\ RollbackOnFailure THEN Rolling(j, u, "ROLLING_BACK")
      ELSE {Stopped(j, u, "FAILED")}

Commit(j) ==
  /\ task' = j.task
  /\ events' = j.events
  /\ update' = j.update
  /\ lock' = j.lock
  /\ updater' = j.updater
  /\ pulse' = j.pulse
  /\ deferred' = j.deferred

Write(outcomes) == \E j \in outcomes : Commit(j)

-----------------------------------------------------------------------------
(* Requests.                                                               *)

NoUpdate ==
  [status |-> "NONE", coordinated |-> FALSE, instances |-> {},
   proposed |-> [i \in Instances |-> None],
   initial |-> [i \in Instances |-> None],
   desired |-> [i \in Instances |-> None]]

IsActive(u) == update[u].status \in ACTIVE_JOB_UPDATE_STATES

\* JobDiff.compute and the instructions startJobUpdate makes of it.
Instructions(c, n, scope, coordinated) ==
  LET proposed == [i \in Instances |-> IF i < n THEN c ELSE None]
      limit == IF scope = {} THEN Instances ELSE scope
      changed == {i \in limit : Cfg(task[i]) # proposed[i]}
  IN  [status |-> "NONE", coordinated |-> coordinated,
       instances |-> IF scope = {} THEN changed ELSE scope,
       proposed |-> proposed,
       initial |-> [i \in Instances |-> IF i \in changed THEN Cfg(task[i]) ELSE None],
       desired |-> [i \in Instances |-> IF i \in changed THEN proposed[i] ELSE None]]

\* The scope may name instances that the update adds, and any that exist.
InScope(c, n, scope) == \A i \in scope : i < n \/ task[i] # None

Start(u, c, n, scope, coordinated) ==
  LET up == Instructions(c, n, scope, coordinated)
      s == IF coordinated THEN "ROLL_FORWARD_AWAITING_PULSE" ELSE "ROLLING_FORWARD"
      j == [Job EXCEPT
              !.update[u] = up,
              !.lock = u,
              !.pulse[u] = IF coordinated THEN [status |-> s, expired |-> TRUE] ELSE None]
  IN  /\ update[u].status = "NONE"
      /\ coordinated => "pulse" \in Requests
      /\ InScope(c, n, scope)
      /\ up.initial # NoUpdate.initial \/ up.desired # NoUpdate.desired
      /\ ~ \E v \in UpdateKeys : IsActive(v)
      /\ lock = None
      /\ Write(ChangeStatus(j, u, s))
      /\ UNCHANGED unblocks

Pause(u) ==
  /\ "pause" \in Requests
  /\ IsActive(u) /\ update[u].status \notin PausedStates
  /\ Write(ChangeStatus(Job, u, PauseState(update[u].status)))
  /\ UNCHANGED unblocks

\* Refused for an update that is blocked although its pulse has not expired.
Resume(u) ==
  LET s == update[u].status
      to == IF PulseExpired(Job, u) THEN BlockedState(s) ELSE RollingState(s)
  IN  /\ s \in PausedStates
      /\ Write(ChangeStatus(Job, u, to))
      /\ UNCHANGED unblocks

Abort(u) ==
  /\ "abort" \in Requests
  /\ IsActive(u)
  /\ Write(ChangeStatus(Job, u, "ABORTED"))
  /\ UNCHANGED unblocks

\* pulse: the state before the pulse decides whether an unblocking is scheduled.
Pulse(u) ==
  /\ "pulse" \in Requests
  /\ pulse[u] # None
  /\ pulse' = [pulse EXCEPT ![u].expired = FALSE]
  /\ unblocks' = IF pulse[u].status \in BlockedStates THEN unblocks \cup {u} ELSE unblocks
  /\ UNCHANGED <<task, events, update, lock, updater, deferred>>

\* The timeout of the pulse passes.
PulseTimeout(u) ==
  /\ pulse[u] # None
  /\ pulse' = [pulse EXCEPT ![u].expired = TRUE]
  /\ UNCHANGED <<task, events, update, lock, updater, deferred, unblocks>>

\* Does nothing, or is refused, unless the update is still blocked.
Unblock(u) ==
  /\ u \in unblocks
  /\ unblocks' = unblocks \ {u}
  /\ IF update[u].status \in BlockedStates
     THEN Write(ChangeStatus(Job, u, RollingState(update[u].status)))
     ELSE UNCHANGED <<task, events, update, lock, updater, pulse, deferred>>

-----------------------------------------------------------------------------
(* Events, re-evaluations and failovers.                                   *)

\* instanceChanged.  An exception is logged, and the event is gone.
InstanceChanged(i, t) ==
  LET j == [Job EXCEPT !.events = @ \ {<<i, t>>}]
  IN  /\ <<i, t>> \in events
      /\ IF updater # None /\ updater.state[i] # "OUT"
         THEN \E u \in UpdateKeys : IsActive(u) /\ Write(Evaluate(j, u, i, t))
         ELSE Commit(j)
      /\ UNCHANGED unblocks

\* The deferred evaluator uses the active task.
Reevaluate(i, u) ==
  LET j == [Job EXCEPT !.deferred = @ \ {<<i, u>>}]
  IN  /\ <<i, u>> \in deferred
      /\ IF update[u].status \in AUTO_RESUME_STATES
         THEN Write(Evaluate(j, u, i, task[i]))
         ELSE Commit(j)
      /\ UNCHANGED unblocks

\* Mutation: pulses are forgotten.
RestoredWithoutPulse(j) ==
  [j EXCEPT !.events = {}, !.updater = None, !.deferred = {},
            !.pulse = [u \in UpdateKeys |-> None]]

\* What is in memory is lost; systemResume restores the pulse states as expired.
Restored(j) ==
  [j EXCEPT !.events = {}, !.updater = None, !.deferred = {},
            !.pulse = [u \in UpdateKeys |->
               IF IsActive(u) /\ update[u].coordinated
               THEN [status |-> update[u].status, expired |-> TRUE]
               ELSE None]]

\* A new leader: systemResume, before it is advertised.
Failover ==
  /\ unblocks' = {}
  /\ \/ \E u \in UpdateKeys :
          /\ update[u].status \in AUTO_RESUME_STATES
          /\ Write(ChangeStatus(Restored(Job), u, update[u].status))
     \/ /\ \A u \in UpdateKeys : update[u].status \notin AUTO_RESUME_STATES
        /\ Commit(Restored(Job))

-----------------------------------------------------------------------------
(* The tasks and the clients of the job.                                   *)

\* A change of a task by others than the updater; the changes that an instance
\* may undergo before the controller hears of them are bounded.
SetTask(i, t, report) ==
  /\ report = {} \/ Cardinality({e \in events : e[1] = i}) < MaxEvents
  /\ task' = [task EXCEPT ![i] = t]
  /\ events' = events \cup report
  /\ UNCHANGED <<update, lock, updater, pulse, deferred, unblocks>>

TaskRuns(i) ==
  /\ task[i] # None /\ task[i].st = "PENDING"
  /\ SetTask(i, Snapshot(task[i].cfg, "RUNNING"), {<<i, Snapshot(task[i].cfg, "RUNNING")>>})

\* A running task is told to restart, or to make way for another or for maintenance.
TaskStops(i) ==
  /\ task[i] # None /\ task[i].st = "RUNNING"
  /\ SetTask(i, Snapshot(task[i].cfg, "STOPPING"), {<<i, Snapshot(task[i].cfg, "STOPPING")>>})

\* The minimal running time passes.
TaskStable(i) ==
  /\ task[i] # None /\ task[i].st = "RUNNING" /\ ~ task[i].stable
  /\ SetTask(i, [task[i] EXCEPT !.stable = TRUE], {})

\* A task that ends by itself is rescheduled in the same transaction.
TaskEnds(i) ==
  /\ task[i] # None /\ Killable(task[i])
  /\ SetTask(i, Snapshot(task[i].cfg, "PENDING"),
             {<<i, Snapshot(task[i].cfg, s)>> : s \in {"ENDED", "PENDING"}})

TaskKilled(i) ==
  /\ task[i] # None /\ task[i].st = "KILLING"
  /\ SetTask(i, None, {<<i, Snapshot(task[i].cfg, "KILLED")>>})

\* killTasks and addInstances are refused while somebody else holds the lock.
ClientKills(i) ==
  /\ "tasks" \in Requests
  /\ lock \in {None, Client}
  /\ task[i] # None /\ Killable(task[i])
  /\ \E deleted \in {FALSE, task[i].st = "PENDING"} :
       SetTask(i, Killed(task[i], deleted), {<<i, Killed(task[i], deleted)>>})

ClientAdds(i, c) ==
  /\ "tasks" \in Requests
  /\ lock \in {None, Client}
  /\ task[i] = None
  /\ SetTask(i, Snapshot(c, "PENDING"), {<<i, Snapshot(c, "PENDING")>>})

AcquireLock ==
  /\ "locks" \in Requests
  /\ lock = None
  /\ lock' = Client
  /\ UNCHANGED <<task, events, update, updater, pulse, deferred, unblocks>>

\* releaseLock without validation: an update loses its lock, and its token with it.
ReleaseLock ==
  /\ "locks" \in Requests
  /\ lock # None
  /\ lock' = None
  /\ UNCHANGED <<task, events, update, updater, pulse, deferred, unblocks>>

-----------------------------------------------------------------------------

JobInit ==
  /\ \E c \in Configs : task = [i \in Instances |-> [Snapshot(c, "RUNNING") EXCEPT !.stable = TRUE]]
  /\ events = {}
  /\ update = [u \in UpdateKeys |-> NoUpdate]
  /\ lock = None
  /\ updater = None
  /\ pulse = [u \in UpdateKeys |-> None]
  /\ deferred = {}
  /\ unblocks = {}

UserActs(u) ==
  \/ \E c \in Configs, n \in Counts, scope \in Scopes, coordinated \in BOOLEAN :
       Start(u, c, n, scope, coordinated)
  \/ Pause(u) \/ Resume(u) \/ Abort(u)
  \/ Pulse(u) \/ PulseTimeout(u) \/ Unblock(u)

TaskActs(i) ==
  \/ TaskRuns(i) \/ TaskStops(i) \/ TaskStable(i) \/ TaskEnds(i) \/ TaskKilled(i)
  \/ ClientKills(i)
  \/ \E c \in Configs : ClientAdds(i, c)

JobNext ==
  \/ \E u \in UpdateKeys : UserActs(u)
  \/ \E i \in Instances : TaskActs(i)
  \/ \E e \in events : InstanceChanged(e[1], e[2])
  \/ \E d \in deferred : Reevaluate(d[1], d[2])
  \/ AcquireLock \/ ReleaseLock \/ Failover

JobSpec == JobInit /\ [][JobNext]_updateVars

-----------------------------------------------------------------------------
(* Properties.                                                             *)

\* Storage, memory, events and scheduled work of the controller keep their types; only
\* an active update is known to the pulse handler.
JobTypeOK ==
  /\ task \in [Instances -> Task \cup {None}]
  /\ events \subseteq Instances \X (Event \cup {None})
  /\ update \in [UpdateKeys -> Update]
  /\ lock \in UpdateKeys \cup {Client, None}
  /\ updater \in Updater \cup {None}
  /\ pulse \in [UpdateKeys -> PulseState \cup {None}]
  /\ deferred \subseteq Instances \X UpdateKeys
  /\ unblocks \subseteq UpdateKeys

(***************************************************************************)
(* An update that is rolling has its updater in memory and no other update *)
(* has one: no deferred evaluation finds the updater of another update, or *)
(* none, across pauses, expired pulses, rollbacks and failovers.           *)
(***************************************************************************)
UpdaterFollowsStatus ==
  \A u \in UpdateKeys :
    update[u].status \in AUTO_RESUME_STATES <=> updater # None /\ updater.key = u

(***************************************************************************)
(* A job has at most one active update, and the lock of an update is held  *)
(* by an active one: a finished update never leaves its job locked.        *)
(***************************************************************************)
LockedByActive ==
  /\ \A u, v \in UpdateKeys : IsActive(u) /\ IsActive(v) => u = v
  /\ lock \in UpdateKeys => IsActive(lock)

(***************************************************************************)
(* A coordinated update is known to the pulse handler, with its status,    *)
(* exactly while it is active; to others a pulse is answered FINISHED.     *)
(***************************************************************************)
PulsedWhileActive ==
  \A u \in UpdateKeys :
    /\ pulse[u] # None <=> IsActive(u) /\ update[u].coordinated
    /\ pulse[u] # None => pulse[u].status = update[u].status

(***************************************************************************)
(* Never more than updateGroupSize instances are being updated.            *)
(***************************************************************************)
GroupBound == updater # None => Cardinality(ByState(updater, "WORKING")) <= GroupSize

\* What an instance should be like when its update has succeeded.
Conforms(t, c) ==
  IF c = None THEN t = None \/ t.st = "KILLING"
  ELSE t # None /\ t.cfg = c /\ t.st # "KILLING"

(***************************************************************************)
(* When an update is ROLLED_FORWARD, its instances run what was asked for, *)
(* and when it is ROLLED_BACK, what ran before, all but the failures that  *)
(* were tolerated: whatever was stale, restarted or resumed on the way.    *)
(***************************************************************************)
CompletedAsRequested ==
  [][\A u \in UpdateKeys :
       LET Missed(want) == {i \in update'[u].instances : ~ Conforms(task'[i], want[i])}
       IN  update'[u].status # update[u].status =>
             /\ update'[u].status = "ROLLED_FORWARD" =>
                  Cardinality(Missed(update'[u].proposed)) <= MaxFailedInstances
             /\ update'[u].status = "ROLLED_BACK" =>
                  Cardinality(Missed(update'[u].initial)) <= MaxFailedInstances]_updateVars

(***************************************************************************)
(* An instance that is being updated will be looked at again: there is a   *)
(* re-evaluation or an event to come, or the task is on its way to a state *)
(* that makes one.  Without it the update would never end.                 *)
(***************************************************************************)
InstancesAttended ==
  updater # None =>
    \A i \in ByState(updater, "WORKING") :
      \/ <<i, updater.key>> \in deferred
      \/ \E e \in events : e[1] = i
      \/ task[i] # None /\ task[i].st \in {"PENDING", "STOPPING", "KILLING"}
=============================================================================
