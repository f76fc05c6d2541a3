--------------------------- MODULE TaskStateMachine ---------------------------
(***************************************************************************)
(* The life cycle of one task, as the scheduler enforces it: the table of  *)
(* allowed transitions and the side effects each attempted transition      *)
(* asks for (state/TaskStateMachine.java, state/SideEffect.java).          *)
(*                                                                         *)
(* The state machine is built afresh from the stored task for each change, *)
(* so it is a function of the task's status, its configuration and its     *)
(* failure count.  Its callbacks run for a transition that is not allowed  *)
(* as well: that is how the scheduler kills a task it believes to be dead. *)
(***************************************************************************)
EXTENDS Integers

INIT_STATES == {"INIT"}

ACTIVE_STATES ==
  {"ASSIGNED", "DRAINING", "KILLING", "PENDING", "PREEMPTING", "RESTARTING",
   "RUNNING", "STARTING", "THROTTLED"}

SLAVE_ASSIGNED_STATES == ACTIVE_STATES \ {"PENDING", "THROTTLED"}

TERMINAL_STATES == {"FAILED", "FINISHED", "KILLED", "LOST"}

ScheduleStatus == INIT_STATES \cup ACTIVE_STATES \cup TERMINAL_STATES

\* ScheduleStatus extended with the state of a task the store does not hold.
TaskState == ScheduleStatus \cup {"DELETED"}

-----------------------------------------------------------------------------
(* The transitions the builder allows.                                     *)

\* What a task on a slave may turn into: it ends, or it is asked to end.
LeavesSlave ==
  {"FINISHED", "FAILED", "KILLED", "LOST", "KILLING",
   "RESTARTING", "DRAINING", "PREEMPTING"}

BeingStopped == {"PREEMPTING", "RESTARTING", "DRAINING"}

\* S if p holds, and nothing otherwise.
When(p, S) == IF p THEN S ELSE {}

Allowed(from) ==
  UNION {When(from = "INIT", {"PENDING", "THROTTLED"}),
         When(from = "PENDING", {"ASSIGNED", "KILLING"}),
         When(from = "THROTTLED", {"PENDING", "KILLING"}),
         When(from = "ASSIGNED", LeavesSlave \cup {"STARTING", "RUNNING"}),
         When(from = "STARTING", LeavesSlave \cup {"RUNNING"}),
         When(from = "RUNNING", LeavesSlave),
         When(from \in BeingStopped, TERMINAL_STATES \cup {"KILLING"}),
         When(from = "KILLING", TERMINAL_STATES \cup {"DELETED"}),
         When(from \in TERMINAL_STATES, {"DELETED"})}

-----------------------------------------------------------------------------
(* The callbacks.  Each returns the side effects a change to "to" adds.    *)

Revives == {"ASSIGNED", "STARTING", "RUNNING"}

\* Mutation: a task that revives is left alone.
ManageTerminatedTasksNoKill(to) == When(to = "DELETED", {"DELETE"})

\* A task believed to be gone is killed when somebody tries to revive it.
ManageTerminatedTasks(to) ==
  When(to \in Revives, {"KILL"}) \cup When(to = "DELETED", {"DELETE"})

\* Mutation: a task lost while it is being stopped is not rescheduled.
ManageRestartingTaskLost(to) ==
  When(to \in Revives \cup {"LOST"}, {"KILL"})
    \cup When(to \in TERMINAL_STATES \ {"LOST"}, {"RESCHEDULE"})

ManageRestartingTask(to) ==
  When(to \in Revives \cup {"LOST"}, {"KILL"})
    \cup When(to \in TERMINAL_STATES, {"RESCHEDULE"})

\* Mutation: off by one, the present failure is not counted.
BelowMaxFailuresOffByOne(maxFailures, failures) ==
  maxFailures = -1 \/ failures < maxFailures

\* maxFailures = -1 means no limit; failures counts the ones before this one.
BelowMaxFailures(maxFailures, failures) ==
  maxFailures = -1 \/ failures < maxFailures - 1

RescheduleIfService(isService) == When(isService, {"RESCHEDULE"})

IncrementFailuresMaybeReschedule(isService, maxFailures, failures) ==
  {"INCREMENT_FAILURES"}
    \cup When(isService \/ BelowMaxFailures(maxFailures, failures), {"RESCHEDULE"})

\* The callbacks of ASSIGNED, STARTING and RUNNING, which differ in LOST only.
ManageLaunchedTask(from, to, isService, maxFailures, failures) ==
  UNION {When(to = "FINISHED", RescheduleIfService(isService)),
         When(to = "FAILED", IncrementFailuresMaybeReschedule(
                                isService, maxFailures, failures)),
         When(to \in BeingStopped \cup {"KILLING"}, {"KILL"}),
         When(to \in {"KILLED", "LOST"}, {"RESCHEDULE"}),
         When(to = "LOST" /\ from = "ASSIGNED", {"KILL"})}

DeleteIfKilling(to) == When(to = "KILLING", {"DELETE"})

\* Mutation: a second report that the task has ended reschedules it again.
FollowupsAgain(from, to, isService, maxFailures, failures) ==
  UNION {When(from \in {"PENDING", "THROTTLED"}, DeleteIfKilling(to)),
         When(from \in Revives, ManageLaunchedTask(
                 from, to, isService, maxFailures, failures)),
         When(from \in BeingStopped, ManageRestartingTask(to)),
         When(from \in TERMINAL_STATES /\ to = "LOST", {"RESCHEDULE"}),
         When(from \in TERMINAL_STATES \cup {"KILLING", "DELETED"},
              ManageTerminatedTasks(to))}

\* Mutation: the end of a killed task is taken for that of a restarting one.
FollowupsKilledReturns(from, to, isService, maxFailures, failures) ==
  UNION {When(from \in {"PENDING", "THROTTLED"}, DeleteIfKilling(to)),
         When(from \in Revives, ManageLaunchedTask(
                 from, to, isService, maxFailures, failures)),
         When(from \in BeingStopped \cup {"KILLING"}, ManageRestartingTask(to)),
         When(from \in TERMINAL_STATES \cup {"KILLING", "DELETED"},
              ManageTerminatedTasks(to))}

Followups(from, to, isService, maxFailures, failures) ==
  UNION {When(from \in {"PENDING", "THROTTLED"}, DeleteIfKilling(to)),
         When(from \in Revives, ManageLaunchedTask(
                 from, to, isService, maxFailures, failures)),
         When(from \in BeingStopped, ManageRestartingTask(to)),
         When(from \in TERMINAL_STATES \cup {"KILLING", "DELETED"},
              ManageTerminatedTasks(to))}

\* The one allowed change that removes a task instead of saving its state.
PendingDelete(from, to) == from \in {"PENDING", "THROTTLED"} /\ to = "KILLING"

\* Mutations: an unknown task is stored, and a late RUNNING undoes a restart.
SaveStateUnknown(from, to) ==
  When(/\ to \in Allowed(from) \/ (from = "DELETED" /\ to = "RUNNING")
       /\ to # "DELETED" /\ ~ PendingDelete(from, to), {"SAVE_STATE"})
SaveStateLate(from, to) ==
  When(/\ to \in Allowed(from) \/ (from \in BeingStopped /\ to = "RUNNING")
       /\ to # "DELETED" /\ ~ PendingDelete(from, to), {"SAVE_STATE"})

\* onAnyTransition: every allowed change is saved, unless the task goes away.
SaveState(from, to) ==
  When(to \in Allowed(from) /\ to # "DELETED" /\ ~ PendingDelete(from, to),
       {"SAVE_STATE"})

\* updateState: what the caller has to do; a change to the same state is a no-op.
SideEffects(from, to, isService, maxFailures, failures) ==
  When(from # to,
       Followups(from, to, isService, maxFailures, failures) \cup SaveState(from, to))
=============================================================================
