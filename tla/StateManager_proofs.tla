------------------------- MODULE StateManager_proofs -------------------------
(***************************************************************************)
(* The safety properties of StateManager, for any sets of task ids,        *)
(* instances and configurations, and any failure limits.                   *)
(*                                                                         *)
(* The argument follows the code.  First, what one change of one task does *)
(* to that task (Mutated...).  Then, what it does to the store, with the   *)
(* replacement it may create (MovedInv, RescheduledInv, UpdateInv), to the *)
(* delayed work (UpdateRemembers) and to the order of states               *)
(* (UpdateForward).  Then transactions, which compose such changes and     *)
(* commit or abort (WriteInv), one lemma per action, and the theorems.     *)
(***************************************************************************)
EXTENDS StateManager, TaskStateMachine_proofs

-----------------------------------------------------------------------------
(* One task.                                                               *)

\* What the replacement of a task waits for: an offer, or the end of a penalty.
Waiting == {"PENDING", "THROTTLED"}

\* A task as the store can hold it.
TaskOK(tk) ==
  /\ tk \in Task
  /\ tk.instance = None => tk = NoSuchTask
  /\ tk.instance # None => tk.config # None
  /\ tk.status # "INIT"
  /\ tk.status = "KILLING" => tk.killed

\* The part of FailureBudget that speaks of one task.
BudgetOK(tk) ==
  /\ tk.instance # None
  /\ ~ IsService[tk.config]
  /\ MaxTaskFailures[tk.config] # -1
  => /\ tk.failures <= FailureLimit(tk.config)
     /\ tk.status \in ACTIVE_STATES => tk.failures < FailureLimit(tk.config)

\* What a change does to the fields of the task that it is applied to.
LEMMA MutatedFields ==
  ASSUME NEW tk \in Task, NEW to \in TaskState
  PROVE  LET m  == Mutated(tk, to)
             fx == Effects(tk, to)
         IN  /\ m \in Task
             /\ m.status = IF "DELETE" \in fx THEN "DELETED"
                           ELSE IF "SAVE_STATE" \in fx THEN to ELSE tk.status
             /\ m.failures = IF "INCREMENT_FAILURES" \in fx
                             THEN tk.failures + 1 ELSE tk.failures
             /\ m.killed = (tk.killed \/ (to = "KILLING" /\ to \in Allowed(tk.status)))
             /\ m.instance = tk.instance
             /\ m.config = tk.config
             /\ m.ancestor = tk.ancestor
BY DEF Mutated, Task, TaskState

USE DEF TaskState, ScheduleStatus, INIT_STATES, ACTIVE_STATES, TERMINAL_STATES

\* The status changes only along the table, and is then saved or deleted.
LEMMA MutatedStatus ==
  ASSUME NEW tk \in Task, NEW to \in TaskState
  PROVE  LET m  == Mutated(tk, to)
             fx == Effects(tk, to)
         IN  /\ m.status # tk.status =>
                  /\ to \in Allowed(tk.status)
                  /\ m.status = "DELETED" \/ (m.status = to /\ "SAVE_STATE" \in fx)
             /\ "SAVE_STATE" \in fx => m.status = to /\ to \in Allowed(tk.status)
             /\ "RESCHEDULE" \in fx =>
                  /\ tk.status \in SLAVE_ASSIGNED_STATES \ {"KILLING"}
                  /\ m.status = to /\ to \in TERMINAL_STATES
             /\ "INCREMENT_FAILURES" \in fx => tk.status \in Revives /\ m.status = "FAILED"
<1>1. tk.status \in TaskState
  BY DEF Task
<1> QED
  BY <1>1, MutatedFields, SMTT(60) DEF Effects, SideEffects, When, PendingDelete, Followups,
     SaveState, Allowed, LeavesSlave, BeingStopped, Revives, ManageTerminatedTasks,
     ManageRestartingTask, ManageLaunchedTask, DeleteIfKilling, SLAVE_ASSIGNED_STATES,
     RescheduleIfService, IncrementFailuresMaybeReschedule

\* A well-formed task stays well-formed, and is not made active again.
LEMMA MutatedOK ==
  ASSUME NEW tk, TaskOK(tk), NEW to \in TaskState
  PROVE  /\ TaskOK(Mutated(tk, to))
         /\ Mutated(tk, to).status \in ACTIVE_STATES => tk.status \in ACTIVE_STATES
<1> DEFINE m == Mutated(tk, to)
<1>1. tk \in Task /\ tk.status \in TaskState
  BY DEF TaskOK, Task
<1>2. m \in Task /\ m.instance = tk.instance /\ m.config = tk.config
  BY <1>1, MutatedFields
<1>3. m.status # tk.status => to \in Allowed(tk.status) /\ m.status \in {to, "DELETED"}
  BY <1>1, MutatedStatus
<1>4. m.status # "INIT" /\ (m.status \in ACTIVE_STATES => tk.status \in ACTIVE_STATES)
  BY <1>1, <1>3, AllowedForward DEF TaskOK
<1>5. m.status = "KILLING" => m.killed
  <2>1. CASE tk.status = "KILLING"
    BY <1>1, <2>1, MutatedFields DEF TaskOK
  <2>2. CASE tk.status # "KILLING"
    BY <1>1, <1>3, <2>2, MutatedFields
  <2> QED
    BY <2>1, <2>2
<1>6. ASSUME tk = NoSuchTask
      PROVE  m = NoSuchTask
  <2>1. tk.status = "DELETED" /\ tk.killed = FALSE
    BY <1>6 DEF NoSuchTask
  <2>2. "INCREMENT_FAILURES" \notin Effects(tk, to) /\ to \notin Allowed(tk.status)
    BY <1>1, <2>1, MutatedStatus, AllowedForward DEF Revives
  <2>3. m.status = "DELETED"
    BY <1>3, <2>1, <2>2
  <2>4. m.killed = FALSE
    BY <1>1, <2>1, <2>2, MutatedFields
  <2>5. /\ m.failures = tk.failures /\ m.instance = tk.instance
        /\ m.config = tk.config /\ m.ancestor = tk.ancestor
    BY <1>1, <2>2, MutatedFields
  <2> QED
    BY <1>2, <1>6, <2>1, <2>3, <2>4, <2>5 DEF Task, NoSuchTask
<1> QED
  BY <1>2, <1>4, <1>5, <1>6 DEF TaskOK
\* A task that has to be replaced after a change had to be before, or is now.
LEMMA MutatedReplaced ==
  ASSUME NEW tk, TaskOK(tk), NEW to \in TaskState,
         MustBeReplaced(Mutated(tk, to)),
         "RESCHEDULE" \notin Effects(tk, to)
  PROVE  MustBeReplaced(tk)
<1> DEFINE m == Mutated(tk, to)
<1>1. tk \in Task /\ tk.status \in TaskState
  BY DEF TaskOK, Task
<1>2. /\ m.instance = tk.instance /\ m.config = tk.config
      /\ m.instance # None /\ ~ m.killed
  BY <1>1, MutatedFields DEF MustBeReplaced
<1>3. ~ tk.killed /\ ~ (to = "KILLING" /\ to \in Allowed(tk.status))
  BY <1>1, <1>2, MutatedFields
<1>4. tk.config \in Configs /\ tk.config # None /\ tk.status \notin {"KILLING", "INIT"}
  BY <1>2, <1>3 DEF TaskOK, Task
<1>5. CASE m.status = tk.status
  <2>1. "INCREMENT_FAILURES" \notin Effects(tk, to)
    BY <1>1, <1>5, MutatedStatus DEF Revives
  <2>2. m.failures = tk.failures
    BY <1>1, <2>1, MutatedFields
  <2> QED
    BY <1>2, <1>3, <1>5, <2>2 DEF MustBeReplaced
<1>6. CASE m.status # tk.status
  <2>1. to \in Allowed(tk.status) /\ m.status \in {to, "DELETED"}
    BY <1>1, <1>6, MutatedStatus
  <2>2. m.status \in TERMINAL_STATES \cup {"DELETED"}
    BY DEF MustBeReplaced
  <2>3. CASE m.status = "DELETED"
    <3>1. "DELETE" \in Effects(tk, to) \/ to = "DELETED"
      BY <1>1, <1>6, <2>3, MutatedFields
    <3>2. tk.status \in TERMINAL_STATES
      BY <1>1, <1>3, <1>4, <1>6, <2>1, <2>3, <3>1 DEF Effects, SideEffects, When,
         PendingDelete, Followups, SaveState, Allowed, LeavesSlave, BeingStopped,
         Revives, ManageTerminatedTasks, ManageRestartingTask, ManageLaunchedTask,
         DeleteIfKilling, RescheduleIfService, IncrementFailuresMaybeReschedule
    <3> QED
      BY <1>2, <1>3, <2>3, <3>2 DEF MustBeReplaced
  <2>4. CASE m.status = to /\ to \in TERMINAL_STATES
    <3>1. tk.status \in Revives \cup BeingStopped
      BY <1>1, <1>4, <2>1, <2>4, AllowedForward DEF Revives, BeingStopped, Allowed, When, LeavesSlave
    <3>2. tk.status \in Revives /\ to \in {"FINISHED", "FAILED"}
      BY <1>1, <2>4, <3>1 DEF Effects, SideEffects, When, Followups, BeingStopped,
         Revives, ManageRestartingTask, ManageLaunchedTask
    <3>3. ~ IsService[tk.config]
      BY <1>4, <3>2 DEF Effects, SideEffects, When, Followups, BeingStopped, Revives,
         ManageLaunchedTask, RescheduleIfService, IncrementFailuresMaybeReschedule
    <3>4. to = "FAILED"
      BY <1>2, <2>4, <3>2, <3>3 DEF MustBeReplaced
    <3>5. /\ ~ BelowMaxFailures(MaxTaskFailures[tk.config], tk.failures)
          /\ "INCREMENT_FAILURES" \in Effects(tk, to)
      BY <1>4, <3>2, <3>3, <3>4 DEF Effects, SideEffects, When, Followups, BeingStopped,
         Revives, ManageLaunchedTask, IncrementFailuresMaybeReschedule
    <3>6. tk.failures \in Nat /\ MaxTaskFailures[tk.config] \in Int /\ m.failures = tk.failures + 1
      BY <1>1, <1>4, <3>5, MutatedFields, ConfigAssumption DEF Task
    <3> QED
      BY <1>2, <2>4, <3>3, <3>4, <3>5, <3>6 DEF MustBeReplaced, BelowMaxFailures
  <2> QED
    BY <2>1, <2>2, <2>3, <2>4
<1> QED
  BY <1>5, <1>6

\* A change keeps to the failure budget, and so does the task that it creates.
LEMMA MutatedBudget ==
  ASSUME NEW tk, TaskOK(tk), BudgetOK(tk), NEW to \in TaskState
  PROVE  /\ BudgetOK(Mutated(tk, to))
         /\ "RESCHEDULE" \in Effects(tk, to) =>
              \A t \in TaskIds, st \in Waiting :
                BudgetOK(Replacement(t, Mutated(tk, to), st))
<1> DEFINE m == Mutated(tk, to)
           c == tk.config
<1>1. tk \in Task /\ tk.status \in TaskState /\ tk.failures \in Nat
  BY DEF TaskOK, Task
<1>2. m.instance = tk.instance /\ m.config = c
  BY <1>1, MutatedFields
<1>3. SUFFICES ASSUME tk.instance # None, ~ IsService[c], MaxTaskFailures[c] # -1
               PROVE  /\ m.failures <= FailureLimit(c)
                      /\ m.status \in ACTIVE_STATES => m.failures < FailureLimit(c)
                      /\ "RESCHEDULE" \in Effects(tk, to) => m.failures < FailureLimit(c)
  BY <1>1, <1>2, MutatedOK, MutatedFields DEF BudgetOK, Replacement
<1>4. c \in Configs /\ c # None /\ MaxTaskFailures[c] \in Int /\ FailureLimit(c) \in Int
  BY <1>1, <1>3, ConfigAssumption DEF TaskOK, Task, FailureLimit
<1>5. /\ tk.failures <= FailureLimit(c)
      /\ tk.status \in ACTIVE_STATES => tk.failures < FailureLimit(c)
  BY <1>3 DEF BudgetOK
<1>6. CASE "INCREMENT_FAILURES" \in Effects(tk, to)
  <2>1. m.failures = tk.failures + 1 /\ tk.status \in Revives /\ m.status = "FAILED"
    BY <1>1, <1>6, MutatedFields, MutatedStatus
  <2>2. "RESCHEDULE" \in Effects(tk, to) => tk.failures < MaxTaskFailures[c] - 1
    <3>1. to = "FAILED"
      BY <1>1, <1>6, <2>1 DEF Effects, SideEffects, When, Followups, SaveState, Revives, BeingStopped,
         ManageLaunchedTask, RescheduleIfService
    <3> QED
      BY <1>3, <1>4, <2>1, <3>1 DEF Effects, SideEffects, When, Followups, SaveState, Revives, BeingStopped,
         ManageLaunchedTask, IncrementFailuresMaybeReschedule, BelowMaxFailures
  <2> QED
    BY <1>1, <1>4, <1>5, <2>1, <2>2 DEF FailureLimit, Revives
<1>7. CASE "INCREMENT_FAILURES" \notin Effects(tk, to)
  BY <1>1, <1>5, <1>7, MutatedFields, MutatedStatus, MutatedOK DEF SLAVE_ASSIGNED_STATES
<1> QED
  BY <1>6, <1>7

-----------------------------------------------------------------------------
(* The store.                                                              *)

Typed(tasks) == tasks \in [TaskIds -> Task] /\ \A t \in TaskIds : TaskOK(tasks[t])

Unique(tasks) ==
  \A t, u \in TaskIds :
    /\ tasks[t].status \in ACTIVE_STATES
    /\ tasks[u].status \in ACTIVE_STATES
    /\ tasks[t].instance = tasks[u].instance
    => t = u

\* Only a task that was stored, and is no longer active, has a successor.
Succeeded(tasks) ==
  \A t, u \in TaskIds :
    tasks[u].ancestor = t =>
      tasks[t].instance # None /\ tasks[t].status \notin ACTIVE_STATES

Single(tasks) ==
  \A t, u \in TaskIds :
    tasks[t].ancestor # None /\ tasks[t].ancestor = tasks[u].ancestor => t = u

Replaced(tasks) ==
  \A t \in TaskIds :
    MustBeReplaced(tasks[t]) => \E u \in TaskIds : tasks[u].ancestor = t

Budgeted(tasks) == \A t \in TaskIds : BudgetOK(tasks[t])

TasksInv(tasks) ==
  /\ Typed(tasks)
  /\ Unique(tasks)
  /\ Succeeded(tasks)
  /\ Single(tasks)
  /\ Replaced(tasks)
  /\ Budgeted(tasks)

\* The two shapes an outcome of updateTaskAndExternalState can have.
LEMMA OutcomeShape ==
  ASSUME NEW s, NEW t, NEW to, NEW o \in UpdateTaskAndExternalState(s, t, to)
  PROVE  \/ /\ "RESCHEDULE" \notin Effects(s.task[t], to)
            /\ o = UpdateTask(s, t, to)
         \/ /\ "RESCHEDULE" \in Effects(s.task[t], to)
            /\ \E n \in Unused(s.task), st \in Waiting :
                 o = CreateTask(UpdateTask(s, t, to), n,
                                Replacement(t, Mutated(s.task[t], to), st))
BY DEF UpdateTaskAndExternalState, RescheduledStates, When, Waiting

\* A change that reschedules nothing keeps the store correct: an instance keeps
\* its only active task or loses it, and nothing that must be replaced appears.
LEMMA MovedInv ==
  ASSUME NEW s, NEW t \in TaskIds, NEW to \in TaskState, NEW o,
         TasksInv(s.task), "RESCHEDULE" \notin Effects(s.task[t], to),
         o = UpdateTask(s, t, to)
  PROVE  TasksInv(o.task)
<1> DEFINE tasks == s.task
           m == Mutated(tasks[t], to)
           after == o.task
<1>1. /\ after \in [TaskIds -> Task]
      /\ after[t] = m
      /\ \A u \in TaskIds \ {t} : after[u] = tasks[u]
      /\ TaskOK(tasks[t]) /\ TaskOK(m)
  BY MutatedOK DEF TasksInv, Typed, UpdateTask, TaskOK
<1>2. /\ m.instance = tasks[t].instance
      /\ m.ancestor = tasks[t].ancestor
      /\ m.status \in ACTIVE_STATES => tasks[t].status \in ACTIVE_STATES
  BY <1>1, MutatedFields, MutatedOK, SMTT(30) DEF TaskOK
<1> HIDE DEF after, m
<1>3. Typed(after)
  BY <1>1 DEF TasksInv, Typed
<1>4. Unique(after)
  BY <1>1, <1>2 DEF TasksInv, Unique
<1>5. Succeeded(after)
  BY <1>1, <1>2 DEF TasksInv, Succeeded
<1>6. Single(after)
  BY <1>1, <1>2 DEF TasksInv, Single
<1>7. Replaced(after)
  <2>1. ASSUME NEW u \in TaskIds, MustBeReplaced(after[u])
        PROVE  \E v \in TaskIds : after[v].ancestor = u
    <3>1. MustBeReplaced(tasks[u])
      BY <1>1, <2>1, MutatedReplaced DEF m
    <3>2. PICK v \in TaskIds : tasks[v].ancestor = u
      BY <3>1 DEF TasksInv, Replaced
    <3> QED
      BY <1>1, <1>2, <3>2
  <2> QED
    BY <2>1 DEF Replaced
<1>8. Budgeted(after)
  BY <1>1, MutatedBudget DEF TasksInv, Budgeted, m
<1> QED
  BY <1>3, <1>4, <1>5, <1>6, <1>7, <1>8 DEF TasksInv, after

\* A change that reschedules keeps it correct too: the task ends, so that its
\* instance is free for the replacement and it has had no successor before.
LEMMA RescheduledInv ==
  ASSUME NEW s, NEW t \in TaskIds, NEW to \in TaskState, NEW o,
         NEW n \in Unused(s.task), NEW st \in Waiting,
         TasksInv(s.task), "RESCHEDULE" \in Effects(s.task[t], to),
         o = CreateTask(UpdateTask(s, t, to), n, Replacement(t, Mutated(s.task[t], to), st))
  PROVE  TasksInv(o.task)
<1> DEFINE tasks == s.task
           m == Mutated(tasks[t], to)
           r == Replacement(t, m, st)
           after == o.task
<1>1. n \in TaskIds /\ tasks[n] = NoSuchTask /\ TaskOK(tasks[t]) /\ TaskOK(m)
  BY MutatedOK DEF TasksInv, Typed, Unused, TaskOK
<1>2. /\ m.instance = tasks[t].instance /\ m.config = tasks[t].config
      /\ m.ancestor = tasks[t].ancestor
      /\ tasks[t].status \in ACTIVE_STATES
      /\ m.status \in TERMINAL_STATES
  <2>1. tasks[t] \in Task
    BY <1>1 DEF TaskOK
  <2>2. tasks[t].status \in ACTIVE_STATES /\ m.status \in TERMINAL_STATES
    BY <2>1, MutatedStatus DEF SLAVE_ASSIGNED_STATES
  <2> QED
    BY <2>1, <2>2, MutatedFields
<1>3. n # t /\ m.instance # None
  BY <1>1, <1>2 DEF NoSuchTask, TaskOK
<1>4. /\ r \in Task /\ TaskOK(r) /\ r.ancestor = t
      /\ r.instance = m.instance /\ r.status \in ACTIVE_STATES /\ ~ MustBeReplaced(r)
  BY <1>1, <1>2, <1>3 DEF Replacement, Waiting, TaskOK, Task, MustBeReplaced
<1>5. /\ after \in [TaskIds -> Task]
      /\ after[t] = m /\ after[n] = r
      /\ \A u \in TaskIds \ {t, n} : after[u] = tasks[u]
  BY <1>1, <1>3, <1>4 DEF TasksInv, Typed, CreateTask, UpdateTask, TaskOK
<1>6. \A u \in TaskIds : tasks[u].ancestor # t /\ tasks[u].ancestor # n
  BY <1>1, <1>2 DEF TasksInv, Succeeded, NoSuchTask
<1>7. tasks[n].ancestor = None /\ None \notin TaskIds /\ tasks[n].instance = None
  BY <1>1, NoneAssumption DEF NoSuchTask
<1>8. Budgeted(tasks) => BudgetOK(m) /\ BudgetOK(r)
  BY <1>1, MutatedBudget DEF Budgeted
<1> HIDE DEF after, m, r
<1>9. Typed(after)
  BY <1>1, <1>4, <1>5 DEF TasksInv, Typed
<1>10. Unique(after)
  BY <1>1, <1>2, <1>4, <1>5 DEF TasksInv, Unique
<1>11. Succeeded(after)
  BY <1>1, <1>2, <1>3, <1>4, <1>5, <1>6 DEF TasksInv, Succeeded
<1>12. Single(after)
  BY <1>1, <1>2, <1>4, <1>5, <1>6 DEF TasksInv, Single
<1>13. Replaced(after)
  <2>1. ASSUME NEW u \in TaskIds, MustBeReplaced(after[u])
        PROVE  \E v \in TaskIds : after[v].ancestor = u
    <3>1. CASE u = t
      BY <1>1, <1>4, <1>5, <3>1
    <3>2. CASE u # t
      <4>1. u # n /\ MustBeReplaced(tasks[u])
        BY <1>4, <1>5, <2>1, <3>2
      <4>2. PICK v \in TaskIds : tasks[v].ancestor = u
        BY <4>1 DEF TasksInv, Replaced
      <4>3. v # n
        BY <1>7, <4>2
      <4> QED
        BY <1>2, <1>5, <4>2, <4>3
    <3> QED
      BY <3>1, <3>2
  <2> QED
    BY <2>1 DEF Replaced
<1>14. Budgeted(after)
  BY <1>5, <1>8 DEF TasksInv, Budgeted
<1> QED
  BY <1>9, <1>10, <1>11, <1>12, <1>13, <1>14 DEF TasksInv, after

\* One change of one task keeps the store correct, whatever it asks for.
LEMMA UpdateInv ==
  ASSUME NEW s, NEW t \in TaskIds, NEW to \in TaskState,
         NEW o \in UpdateTaskAndExternalState(s, t, to), TasksInv(s.task)
  PROVE  TasksInv(o.task)
<1>1. CASE "RESCHEDULE" \notin Effects(s.task[t], to)
  <2>1. o = UpdateTask(s, t, to)
    BY <1>1, OutcomeShape
  <2> QED
    BY <1>1, <2>1, MovedInv
<1>2. CASE "RESCHEDULE" \in Effects(s.task[t], to)
  <2>1. PICK n \in Unused(s.task), st \in Waiting :
          o = CreateTask(UpdateTask(s, t, to), n, Replacement(t, Mutated(s.task[t], to), st))
    BY <1>2, OutcomeShape
  <2> QED
    BY <1>2, <2>1, RescheduledInv
<1> QED
  BY <1>1, <1>2

-----------------------------------------------------------------------------
(* Delayed work.                                                           *)

\* The tasks of T that the store holds have the work their status calls for.
Remembered(T, tasks, wk) ==
  \A u \in T : tasks[u].status # "DELETED" => Notify(u, tasks[u].status) \subseteq wk

\* The work of a task is keyed by the task and by the status that asked for it.
LEMMA NotifyKey ==
  ASSUME NEW t \in TaskIds, NEW st \in ScheduleStatus, NEW w \in Notify(t, st)
  PROVE  w \in Work /\ w[2] = t /\ w[3] = st
BY DEF Notify, TimeoutWork, KillRetryWork, ThrottleWork, ScheduleWork, PruneWork,
       When, Work, WorkKinds, TRANSIENT_STATES

\* A record of the parts of the state that a transaction works on.
StoreOK(s) ==
  /\ TasksInv(s.task)
  /\ s.work \in SUBSET Work
  /\ s.kills \in SUBSET TaskIds

\* One change leaves a well-formed record for the rest of the transaction.
LEMMA UpdateStore ==
  ASSUME NEW s, NEW t \in TaskIds, NEW to \in TaskState,
         NEW o \in UpdateTaskAndExternalState(s, t, to), StoreOK(s)
  PROVE  StoreOK(o)
<1>1. TasksInv(o.task)
  BY UpdateInv DEF StoreOK
<1>2. "SAVE_STATE" \in Effects(s.task[t], to) => to \in ScheduleStatus
  BY DEF Effects, SideEffects, When, Followups, SaveState, ManageTerminatedTasks,
     ManageRestartingTask, ManageLaunchedTask, DeleteIfKilling,
     RescheduleIfService, IncrementFailuresMaybeReschedule
<1>3. /\ UpdateTask(s, t, to).work \in SUBSET Work
      /\ UpdateTask(s, t, to).kills \in SUBSET TaskIds
  <2>1. When("SAVE_STATE" \in Effects(s.task[t], to), Notify(t, to)) \in SUBSET Work
    BY <1>2, NotifyKey DEF When
  <2>2. When("KILL" \in Effects(s.task[t], to), {t}) \in SUBSET TaskIds
    BY DEF When
  <2> QED
    BY <2>1, <2>2 DEF UpdateTask, StoreOK
<1>4. ASSUME NEW n \in Unused(s.task), NEW st \in Waiting
      PROVE  Notify(n, Replacement(t, Mutated(s.task[t], to), st).status) \in SUBSET Work
  <2>1. n \in TaskIds /\ st \in ScheduleStatus
    BY DEF Unused, Waiting
  <2> QED
    BY <2>1, NotifyKey DEF Replacement
<1> QED
  BY <1>1, <1>3, <1>4, OutcomeShape DEF StoreOK, CreateTask

\* A change keeps the work of every other task, and adds that of the task it
\* moves; a task it does not move must have had its work before.
LEMMA UpdateRemembers ==
  ASSUME NEW s, NEW t \in TaskIds, NEW to \in TaskState,
         NEW o \in UpdateTaskAndExternalState(s, t, to),
         TasksInv(s.task),
         Remembered(TaskIds \ {t}, s.task, s.work),
         \/ Mutated(s.task[t], to).status # s.task[t].status
         \/ Remembered({t}, s.task, s.work)
  PROVE  Remembered(TaskIds, o.task, o.work)
<1> DEFINE m == Mutated(s.task[t], to)
           mid == UpdateTask(s, t, to)
<1>1. s.task \in [TaskIds -> Task] /\ s.task[t] \in Task
  BY DEF TasksInv, Typed
<1>2. /\ mid.task[t] = m
      /\ \A u \in TaskIds \ {t} : mid.task[u] = s.task[u]
      /\ s.work \subseteq mid.work
      /\ "SAVE_STATE" \in Effects(s.task[t], to) => Notify(t, to) \subseteq mid.work
  BY <1>1 DEF UpdateTask, When
<1>3. Remembered({t}, mid.task, mid.work)
  BY <1>1, <1>2, MutatedStatus DEF Remembered
<1>4. Remembered(TaskIds, mid.task, mid.work)
  BY <1>2, <1>3 DEF Remembered
<1>5. ASSUME NEW n \in Unused(s.task), NEW r
      PROVE  Remembered(TaskIds, CreateTask(mid, n, r).task, CreateTask(mid, n, r).work)
  <2>1. mid.task \in [TaskIds -> {mid.task[u] : u \in TaskIds}]
    BY <1>1 DEF UpdateTask
  <2>2. n \in TaskIds
    BY DEF Unused
  <2> QED
    BY <1>4, <2>1, <2>2 DEF Remembered, CreateTask
<1> QED
  BY <1>4, <1>5, OutcomeShape

-----------------------------------------------------------------------------
(* Order.                                                                  *)

\* Every task the store has held is kept, and none has moved backwards.
Forward(before, after) ==
  \A u \in TaskIds :
    before[u].instance # None =>
      /\ after[u].instance # None
      /\ \/ after[u].status = before[u].status
         \/ Precedes(before[u].status, after[u].status)

\* The stages, one by one.
LEMMA StageCases ==
  ASSUME NEW st, NEW i \in 1 .. 10
  PROVE  st \in Stages[i] <=>
           \/ i = 1 /\ st = "INIT"
           \/ i = 2 /\ st = "THROTTLED"
           \/ i = 3 /\ st = "PENDING"
           \/ i = 4 /\ st = "ASSIGNED"
           \/ i = 5 /\ st = "STARTING"
           \/ i = 6 /\ st = "RUNNING"
           \/ i = 7 /\ st \in BeingStopped
           \/ i = 8 /\ st = "KILLING"
           \/ i = 9 /\ st \in TERMINAL_STATES
           \/ i = 10 /\ st = "DELETED"
BY DEF Stages, BeingStopped

\* Stages are disjoint and ordered, so coming before is transitive.
LEMMA PrecedesTransitive ==
  ASSUME NEW a, NEW b, NEW c, Precedes(a, b), Precedes(b, c)
  PROVE  Precedes(a, c)
<1>1. PICK i, j \in 1 .. 10 : i < j /\ a \in Stages[i] /\ b \in Stages[j]
  BY DEF Precedes
<1>2. PICK k, l \in 1 .. 10 : k < l /\ b \in Stages[k] /\ c \in Stages[l]
  BY DEF Precedes
<1>3. j = k
  BY <1>1, <1>2, StageCases DEF BeingStopped
<1>4. i < l
  BY <1>1, <1>2, <1>3
<1> QED
  BY <1>1, <1>2, <1>4 DEF Precedes

\* The table leads forward, and so does deletion.
LEMMA AllowedPrecedes ==
  ASSUME NEW from \in TaskState, NEW to \in TaskState, to \in Allowed(from)
  PROVE  Precedes(from, to) /\ Precedes(from, "DELETED")
BY StageCases DEF Precedes, Allowed, When, LeavesSlave, BeingStopped

\* Changes that lead forward compose.
LEMMA ForwardTransitive ==
  ASSUME NEW a, NEW b, NEW c, Forward(a, b), Forward(b, c)
  PROVE  Forward(a, c)
BY PrecedesTransitive DEF Forward

\* One change of one task, with its replacement, moves no task backwards.
LEMMA UpdateForward ==
  ASSUME NEW s, NEW t \in TaskIds, NEW to \in TaskState,
         NEW o \in UpdateTaskAndExternalState(s, t, to), TasksInv(s.task)
  PROVE  Forward(s.task, o.task)
<1> DEFINE m == Mutated(s.task[t], to)
           mid == UpdateTask(s, t, to).task
<1>1. s.task \in [TaskIds -> Task] /\ s.task[t] \in Task /\ s.task[t].status \in TaskState
  BY DEF TasksInv, Typed, Task
<1>2. m.instance = s.task[t].instance
  BY <1>1, MutatedFields
<1>3. m.status = s.task[t].status \/ Precedes(s.task[t].status, m.status)
  <2>1. m.status # s.task[t].status =>
          to \in Allowed(s.task[t].status) /\ m.status \in {to, "DELETED"}
    BY <1>1, MutatedStatus
  <2> QED
    BY <1>1, <2>1, AllowedPrecedes
<1>4. mid[t] = m /\ \A u \in TaskIds \ {t} : mid[u] = s.task[u]
  BY <1>1 DEF UpdateTask
<1>5. Forward(s.task, mid)
  BY <1>2, <1>3, <1>4 DEF Forward
<1>6. ASSUME NEW n \in Unused(s.task), NEW r
      PROVE  Forward(s.task, CreateTask(UpdateTask(s, t, to), n, r).task)
  <2>1. mid \in [TaskIds -> {mid[u] : u \in TaskIds}]
    BY <1>1 DEF UpdateTask
  <2>2. n \in TaskIds /\ s.task[n].instance = None
    BY DEF Unused
  <2> QED
    BY <1>5, <2>1, <2>2 DEF Forward, CreateTask
<1> QED
  BY <1>5, <1>6, OutcomeShape

-----------------------------------------------------------------------------
(* The life of an instance.                                                *)

\* From one store to the next each instance takes one turn of InstanceLife at
\* most, and the identifiers that come into use are those of active tasks.
Turned(before, after) ==
  /\ \A i \in Instances : Life!Turn(Holders(before)[i], Holders(after)[i], Used(before))
  /\ Used(after) = Used(before) \cup Life!IdsOf(Holders(after))

\* The active tasks of an instance, as InstanceLife sees them.
LEMMA HoldersAre ==
  ASSUME NEW tasks, NEW i \in Instances
  PROVE  Holders(tasks)[i] = {HolderOf(tasks, t) : t \in ActiveIn(tasks, i)}
BY DEF Holders

\* An instance shows the same if its active tasks are the same.
LEMMA HoldersSame ==
  ASSUME NEW a, NEW b, NEW i \in Instances, ActiveIn(a, i) = ActiveIn(b, i),
         \A t \in ActiveIn(a, i) : HolderOf(a, t) = HolderOf(b, t)
  PROVE  Holders(a)[i] = Holders(b)[i]
<1>1. Holders(a)[i] = {HolderOf(a, t) : t \in ActiveIn(a, i)}
  BY HoldersAre
<1>2. Holders(b)[i] = {HolderOf(b, t) : t \in ActiveIn(a, i)}
  BY HoldersAre
<1> QED
  BY <1>1, <1>2

\* An active task has an instance, so that its identifier is in use.
LEMMA IdsAre ==
  ASSUME NEW tasks, Typed(tasks)
  PROVE  /\ Life!IdsOf(Holders(tasks)) =
              {t \in TaskIds : tasks[t].status \in ACTIVE_STATES}
         /\ Life!IdsOf(Holders(tasks)) \subseteq Used(tasks)
<1>1. ASSUME NEW t \in TaskIds, tasks[t].status \in ACTIVE_STATES
      PROVE  tasks[t].instance \in Instances /\ tasks[t].instance # None
  BY <1>1 DEF Typed, TaskOK, NoSuchTask, Task
<1>2. ASSUME NEW x \in Life!IdsOf(Holders(tasks))
      PROVE  x \in TaskIds /\ tasks[x].status \in ACTIVE_STATES
  <2>1. PICK h \in UNION {Holders(tasks)[i] : i \in Instances} : x = h.id
    BY <1>2 DEF Life!IdsOf
  <2>2. PICK i \in Instances : h \in Holders(tasks)[i]
    BY <2>1
  <2>3. PICK t \in ActiveIn(tasks, i) : h = HolderOf(tasks, t)
    BY <2>2, HoldersAre
  <2> QED
    BY <2>1, <2>3 DEF HolderOf, ActiveIn
<1>3. ASSUME NEW t \in TaskIds, tasks[t].status \in ACTIVE_STATES
      PROVE  t \in Life!IdsOf(Holders(tasks))
  <2> DEFINE i == tasks[t].instance
             h == HolderOf(tasks, t)
  <2>1. i \in Instances /\ t \in ActiveIn(tasks, i)
    BY <1>1, <1>3 DEF ActiveIn
  <2>2. h \in Holders(tasks)[i] /\ h.id = t
    BY <2>1, HoldersAre DEF HolderOf
  <2> QED
    BY <2>1, <2>2 DEF Life!IdsOf
<1> QED
  BY <1>1, <1>2, <1>3 DEF Used, Unused

\* A store that does not change takes no turn.
LEMMA TurnedReflexive ==
  ASSUME NEW tasks, Typed(tasks)
  PROVE  Turned(tasks, tasks)
BY IdsAre DEF Turned, Life!Turn

\* What a change does to the phase of an active task, or to its hold.
LEMMA MutatedPhase ==
  ASSUME NEW tk, TaskOK(tk), tk.status \in ACTIVE_STATES, NEW to \in TaskState
  PROVE  LET m == Mutated(tk, to)
             p == PhaseOf(tk.status)
         IN  /\ m.status \in ACTIVE_STATES =>
                  \/ PhaseOf(m.status) = p
                  \/ <<p, PhaseOf(m.status)>> \in Life!Advances
             /\ "RESCHEDULE" \in Effects(tk, to) =>
                  p \in {"placed", "stopping"} /\ m.status \notin ACTIVE_STATES
             /\ m.status \notin ACTIVE_STATES /\ "RESCHEDULE" \notin Effects(tk, to) =>
                  \/ p \in {"waiting", "killing"}
                  \/ p = "placed" /\ ~ IsService[tk.config]
<1> DEFINE m == Mutated(tk, to)
<1>1. tk \in Task /\ tk.status \in TaskState
  BY DEF TaskOK, Task
<1>2. tk.config \in Configs /\ tk.config # None
  BY DEF TaskOK, NoSuchTask, Task
<1>3. /\ m.status # tk.status =>
           to \in Allowed(tk.status) /\ (m.status = "DELETED" \/ m.status = to)
      /\ "RESCHEDULE" \in Effects(tk, to) =>
           /\ tk.status \in SLAVE_ASSIGNED_STATES \ {"KILLING"}
           /\ m.status = to /\ to \in TERMINAL_STATES
  BY <1>1, MutatedStatus
<1>4. ASSUME m.status \in ACTIVE_STATES, m.status # tk.status
      PROVE  \/ PhaseOf(m.status) = PhaseOf(tk.status)
             \/ <<PhaseOf(tk.status), PhaseOf(m.status)>> \in Life!Advances
  <2>1. m.status = to /\ to \in Allowed(tk.status)
    BY <1>3, <1>4
  <2>2. CASE tk.status \in {"PENDING", "THROTTLED"}
    <3>1. to \in {"ASSIGNED", "KILLING", "PENDING"}
      BY <2>1, <2>2 DEF Allowed, When, BeingStopped
    <3>2. to # "KILLING"
      BY <1>1, <1>3, <1>4, <2>1, <2>2, MutatedFields DEF Effects, SideEffects, When, Followups,
         SaveState, DeleteIfKilling, BeingStopped, Revives
    <3>3. PhaseOf(tk.status) = "waiting"
      BY <2>2 DEF PhaseOf
    <3>4. PhaseOf("ASSIGNED") = "placed" /\ PhaseOf("PENDING") = "waiting"
      BY DEF PhaseOf, Revives
    <3> QED
      BY <2>1, <3>1, <3>2, <3>3, <3>4 DEF Life!Advances
  <2>3. CASE tk.status \in Revives
    BY <2>1, <2>3, <1>4 DEF PhaseOf, Life!Advances, Revives, Allowed, When, LeavesSlave, BeingStopped
  <2>4. CASE tk.status \in BeingStopped \cup {"KILLING"}
    BY <2>1, <2>4, <1>4 DEF PhaseOf, Life!Advances, Revives, Allowed, When, LeavesSlave, BeingStopped
  <2> QED
    BY <2>2, <2>3, <2>4 DEF Revives, BeingStopped
<1>5. "RESCHEDULE" \in Effects(tk, to) =>
        PhaseOf(tk.status) \in {"placed", "stopping"} /\ m.status \notin ACTIVE_STATES
  BY <1>3 DEF PhaseOf, Revives, BeingStopped, SLAVE_ASSIGNED_STATES
<1>6. ASSUME m.status \notin ACTIVE_STATES, "RESCHEDULE" \notin Effects(tk, to)
      PROVE  \/ PhaseOf(tk.status) \in {"waiting", "killing"}
             \/ PhaseOf(tk.status) = "placed" /\ ~ IsService[tk.config]
  <2>1. SUFFICES ASSUME tk.status \in Revives \cup BeingStopped
                 PROVE  tk.status \in Revives /\ ~ IsService[tk.config]
    BY DEF PhaseOf, Revives, BeingStopped
  <2>2. to \in TERMINAL_STATES
    <3>1. to \in Allowed(tk.status) /\ (m.status = "DELETED" \/ m.status = to)
      BY <1>3, <1>6
    <3>2. "DELETE" \notin Effects(tk, to)
      BY <2>1, <3>1 DEF Effects, SideEffects, When, Followups, SaveState, Revives, BeingStopped,
         ManageRestartingTask, ManageLaunchedTask, RescheduleIfService,
         IncrementFailuresMaybeReschedule
    <3>3. to # "DELETED" /\ to \in LeavesSlave \cup {"STARTING", "RUNNING"} \cup TERMINAL_STATES
      BY <2>1, <3>1 DEF Allowed, When, Revives, BeingStopped, LeavesSlave
    <3> QED
      BY <1>1, <1>6, <3>1, <3>2, <3>3, MutatedFields DEF LeavesSlave
  <2>3. "RESCHEDULE" \notin Followups(tk.status, to, IsService[tk.config],
                                      MaxTaskFailures[tk.config], tk.failures)
    <3>1. tk.status # to
      BY <2>1, <2>2 DEF Revives, BeingStopped
    <3>2. Effects(tk, to) = SideEffects(tk.status, to, IsService[tk.config],
                                        MaxTaskFailures[tk.config], tk.failures)
      <4>1. (tk.config # None /\ IsService[tk.config]) = IsService[tk.config]
        BY <1>2, ConfigAssumption
      <4> QED
        BY <1>2, <4>1, Zenon DEF Effects
    <3> QED
      BY <1>6, <3>1, <3>2 DEF SideEffects, When
  <2>4. tk.status \in Revives
    BY <2>1, <2>2, <2>3 DEF Followups, When, ManageRestartingTask, BeingStopped, Revives
  <2> QED
    BY <2>2, <2>3, <2>4 DEF Followups, When, ManageLaunchedTask, RescheduleIfService,
       IncrementFailuresMaybeReschedule
<1> QED
  BY <1>4, <1>5, <1>6

\* A change without a replacement, task by task: only t moves.
LEMMA OnlyMoves ==
  ASSUME NEW s, NEW t \in TaskIds, NEW to \in TaskState, TasksInv(s.task),
         NEW after, after = UpdateTask(s, t, to).task,
         NEW m, m = Mutated(s.task[t], to)
  PROVE  /\ after[t] = m
         /\ \A u \in TaskIds \ {t} : after[u] = s.task[u]
         /\ m.instance = s.task[t].instance /\ m.config = s.task[t].config
         /\ m.status \in ACTIVE_STATES => s.task[t].status \in ACTIVE_STATES
<1>1. s.task \in [TaskIds -> Task] /\ s.task[t] \in Task /\ TaskOK(s.task[t])
  BY DEF TasksInv, Typed
<1>2. m.instance = s.task[t].instance /\ m.config = s.task[t].config
  BY <1>1, MutatedFields
<1>3. m.status \in ACTIVE_STATES => s.task[t].status \in ACTIVE_STATES
  BY <1>1, MutatedOK
<1> QED
  BY <1>1, <1>2, <1>3 DEF UpdateTask

\* It disturbs no instance but the one that t holds.
LEMMA HoldersElsewhere ==
  ASSUME NEW s, NEW t \in TaskIds, NEW to \in TaskState, TasksInv(s.task),
         NEW after, after = UpdateTask(s, t, to).task, NEW i \in Instances,
         t \notin ActiveIn(s.task, i)
  PROVE  Holders(s.task)[i] = Holders(after)[i]
<1> DEFINE m == Mutated(s.task[t], to)
<1>1. /\ after[t] = m
      /\ \A u \in TaskIds \ {t} : after[u] = s.task[u]
      /\ m.instance = s.task[t].instance
      /\ m.status \in ACTIVE_STATES => s.task[t].status \in ACTIVE_STATES
  BY OnlyMoves
<1> HIDE DEF m
<1>2. ActiveIn(s.task, i) = ActiveIn(after, i)
  BY <1>1 DEF ActiveIn
<1>3. \A u \in ActiveIn(s.task, i) : HolderOf(s.task, u) = HolderOf(after, u)
  BY <1>1 DEF HolderOf, ActiveIn
<1> QED
  BY <1>2, <1>3, HoldersSame

\* An active task holds its instance alone.
LEMMA HolderAlone ==
  ASSUME NEW tasks, TasksInv(tasks), NEW i \in Instances, NEW t \in ActiveIn(tasks, i)
  PROVE  Holders(tasks)[i] = {HolderOf(tasks, t)}
<1>1. ActiveIn(tasks, i) = {t}
  BY DEF TasksInv, Unique, ActiveIn
<1>2. Holders(tasks)[i] = {HolderOf(tasks, u) : u \in {t}}
  BY <1>1, HoldersAre
<1> QED
  BY <1>2

\* A change without a replacement: the holder stays, advances or gives up.
LEMMA MoveTurns ==
  ASSUME NEW s, NEW t \in TaskIds, NEW to \in TaskState, TasksInv(s.task),
         "RESCHEDULE" \notin Effects(s.task[t], to)
  PROVE  LET after == UpdateTask(s, t, to).task
         IN  Turned(s.task, after) /\ Used(after) = Used(s.task)
<1> DEFINE before == s.task
           o == UpdateTask(s, t, to)
           after == o.task
           m == Mutated(before[t], to)
           h == HolderOf(before, t)
<1>1. TasksInv(after) /\ TaskOK(before[t]) /\ before[t] \in Task
  BY MovedInv DEF TasksInv, Typed
<1>2. Used(after) = Used(before)
  <2>1. m.instance = before[t].instance /\ before \in [TaskIds -> Task]
    BY <1>1, MutatedFields DEF TasksInv, Typed
  <2>2. \A u \in TaskIds : after[u].instance = before[u].instance
    BY <2>1 DEF UpdateTask
  <2> QED
    BY <2>2 DEF Used, Unused
<1>3. ASSUME NEW i \in Instances
      PROVE  Life!Turn(Holders(before)[i], Holders(after)[i], Used(before))
  <2>1. CASE t \notin ActiveIn(before, i)
    <3>1. Holders(before)[i] = Holders(after)[i]
      BY <2>1, HoldersElsewhere
    <3> QED
      BY <3>1 DEF Life!Turn
  <2>2. CASE t \in ActiveIn(before, i)
    <3>1. /\ Holders(before)[i] = {h}
          /\ m.status \in ACTIVE_STATES => Holders(after)[i] = {HolderOf(after, t)}
          /\ m.status \notin ACTIVE_STATES => Holders(after)[i] = {}
          /\ HolderOf(after, t) = [h EXCEPT !.phase = PhaseOf(m.status)]
      <4>1. Holders(before)[i] = {h}
        BY <2>2, HolderAlone
      <4>2. after = UpdateTask(s, t, to).task /\ m = Mutated(s.task[t], to)
        OBVIOUS
      <4> HIDE DEF after, m
      <4>3. /\ after[t] = m /\ \A u \in TaskIds \ {t} : after[u] = before[u]
            /\ m.instance = before[t].instance /\ m.config = before[t].config
        BY <4>2, OnlyMoves
      <4>4. /\ m.status \in ACTIVE_STATES => Holders(after)[i] = {HolderOf(after, t)}
            /\ m.status \notin ACTIVE_STATES => Holders(after)[i] = {}
        <5>1. CASE m.status \in ACTIVE_STATES
          <6>1. t \in ActiveIn(after, i)
            BY <2>2, <4>3, <5>1 DEF ActiveIn
          <6> QED
            BY <1>1, <5>1, <6>1, HolderAlone
        <5>2. CASE m.status \notin ACTIVE_STATES
          <6>1. ActiveIn(before, i) = {t}
            BY <2>2 DEF ActiveIn, TasksInv, Unique
          <6>2. ActiveIn(after, i) = {}
            BY <4>3, <5>2, <6>1 DEF ActiveIn
          <6> QED
            BY <5>2, <6>2, HoldersAre
        <5> QED
          BY <5>1, <5>2
      <4>5. HolderOf(after, t) = [h EXCEPT !.phase = PhaseOf(m.status)]
        BY <4>3 DEF HolderOf
      <4> QED
        BY <4>1, <4>4, <4>5
    <3>2. h.phase = PhaseOf(before[t].status) /\ h.config = before[t].config
      BY DEF HolderOf
    <3>3. PhaseOf(m.status) \in Life!Phases
      BY DEF PhaseOf, Life!Phases
    <3>4. /\ m.status \in ACTIVE_STATES =>
               \/ PhaseOf(m.status) = h.phase
               \/ <<h.phase, PhaseOf(m.status)>> \in Life!Advances
          /\ m.status \notin ACTIVE_STATES =>
               \/ h.phase \in {"waiting", "killing"}
               \/ h.phase = "placed" /\ ~ IsService[h.config]
      BY <1>1, <2>2, <3>2, MutatedPhase DEF ActiveIn
    <3> HIDE DEF h, m, after
    <3>5. CASE m.status \notin ACTIVE_STATES
      BY <3>1, <3>4, <3>5 DEF Life!Turn, Life!GivenUp
    <3>6. CASE m.status \in ACTIVE_STATES /\ PhaseOf(m.status) = h.phase
      <4>1. [h EXCEPT !.phase = h.phase] = h
        BY DEF h, HolderOf
      <4> QED
        BY <3>1, <3>6, <4>1 DEF Life!Turn
    <3>7. CASE m.status \in ACTIVE_STATES /\ PhaseOf(m.status) # h.phase
      BY <3>1, <3>3, <3>4, <3>7 DEF Life!Turn, Life!Advanced
    <3> QED
      BY <3>5, <3>6, <3>7
  <2> QED
    BY <2>1, <2>2
<1>4. Life!IdsOf(Holders(after)) \subseteq Used(after)
  BY <1>1, IdsAre DEF TasksInv
<1> QED
  BY <1>2, <1>3, <1>4 DEF Turned

\* A change with a replacement: the holder hands its instance over.
LEMMA RescheduleTurns ==
  ASSUME NEW s, NEW t \in TaskIds, NEW to \in TaskState, TasksInv(s.task),
         NEW n \in Unused(s.task), NEW st \in Waiting,
         "RESCHEDULE" \in Effects(s.task[t], to)
  PROVE  LET r == Replacement(t, Mutated(s.task[t], to), st)
         IN  Turned(s.task, CreateTask(UpdateTask(s, t, to), n, r).task)
<1> DEFINE before == s.task
           mid == UpdateTask(s, t, to).task
           m == Mutated(before[t], to)
           r == Replacement(t, m, st)
           after == CreateTask(UpdateTask(s, t, to), n, r).task
           h == HolderOf(before, t)
           g == HolderOf(after, n)
<1>1. /\ TasksInv(after) /\ TaskOK(before[t]) /\ before[t] \in Task
      /\ before \in [TaskIds -> Task]
  <2>1. TasksInv(after)
    BY RescheduledInv
  <2> QED
    BY <2>1 DEF TasksInv, Typed
<1>2. /\ before[t].status \in ACTIVE_STATES
      /\ m.status \notin ACTIVE_STATES
      /\ PhaseOf(before[t].status) \in {"placed", "stopping"}
  <2>1. before[t].status \in ACTIVE_STATES
    BY <1>1, MutatedStatus DEF SLAVE_ASSIGNED_STATES
  <2> QED
    BY <1>1, <2>1, MutatedPhase
<1>3. /\ m.instance = before[t].instance /\ m.config = before[t].config
      /\ before[t].instance # None /\ before[t].config # None
      /\ before[t].config \in Configs
  <2>1. m.instance = before[t].instance /\ m.config = before[t].config
    BY <1>1, MutatedFields
  <2> QED
    BY <1>1, <1>2, <2>1 DEF TaskOK, NoSuchTask, Task
<1>4. n \in TaskIds /\ n # t /\ before[n].instance = None /\ before[n].status = "DELETED"
  BY <1>3 DEF Unused, TasksInv, Typed, TaskOK, NoSuchTask
<1>5. /\ r.instance = before[t].instance /\ r.config = before[t].config
      /\ r.status = st
  BY <1>3 DEF Replacement
<1>6. /\ after[n] = r
      /\ \A u \in TaskIds \ {n} : after[u] = mid[u]
      /\ mid[n] = before[n]
      /\ \A u \in TaskIds \ {t} : mid[u] = before[u]
      /\ mid[t] = m
  BY <1>1, <1>4 DEF CreateTask, UpdateTask
<1> HIDE DEF after, mid, m, r
<1>7. ASSUME NEW i \in Instances
      PROVE  Life!Turn(Holders(before)[i], Holders(after)[i], Used(before))
  <2>1. CASE i # before[t].instance
    <3>1. Holders(before)[i] = Holders(mid)[i]
      BY <2>1, HoldersElsewhere DEF mid, ActiveIn
    <3>2. ActiveIn(after, i) = ActiveIn(mid, i) /\ n \notin ActiveIn(mid, i)
      BY <1>4, <1>5, <1>6, <2>1 DEF ActiveIn
    <3>3. \A u \in ActiveIn(after, i) : HolderOf(after, u) = HolderOf(mid, u)
      BY <1>6, <3>2 DEF HolderOf, ActiveIn
    <3>4. Holders(after)[i] = Holders(mid)[i]
      BY <3>2, <3>3, HoldersSame
    <3> QED
      BY <3>1, <3>4 DEF Life!Turn
  <2>2. CASE i = before[t].instance
    <3>1. Holders(before)[i] = {h}
      BY <1>2, <2>2, HolderAlone DEF ActiveIn
    <3>2. ActiveIn(after, i) = {n}
      BY <1>1, <1>4, <1>5, <1>6, <2>2 DEF ActiveIn, TasksInv, Unique, Waiting
    <3>3. Holders(after)[i] = {g}
      BY <3>2, HoldersAre
    <3>4. /\ g \in Life!Holder /\ g.id = n
          /\ g.config = before[t].config /\ g.phase = "waiting"
      BY <1>3, <1>4, <1>5, <1>6 DEF HolderOf, Life!Holder, Life!Phases, PhaseOf, Waiting
    <3>5. n \notin Used(before)
      BY DEF Used
    <3>6. h.phase \in {"placed", "stopping"} /\ h.config = before[t].config
      BY <1>2 DEF HolderOf
    <3> HIDE DEF g, h
    <3> QED
      BY <3>1, <3>3, <3>4, <3>5, <3>6 DEF Life!Turn, Life!HandedOver, Life!Fresh
  <2> QED
    BY <2>1, <2>2
<1>8. Used(after) = Used(before) \cup {n}
  BY <1>3, <1>4, <1>5, <1>6 DEF Used, Unused
<1>9. n \in Life!IdsOf(Holders(after)) /\ Life!IdsOf(Holders(after)) \subseteq Used(after)
  BY <1>1, <1>4, <1>5, <1>6, IdsAre DEF TasksInv, Waiting
<1> QED
  BY <1>7, <1>8, <1>9 DEF Turned, after, m, r

\* One change of one task, whatever it asks for.
LEMMA UpdateTurns ==
  ASSUME NEW s, NEW t \in TaskIds, NEW to \in TaskState, TasksInv(s.task),
         NEW o \in UpdateTaskAndExternalState(s, t, to)
  PROVE  Turned(s.task, o.task)
<1>1. CASE "RESCHEDULE" \notin Effects(s.task[t], to)
  BY <1>1, OutcomeShape, MoveTurns
<1>2. CASE "RESCHEDULE" \in Effects(s.task[t], to)
  <2>1. PICK n \in Unused(s.task), st \in Waiting :
          o = CreateTask(UpdateTask(s, t, to), n, Replacement(t, Mutated(s.task[t], to), st))
    BY <1>2, OutcomeShape
  <2> QED
    BY <1>2, <2>1, RescheduleTurns
<1> QED
  BY <1>1, <1>2

\* changeState, in a transaction that has changed nothing yet.
LEMMA ChangeTurns ==
  ASSUME NEW s, NEW t \in TaskIds, NEW cas, NEW to \in TaskState, TasksInv(s.task),
         NEW o \in ChangeState(s, t, cas, to)
  PROVE  Turned(s.task, o.task)
<1>1. CASE o = s
  BY <1>1, TurnedReflexive DEF TasksInv
<1>2. CASE o \in UpdateTaskAndExternalState(s, t, to)
  BY <1>2, UpdateTurns
<1> QED
  BY <1>1, <1>2 DEF ChangeState

-----------------------------------------------------------------------------
(* Transactions.                                                           *)

\* The inductive invariant.
Inv ==
  /\ TasksInv(task)
  /\ Remembered(TaskIds, task, work)
  /\ work \in SUBSET Work
  /\ kills \in SUBSET TaskIds
  /\ launches \in SUBSET TaskIds

\* An outcome that may be committed.
Sound(o) ==
  /\ StoreOK(o)
  /\ Remembered(TaskIds, o.task, o.work)
  /\ Forward(task, o.task)

\* What every step achieves.
Preserved == Inv' /\ Forward(task, task')

\* A step that changes no task moves none backwards.
LEMMA ForwardReflexive == Forward(task, task)
BY DEF Forward

\* storage.start restores the work of every task that it finds.
LEMMA RecoveredSound ==
  ASSUME NEW tasks, TasksInv(tasks)
  PROVE  Recovered(tasks) \in SUBSET Work /\ Remembered(TaskIds, tasks, Recovered(tasks))
<1>1. ASSUME NEW u \in TaskIds, tasks[u].status # "DELETED"
      PROVE  tasks[u].status \in ScheduleStatus
  BY <1>1 DEF TasksInv, Typed, Task
<1> QED
  BY <1>1, NotifyKey DEF Recovered, Remembered

\* The state before the transaction is an outcome that may be committed.
LEMMA StoreSound ==
  ASSUME Inv
  PROVE  Sound(Store) /\ Store.task = task /\ Store.work = work
BY ForwardReflexive DEF Inv, Sound, StoreOK, Store

\* A transaction commits one of its outcomes, or is lost with the leader.
LEMMA WriteInv ==
  ASSUME Inv, NEW outcomes, \A o \in outcomes : Sound(o),
         Write(outcomes), launches' \in SUBSET TaskIds
  PROVE  Preserved
<1>1. PICK o \in outcomes : Commit(o) \/ Abort(o)
  BY DEF Write
<1>2. CASE Commit(o)
  BY <1>2 DEF Commit, Sound, StoreOK, Inv, Preserved
<1>3. CASE Abort(o)
  BY <1>3, RecoveredSound, ForwardReflexive DEF Abort, Sound, StoreOK, Inv, Preserved
<1> QED
  BY <1>1, <1>2, <1>3

\* changeState keeps an outcome sound, so transactions may chain it.
LEMMA ChangeSound ==
  ASSUME NEW s, Sound(s), NEW t \in TaskIds, NEW cas, NEW to \in TaskState,
         NEW o \in ChangeState(s, t, cas, to)
  PROVE  Sound(o)
<1>1. CASE o = s
  BY <1>1
<1>2. CASE o \in UpdateTaskAndExternalState(s, t, to)
  <2>1. StoreOK(o)
    BY <1>2, UpdateStore DEF Sound
  <2>2. Remembered(TaskIds \ {t}, s.task, s.work) /\ Remembered({t}, s.task, s.work)
    BY DEF Sound, Remembered
  <2>3. Remembered(TaskIds, o.task, o.work)
    BY <1>2, <2>2, UpdateRemembers DEF Sound, StoreOK
  <2>4. Forward(task, o.task)
    BY <1>2, UpdateForward, ForwardTransitive DEF Sound, StoreOK
  <2> QED
    BY <2>1, <2>3, <2>4 DEF Sound
<1> QED
  BY <1>1, <1>2 DEF ChangeState

\* A work item can be taken off the queue: its task no longer needs it, or is
\* moved by the transaction that the item runs.
LEMMA WithoutSound ==
  ASSUME Inv, NEW k, NEW t \in TaskIds, NEW st
  PROVE  LET s == StoreWithout(<<k, t, st>>)
         IN  /\ StoreOK(s) /\ s.task = task
             /\ Remembered(TaskIds \ {t}, s.task, s.work)
             /\ task[t].status # st => Remembered({t}, s.task, s.work) /\ Sound(s)
<1> DEFINE item == <<k, t, st>>
           s == StoreWithout(item)
<1>1. s.task = task /\ s.work = work \ {item} /\ s.kills = {}
  BY DEF StoreWithout, Store
<1>2. StoreOK(s)
  BY <1>1 DEF Inv, StoreOK
<1>3. ASSUME NEW u \in TaskIds, task[u].status # "DELETED", u # t \/ task[t].status # st
      PROVE  Notify(u, task[u].status) \subseteq s.work
  <2>1. task[u].status \in ScheduleStatus
    BY <1>3 DEF Inv, TasksInv, Typed, Task
  <2>2. item \notin Notify(u, task[u].status)
    BY <1>3, <2>1, NotifyKey
  <2> QED
    BY <1>1, <1>3, <2>2 DEF Inv, Remembered
<1> QED
  BY <1>1, <1>2, <1>3, ForwardReflexive DEF Remembered, Sound

\* A transaction that takes its item off the queue moves the task, or finds
\* that the item was stale.
LEMMA MovingSound ==
  ASSUME Inv, NEW k, NEW t \in TaskIds, NEW st, NEW to \in TaskState,
         task[t].status = st => Mutated(task[t], to).status # st,
         NEW o \in UpdateTaskAndExternalState(StoreWithout(<<k, t, st>>), t, to)
  PROVE  Sound(o)
<1> DEFINE s == StoreWithout(<<k, t, st>>)
<1>1. /\ StoreOK(s) /\ s.task = task
      /\ Remembered(TaskIds \ {t}, s.task, s.work)
      /\ task[t].status # st => Remembered({t}, s.task, s.work)
  BY WithoutSound
<1> HIDE DEF s
<1>2. o \in UpdateTaskAndExternalState(s, t, to)
  BY DEF s
<1>3. StoreOK(o)
  BY <1>1, <1>2, UpdateStore
<1>4. Remembered(TaskIds, o.task, o.work)
  BY <1>1, <1>2, UpdateRemembers DEF StoreOK
<1>5. Forward(task, o.task)
  BY <1>1, <1>2, UpdateForward DEF StoreOK
<1> QED
  BY <1>3, <1>4, <1>5 DEF Sound

\* The changes that delayed work asks for do move the task.
LEMMA DelayedMoves ==
  ASSUME NEW tk \in Task, NEW to \in TaskState,
         \/ tk.status \in TRANSIENT_STATES /\ to = "LOST"
         \/ tk.status = "THROTTLED" /\ to = "PENDING"
         \/ tk.status = "PENDING" /\ to = "ASSIGNED"
         \/ tk.status \in TERMINAL_STATES /\ to = "DELETED"
  PROVE  Mutated(tk, to).status # tk.status
<1>1. to = "DELETED" => "DELETE" \in Effects(tk, to)
  BY DEF Effects, SideEffects, When, Followups, Revives, BeingStopped,
     ManageTerminatedTasks, TRANSIENT_STATES
<1>2. to # "DELETED" => "SAVE_STATE" \in Effects(tk, to)
  BY DEF Effects, SideEffects, When, SaveState, PendingDelete, Allowed, LeavesSlave,
     BeingStopped, TRANSIENT_STATES
<1> QED
  BY <1>1, <1>2, MutatedFields DEF TRANSIENT_STATES

\* A task that is created for an instance without active tasks.
LEMMA CreateSound ==
  ASSUME Inv, NEW i \in Instances, NEW c \in Configs, NEW n \in Unused(task),
         ActiveIn(task, i) = {}
  PROVE  Sound(CreateTask(Store, n, NewTask(i, c)))
<1> DEFINE r == NewTask(i, c)
           o == CreateTask(Store, n, r)
           after == o.task
<1>1. n \in TaskIds /\ task[n] = NoSuchTask /\ task \in [TaskIds -> Task]
  BY DEF Inv, TasksInv, Typed, TaskOK, Unused
<1>2. i # None /\ c # None
  BY NoneAssumption
<1>3. /\ TaskOK(r) /\ r.instance = i /\ r.ancestor = None
      /\ r.status = "PENDING" /\ ~ MustBeReplaced(r) /\ BudgetOK(r)
  BY <1>2, ConfigAssumption DEF NewTask, TaskOK, Task, MustBeReplaced, BudgetOK, FailureLimit
<1>4. /\ after \in [TaskIds -> Task] /\ after[n] = r
      /\ \A u \in TaskIds \ {n} : after[u] = task[u]
  BY <1>1, <1>3 DEF CreateTask, Store, TaskOK
<1>5. o.work = work \cup Notify(n, "PENDING") /\ o.kills = {}
  BY <1>3 DEF CreateTask, Store
<1>6. task[n].ancestor = None /\ task[n].instance = None /\ None \notin TaskIds
  BY <1>1, NoneAssumption DEF NoSuchTask
<1> HIDE DEF r, o, after
<1>7. Typed(after) /\ Budgeted(after)
  BY <1>3, <1>4 DEF Inv, TasksInv, Typed, Budgeted
<1>8. Unique(after)
  BY <1>1, <1>3, <1>4 DEF Inv, TasksInv, Unique, ActiveIn
<1>9. Succeeded(after)
  BY <1>1, <1>3, <1>4, <1>6 DEF Inv, TasksInv, Succeeded
<1>10. Single(after)
  BY <1>1, <1>3, <1>4 DEF Inv, TasksInv, Single
<1>11. Replaced(after)
  <2>1. ASSUME NEW u \in TaskIds, MustBeReplaced(after[u])
        PROVE  \E v \in TaskIds : after[v].ancestor = u
    <3>1. PICK v \in TaskIds : task[v].ancestor = u
      BY <1>3, <1>4, <2>1 DEF Inv, TasksInv, Replaced
    <3> QED
      BY <1>4, <1>6, <3>1
  <2> QED
    BY <2>1 DEF Replaced
<1>12. Remembered(TaskIds, after, o.work) /\ o.work \in SUBSET Work
  BY <1>1, <1>3, <1>4, <1>5, NotifyKey DEF Inv, Remembered
<1>13. Forward(task, after)
  BY <1>4, <1>6 DEF Forward
<1> QED
  BY <1>5, <1>7, <1>8, <1>9, <1>10, <1>11, <1>12, <1>13 DEF Sound, StoreOK, TasksInv, after, o, r

-----------------------------------------------------------------------------
(* Actions.                                                                *)

\* The empty store satisfies the invariant.
LEMMA InitInv == Init => Inv
BY NoneAssumption DEF Init, Inv, TasksInv, Typed, Unique, Succeeded, Single, Replaced,
   Budgeted, TaskOK, BudgetOK, MustBeReplaced, Remembered, NoSuchTask, Task

\* insertPendingTasks: the collision check makes room for the new task.
LEMMA InsertInv ==
  ASSUME Inv, NEW i \in Instances, NEW c \in Configs, InsertPendingTasks(i, c)
  PROVE  Preserved
<1>1. PICK n \in Unused(task) : Write({CreateTask(Store, n, NewTask(i, c))})
  BY DEF InsertPendingTasks
<1>2. Sound(CreateTask(Store, n, NewTask(i, c)))
  BY CreateSound DEF InsertPendingTasks
<1>3. \A o \in {CreateTask(Store, n, NewTask(i, c))} : Sound(o)
  BY <1>2
<1> QED
  BY <1>1, <1>3, WriteInv DEF InsertPendingTasks

\* Requests, status updates and forced states: any change at any time.
LEMMA ChangeInv ==
  ASSUME Inv, NEW t \in TaskIds, NEW to \in TaskState, Change(t, to)
  PROVE  Preserved
<1>1. \A o \in ChangeState(Store, t, None, to) : Sound(o)
  BY StoreSound, ChangeSound
<1> QED
  BY <1>1, WriteInv DEF Change

\* TaskTimeout: the compare-and-set ignores a timeout that comes too late.
LEMMA TimeoutInv ==
  ASSUME Inv, NEW t \in TaskIds, NEW st \in TRANSIENT_STATES, Timeout(t, st)
  PROVE  Preserved
<1> DEFINE s == StoreWithout(<<"timeout", t, st>>)
<1>1. task[t] \in Task
  BY DEF Inv, TasksInv, Typed
<1>2. ASSUME NEW o \in ChangeState(s, t, st, "LOST")
      PROVE  Sound(o)
  <2>1. CASE o = s /\ task[t].status # st
    BY <2>1, WithoutSound
  <2>2. CASE o \in UpdateTaskAndExternalState(s, t, "LOST")
    BY <1>1, <2>2, DelayedMoves, MovingSound
  <2> QED
    BY <1>2, <2>1, <2>2, WithoutSound DEF ChangeState
<1> QED
  BY <1>2, WriteInv DEF Timeout

\* TaskThrottler: a task killed while it waited is not released.
LEMMA ThrottleInv ==
  ASSUME Inv, NEW t \in TaskIds, Throttle(t)
  PROVE  Preserved
<1> DEFINE s == StoreWithout(<<"throttle", t, "THROTTLED">>)
<1>1. task[t] \in Task
  BY DEF Inv, TasksInv, Typed
<1>2. ASSUME NEW o \in ChangeState(s, t, "THROTTLED", "PENDING")
      PROVE  Sound(o)
  <2>1. CASE o = s /\ task[t].status # "THROTTLED"
    BY <2>1, WithoutSound
  <2>2. CASE o \in UpdateTaskAndExternalState(s, t, "PENDING")
    BY <1>1, <2>2, DelayedMoves, MovingSound
  <2> QED
    BY <1>2, <2>1, <2>2, WithoutSound DEF ChangeState
<1> QED
  BY <1>2, WriteInv DEF Throttle

\* TaskHistoryPruner, when the retention time of a task is over.
LEMMA PruneInv ==
  ASSUME Inv, NEW t \in TaskIds, NEW st \in TERMINAL_STATES, Prune(t, st)
  PROVE  Preserved
<1> DEFINE s == StoreWithout(<<"prune", t, st>>)
<1>1. task[t] \in Task
  BY DEF Inv, TasksInv, Typed
<1>2. CASE task[t].status = "DELETED"
  BY <1>2, WithoutSound, WriteInv DEF Prune
<1>3. CASE task[t].status # "DELETED"
  <2>1. \A o \in UpdateTaskAndExternalState(s, t, "DELETED") : Sound(o)
    BY <1>1, DelayedMoves, MovingSound
  <2> QED
    BY <1>3, <2>1, WriteInv DEF Prune
<1> QED
  BY <1>2, <1>3

\* TaskHistoryPruner, when a job keeps too many terminated tasks.
LEMMA PruneJobHistoryInv ==
  ASSUME Inv, NEW t \in TaskIds, PruneJobHistory(t)
  PROVE  Preserved
<1>1. \A o \in ChangeState(Store, t, None, "DELETED") : Sound(o)
  BY StoreSound, ChangeSound
<1>2. ChangeState(Store, t, None, "DELETED") = UpdateTaskAndExternalState(Store, t, "DELETED")
  BY DEF ChangeState
<1> QED
  BY <1>1, <1>2, WriteInv DEF PruneJobHistory

\* KillRetry: the item stays on the queue for as long as the task is KILLING.
LEMMA KillRetryInv ==
  ASSUME Inv, NEW t \in TaskIds, KillRetry(t)
  PROVE  Preserved
<1> DEFINE s == StoreWithout(<<"killRetry", t, "KILLING">>)
<1>1. CASE task[t].status = "KILLING"
  BY <1>1, ForwardReflexive DEF KillRetry, Inv, Preserved
<1>2. CASE task[t].status # "KILLING"
  <2>1. Sound(s) /\ s.task = task
    BY <1>2, WithoutSound
  <2>2. s.work = work'
    BY <1>2 DEF KillRetry, StoreWithout, Store
  <2>3. kills' = {} /\ launches' = {} /\ task' = task
    BY <1>2 DEF KillRetry
  <2> QED
    BY <2>1, <2>2, <2>3, ForwardReflexive DEF Sound, StoreOK, Inv, Preserved
<1> QED
  BY <1>1, <1>2

\* A task that leaves PENDING leaves its group.
LEMMA ScheduleGoneInv ==
  ASSUME Inv, NEW t \in TaskIds, ScheduleGone(t)
  PROVE  Preserved
<1>1. Sound(StoreWithout(<<"schedule", t, "PENDING">>))
  BY WithoutSound DEF ScheduleGone
<1>2. \A o \in {StoreWithout(<<"schedule", t, "PENDING">>)} : Sound(o)
  BY <1>1
<1> QED
  BY <1>2, WriteInv DEF ScheduleGone

\* assignTask and launchTask take the task out of its group.
LEMMA ScheduleLaunchedInv ==
  ASSUME Inv, NEW t \in TaskIds, ScheduleLaunched(t)
  PROVE  Preserved
<1> DEFINE s == StoreWithout(<<"schedule", t, "PENDING">>)
<1>1. task[t] \in Task
  BY DEF Inv, TasksInv, Typed
<1>2. \A o \in UpdateTaskAndExternalState(s, t, "ASSIGNED") : Sound(o)
  BY <1>1, DelayedMoves, MovingSound
<1>3. ChangeState(s, t, None, "ASSIGNED") = UpdateTaskAndExternalState(s, t, "ASSIGNED")
  BY DEF ChangeState
<1> QED
  BY <1>2, <1>3, WriteInv DEF ScheduleLaunched

\* Preemption follows whatever the failed attempt to schedule has done.
LEMMA ScheduleFailedInv ==
  ASSUME Inv, NEW t \in TaskIds, NEW outcomes, \A o \in outcomes : Sound(o),
         ScheduleFailed(t, outcomes)
  PROVE  Preserved
<1>1. ASSUME NEW p \in Preempting(outcomes, Victims(t))
      PROVE  Sound(p)
  <2>1. PICK v \in Victims(t), o \in outcomes : p \in ChangeState(o, v, None, "PREEMPTING")
    BY DEF Preempting
  <2>2. v \in TaskIds
    BY DEF Victims
  <2> QED
    BY <2>1, <2>2, ChangeSound
<1>2. \A o \in outcomes \cup Preempting(outcomes, Victims(t)) : Sound(o)
  BY <1>1
<1> QED
  BY <1>2, WriteInv DEF ScheduleFailed

\* A failed launch leaves the task ASSIGNED, with a timeout pending.
LEMMA ScheduleLaunchFailedInv ==
  ASSUME Inv, NEW t \in TaskIds, ScheduleLaunchFailed(t)
  PROVE  Preserved
<1>1. ASSUME NEW o \in AfterLaunchFailure(Store, t)
      PROVE  Sound(o)
  <2>1. PICK a \in ChangeState(Store, t, None, "ASSIGNED") :
          o \in ChangeState(a, t, "PENDING", "LOST")
    BY DEF AfterLaunchFailure
  <2>2. Sound(a)
    BY StoreSound, ChangeSound
  <2> QED
    BY <2>1, <2>2, ChangeSound
<1> QED
  BY <1>1, ScheduleFailedInv DEF ScheduleLaunchFailed

\* A new leader starts from the stored tasks, with all their work.
LEMMA FailoverInv ==
  ASSUME Inv, Failover
  PROVE  Preserved
BY RecoveredSound, ForwardReflexive DEF Failover, Inv, Preserved

\* Every step of the scheduler, and of its environment, preserves the invariant.
LEMMA NextInv == Inv /\ [Next]_vars => Preserved
<1> SUFFICES ASSUME Inv, [Next]_vars PROVE Preserved
  OBVIOUS
<1>1. CASE \E i \in Instances, c \in Configs : InsertPendingTasks(i, c)
  BY <1>1, InsertInv
<1>2. ASSUME NEW t \in TaskIds, Requests(t)
      PROVE  Preserved
  <2>1. CASE KillTask(t)
    BY <2>1, ChangeInv DEF KillTask
  <2>2. CASE RestartShard(t)
    BY <2>2, ChangeInv DEF RestartShard
  <2>3. CASE DrainTask(t)
    BY <2>3, ChangeInv DEF DrainTask
  <2>4. CASE \E s \in ScheduleStatus : ForceTaskState(t, s)
    BY <2>4, ChangeInv DEF ForceTaskState
  <2> QED
    BY <1>2, <2>1, <2>2, <2>3, <2>4 DEF Requests
<1>3. ASSUME NEW t \in TaskIds, Scheduling(t)
      PROVE  Preserved
  <2>1. CASE ScheduleGone(t)
    BY <2>1, ScheduleGoneInv
  <2>2. CASE ScheduleLaunched(t)
    BY <2>2, ScheduleLaunchedInv
  <2>3. CASE ScheduleNoMatch(t)
    BY <2>3, StoreSound, ScheduleFailedInv DEF ScheduleNoMatch
  <2>4. CASE ScheduleLaunchFailed(t)
    BY <2>4, ScheduleLaunchFailedInv
  <2> QED
    BY <1>3, <2>1, <2>2, <2>3, <2>4 DEF Scheduling
<1>4. ASSUME NEW t \in TaskIds, Delayed(t)
      PROVE  Preserved
  BY <1>4, TimeoutInv, PruneInv, PruneJobHistoryInv, KillRetryInv, ThrottleInv DEF Delayed
<1>5. ASSUME NEW t \in TaskIds, NEW s \in MesosStatus, StatusUpdate(t, s)
      PROVE  Preserved
  BY <1>5, ChangeInv DEF StatusUpdate, MesosStatus
<1>6. CASE Failover
  BY <1>6, FailoverInv
<1>7. CASE UNCHANGED vars
  BY <1>7, ForwardReflexive DEF vars, Inv, Preserved, TasksInv, Remembered
<1> QED
  BY <1>1, <1>2, <1>3, <1>4, <1>5, <1>6, <1>7 DEF Next

(***************************************************************************)
(* The inductive invariant holds in every reachable state: store, delayed  *)
(* work and driver calls are well-formed, and whatever the transactions of *)
(* StateManagerImpl and its callers do, and wherever they are cut off by a *)
(* failover, the parts of TasksInv hold of the store.                      *)
(***************************************************************************)
THEOREM Invariance == Spec => []Inv
<1>1. Inv /\ [Next]_vars => Inv'
  BY NextInv DEF Preserved
<1> QED
  BY <1>1, InitInv, PTL DEF Spec

-----------------------------------------------------------------------------
(* Turns: what the transactions do to the instances.                       *)

\* A transaction that is aborted takes no turn.
LEMMA WriteTurns ==
  ASSUME Inv, NEW outcomes, \A o \in outcomes : Turned(task, o.task), Write(outcomes)
  PROVE  Turned(task, task')
<1>1. PICK o \in outcomes : Commit(o) \/ Abort(o)
  BY DEF Write
<1>2. CASE Commit(o)
  BY <1>2 DEF Commit
<1>3. CASE Abort(o)
  BY <1>3, TurnedReflexive DEF Abort, Inv, TasksInv
<1> QED
  BY <1>1, <1>2, <1>3

\* A change of a task in a transaction that has taken an item off the queue.
LEMMA WithoutTurns ==
  ASSUME Inv, NEW item, NEW t \in TaskIds, NEW cas, NEW to \in TaskState,
         NEW o \in ChangeState(StoreWithout(item), t, cas, to)
  PROVE  Turned(task, o.task)
<1>1. StoreWithout(item).task = task
  BY DEF StoreWithout, Store
<1> QED
  BY <1>1, ChangeTurns DEF Inv

\* A change of a task in a transaction of its own.
LEMMA StoreTurns ==
  ASSUME Inv, NEW t \in TaskIds, NEW cas, NEW to \in TaskState,
         NEW o \in ChangeState(Store, t, cas, to)
  PROVE  Turned(task, o.task)
<1>1. Store.task = task
  BY DEF Store
<1> QED
  BY <1>1, ChangeTurns DEF Inv

\* insertPendingTasks takes an instance that nobody holds.
LEMMA CreateTurns ==
  ASSUME Inv, NEW i \in Instances, NEW c \in Configs, NEW n \in Unused(task),
         ActiveIn(task, i) = {}
  PROVE  Turned(task, CreateTask(Store, n, NewTask(i, c)).task)
<1> DEFINE r == NewTask(i, c)
           after == CreateTask(Store, n, r).task
           g == HolderOf(after, n)
<1>1. TasksInv(after) /\ task \in [TaskIds -> Task] /\ Typed(task)
  <2>1. TasksInv(after)
    BY CreateSound DEF Sound, StoreOK
  <2> QED
    BY <2>1 DEF Inv, TasksInv, Typed
<1>2. /\ n \in TaskIds /\ after[n] = r
      /\ \A u \in TaskIds \ {n} : after[u] = task[u]
      /\ task[n].instance = None /\ task[n].status = "DELETED"
  BY <1>1 DEF CreateTask, Store, Unused, Typed, TaskOK, NoSuchTask
<1>3. /\ r.instance = i /\ r.config = c /\ r.status = "PENDING" /\ i # None
  BY NoneAssumption DEF NewTask
<1> HIDE DEF after, r
<1>4. ASSUME NEW j \in Instances
      PROVE  Life!Turn(Holders(task)[j], Holders(after)[j], Used(task))
  <2>1. CASE j # i
    <3>1. ActiveIn(task, j) = ActiveIn(after, j) /\ n \notin ActiveIn(task, j)
      BY <1>2, <1>3, <2>1 DEF ActiveIn
    <3>2. \A u \in ActiveIn(task, j) : HolderOf(task, u) = HolderOf(after, u)
      BY <1>2, <3>1 DEF HolderOf, ActiveIn
    <3>3. Holders(task)[j] = Holders(after)[j]
      BY <3>1, <3>2, HoldersSame
    <3> QED
      BY <3>3 DEF Life!Turn
  <2>2. CASE j = i
    <3>1. Holders(task)[j] = {}
      BY <2>2, HoldersAre
    <3>2. n \in ActiveIn(after, j)
      BY <1>2, <1>3, <2>2 DEF ActiveIn
    <3>3. Holders(after)[j] = {g}
      BY <1>1, <3>2, HolderAlone
    <3>4. g \in Life!Holder /\ g.id = n /\ g.phase = "waiting"
      BY <1>2, <1>3 DEF HolderOf, Life!Holder, Life!Phases, PhaseOf
    <3>5. n \notin Used(task)
      BY DEF Used
    <3> HIDE DEF g
    <3> QED
      BY <3>1, <3>3, <3>4, <3>5 DEF Life!Turn, Life!Taken, Life!Fresh
  <2> QED
    BY <2>1, <2>2
<1>5. Used(after) = Used(task) \cup {n}
  BY <1>2, <1>3 DEF Used, Unused
<1>6. n \in Life!IdsOf(Holders(after)) /\ Life!IdsOf(Holders(after)) \subseteq Used(after)
  BY <1>1, <1>2, <1>3, IdsAre DEF TasksInv
<1> QED
  BY <1>4, <1>5, <1>6 DEF Turned, after, r

\* Two turns in one transaction, of tasks that hold different instances: the
\* pending task t is assigned, and the victim v is preempted.
LEMMA PreemptAfterLaunch ==
  ASSUME Inv, NEW t \in TaskIds, task[t].status = "PENDING", NEW v \in TaskIds \ {t},
         NEW a \in ChangeState(Store, t, None, "ASSIGNED"),
         NEW o \in ChangeState(a, v, None, "PREEMPTING")
  PROVE  Turned(task, o.task)
<1> DEFINE s == Store
           mid == a.task
           after == o.task
<1>1. s.task = task /\ TasksInv(task) /\ task[t] \in Task /\ task \in [TaskIds -> Task]
  BY DEF Store, Inv, TasksInv, Typed
<1>2. /\ "RESCHEDULE" \notin Effects(task[t], "ASSIGNED")
      /\ Mutated(task[t], "ASSIGNED").status = "ASSIGNED"
  <2>1. "SAVE_STATE" \in Effects(task[t], "ASSIGNED")
    BY DEF Effects, SideEffects, When, SaveState, PendingDelete, Allowed
  <2> QED
    BY <1>1, <2>1, MutatedStatus
<1>3. a = UpdateTask(s, t, "ASSIGNED")
  BY <1>1, <1>2 DEF ChangeState, UpdateTaskAndExternalState
<1>4. TasksInv(mid) /\ Turned(task, mid) /\ Used(mid) = Used(task)
  BY <1>1, <1>2, <1>3, MovedInv, MoveTurns
<1>5. /\ mid[t].status = "ASSIGNED" /\ mid[t].instance = task[t].instance
      /\ mid[v] = task[v]
  BY <1>1, <1>2, <1>3, OnlyMoves
<1>6. "RESCHEDULE" \notin Effects(mid[v], "PREEMPTING") /\ mid[v] \in Task
  BY <1>4, MutatedStatus DEF TasksInv, Typed
<1>7. o = UpdateTask(a, v, "PREEMPTING")
  BY <1>6 DEF ChangeState, UpdateTaskAndExternalState
<1>8. TasksInv(after) /\ Turned(mid, after)
  BY <1>4, <1>6, <1>7, MovedInv, MoveTurns
<1>9. ASSUME NEW i \in Instances
      PROVE  Life!Turn(Holders(task)[i], Holders(after)[i], Used(task))
  <2>1. CASE t \in ActiveIn(task, i)
    <3>1. v \notin ActiveIn(mid, i)
      BY <1>4, <1>5, <2>1 DEF ActiveIn, TasksInv, Unique
    <3>2. Holders(mid)[i] = Holders(after)[i]
      BY <1>4, <1>7, <3>1, HoldersElsewhere
    <3> QED
      BY <1>4, <3>2 DEF Turned
  <2>2. CASE t \notin ActiveIn(task, i)
    <3>1. Holders(task)[i] = Holders(mid)[i]
      BY <1>1, <1>3, <2>2, HoldersElsewhere
    <3> QED
      BY <1>4, <1>8, <3>1 DEF Turned
  <2> QED
    BY <2>1, <2>2
<1> QED
  BY <1>4, <1>8, <1>9 DEF Turned

\* A failed launch asks for LOST only if the task is PENDING, and it is not.
LEMMA LaunchFailureIgnored ==
  ASSUME Inv, NEW t \in TaskIds, task[t].status = "PENDING",
         NEW a \in ChangeState(Store, t, None, "ASSIGNED")
  PROVE  ChangeState(a, t, "PENDING", "LOST") = {a}
<1>1. task[t] \in Task /\ task \in [TaskIds -> Task] /\ Store.task = task
  BY DEF Inv, TasksInv, Typed, Store
<1>2. "SAVE_STATE" \in Effects(task[t], "ASSIGNED")
  BY DEF Effects, SideEffects, When, SaveState, PendingDelete, Allowed
<1>3. /\ "RESCHEDULE" \notin Effects(task[t], "ASSIGNED")
      /\ Mutated(task[t], "ASSIGNED").status = "ASSIGNED"
  BY <1>1, <1>2, MutatedStatus
<1>4. a = UpdateTask(Store, t, "ASSIGNED")
  BY <1>1, <1>3 DEF ChangeState, UpdateTaskAndExternalState
<1>5. a.task[t].status = "ASSIGNED"
  BY <1>1, <1>3, <1>4 DEF UpdateTask
<1>6. "PENDING" # None
  BY NoneAssumption
<1> QED
  BY <1>5, <1>6 DEF ChangeState

\* Every step turns each instance once at most.
LEMMA NextTurns ==
  ASSUME Inv, [Next]_vars
  PROVE  Turned(task, task')
<1>1. Typed(task)
  BY DEF Inv, TasksInv
<1>2. CASE \E i \in Instances, c \in Configs : InsertPendingTasks(i, c)
  <2>1. PICK i \in Instances, c \in Configs : InsertPendingTasks(i, c)
    BY <1>2
  <2>2. PICK n \in Unused(task) : Write({CreateTask(Store, n, NewTask(i, c))})
    BY <2>1 DEF InsertPendingTasks
  <2>3. \A o \in {CreateTask(Store, n, NewTask(i, c))} : Turned(task, o.task)
    BY <2>1, CreateTurns DEF InsertPendingTasks
  <2> QED
    BY <2>2, <2>3, WriteTurns
<1>3. ASSUME NEW t \in TaskIds, NEW to \in TaskState, Change(t, to)
      PROVE  Turned(task, task')
  <2>1. \A o \in ChangeState(Store, t, None, to) : Turned(task, o.task)
    BY StoreTurns
  <2> QED
    BY <1>3, <2>1, WriteTurns DEF Change
<1>4. CASE \E t \in TaskIds : Requests(t) \/ \E s \in MesosStatus : StatusUpdate(t, s)
  BY <1>3, <1>4 DEF Requests, KillTask, RestartShard, DrainTask, ForceTaskState,
     StatusUpdate, MesosStatus
<1>5. ASSUME NEW t \in TaskIds, Scheduling(t)
      PROVE  Turned(task, task')
  <2>1. CASE ScheduleGone(t)
    <3> DEFINE s == StoreWithout(<<"schedule", t, "PENDING">>)
    <3>1. s.task = task
      BY DEF StoreWithout, Store
    <3>2. \A o \in {s} : Turned(task, o.task)
      BY <1>1, <3>1, TurnedReflexive
    <3> QED
      BY <2>1, <3>2, WriteTurns DEF ScheduleGone
  <2>2. CASE ScheduleLaunched(t)
    <3>1. \A o \in ChangeState(StoreWithout(<<"schedule", t, "PENDING">>), t, None, "ASSIGNED") :
            Turned(task, o.task)
      BY WithoutTurns
    <3> QED
      BY <2>2, <3>1, WriteTurns DEF ScheduleLaunched
  <2>3. CASE ScheduleNoMatch(t)
    <3>1. Turned(task, Store.task)
      BY <1>1, TurnedReflexive DEF Store
    <3>2. ASSUME NEW o \in Preempting({Store}, Victims(t))
          PROVE  Turned(task, o.task)
      BY StoreTurns DEF Preempting, Victims
    <3>3. \A o \in {Store} \cup Preempting({Store}, Victims(t)) : Turned(task, o.task)
      BY <3>1, <3>2
    <3> QED
      BY <2>3, <3>3, WriteTurns DEF ScheduleNoMatch, ScheduleFailed
  <2>4. CASE ScheduleLaunchFailed(t)
    <3> DEFINE outcomes == AfterLaunchFailure(Store, t)
    <3>1. task[t].status = "PENDING"
      BY <2>4 DEF ScheduleLaunchFailed, ScheduleFailed
    <3>2. outcomes \subseteq ChangeState(Store, t, None, "ASSIGNED")
      <4>1. ASSUME NEW a \in ChangeState(Store, t, None, "ASSIGNED")
            PROVE  ChangeState(a, t, "PENDING", "LOST") = {a}
        BY <3>1, LaunchFailureIgnored
      <4> QED
        BY <4>1 DEF AfterLaunchFailure
    <3>3. ASSUME NEW o \in outcomes
          PROVE  Turned(task, o.task)
      BY <3>2, StoreTurns
    <3>4. ASSUME NEW o \in Preempting(outcomes, Victims(t))
          PROVE  Turned(task, o.task)
      <4>1. PICK v \in Victims(t), a \in outcomes : o \in ChangeState(a, v, None, "PREEMPTING")
        BY DEF Preempting
      <4> QED
        BY <3>1, <3>2, <4>1, PreemptAfterLaunch DEF Victims
    <3>5. \A o \in outcomes \cup Preempting(outcomes, Victims(t)) : Turned(task, o.task)
      BY <3>3, <3>4
    <3> QED
      BY <2>4, <3>5, WriteTurns DEF ScheduleLaunchFailed, ScheduleFailed
  <2> QED
    BY <1>5, <2>1, <2>2, <2>3, <2>4 DEF Scheduling
<1>6. ASSUME NEW t \in TaskIds, Delayed(t)
      PROVE  Turned(task, task')
  <2>1. ASSUME NEW item, NEW cas, NEW to \in TaskState,
               Write(ChangeState(StoreWithout(item), t, cas, to))
        PROVE  Turned(task, task')
    BY <2>1, WithoutTurns, WriteTurns
  <2>2. CASE \E s \in TRANSIENT_STATES : Timeout(t, s)
    BY <2>1, <2>2 DEF Timeout
  <2>3. CASE Throttle(t)
    BY <2>1, <2>3 DEF Throttle
  <2>4. CASE KillRetry(t)
    BY <1>1, <2>4, TurnedReflexive DEF KillRetry
  <2>5. CASE \E s \in TERMINAL_STATES : Prune(t, s)
    <3>1. PICK s \in TERMINAL_STATES : Prune(t, s)
      BY <2>5
    <3> DEFINE item == <<"prune", t, s>>
    <3>2. ChangeState(StoreWithout(item), t, None, "DELETED") =
            UpdateTaskAndExternalState(StoreWithout(item), t, "DELETED")
      BY DEF ChangeState
    <3>3. CASE task[t].status = "DELETED"
      <4>1. StoreWithout(item).task = task
        BY DEF StoreWithout, Store
      <4>2. \A o \in {StoreWithout(item)} : Turned(task, o.task)
        BY <1>1, <4>1, TurnedReflexive
      <4> QED
        BY <3>1, <3>3, <4>2, WriteTurns DEF Prune
    <3>4. CASE task[t].status # "DELETED"
      BY <2>1, <3>1, <3>2, <3>4 DEF Prune
    <3> QED
      BY <3>3, <3>4
  <2>6. CASE PruneJobHistory(t)
    <3>1. UpdateTaskAndExternalState(Store, t, "DELETED") = ChangeState(Store, t, None, "DELETED")
      BY DEF ChangeState
    <3>2. \A o \in ChangeState(Store, t, None, "DELETED") : Turned(task, o.task)
      BY StoreTurns
    <3> QED
      BY <2>6, <3>1, <3>2, WriteTurns DEF PruneJobHistory
  <2> QED
    BY <1>6, <2>2, <2>3, <2>4, <2>5, <2>6 DEF Delayed
<1>7. CASE Failover
  BY <1>1, <1>7, TurnedReflexive DEF Failover
<1>8. CASE UNCHANGED vars
  BY <1>1, <1>8, TurnedReflexive DEF vars
<1> QED
  BY <1>2, <1>4, <1>5, <1>6, <1>7, <1>8 DEF Next

\* A turn of the instances is a step of InstanceLife.
LEMMA TurnIsStep ==
  ASSUME Inv', Turned(task, task')
  PROVE  Life!LifeNext
<1>1. Typed(task')
  BY DEF Inv, TasksInv
<1>2. \A i \in Instances : Holders(task')[i] \in SUBSET Life!Holder
  <2>1. ASSUME NEW i \in Instances, NEW t \in ActiveIn(task', i)
        PROVE  HolderOf(task', t) \in Life!Holder
    <3>1. t \in TaskIds /\ task'[t].config \in Configs
      BY <1>1, NoneAssumption DEF ActiveIn, Typed, TaskOK, Task
    <3> QED
      BY <3>1 DEF HolderOf, Life!Holder, Life!Phases, PhaseOf
  <2> QED
    BY <2>1, HoldersAre
<1>3. Holders(task') \in [Instances -> SUBSET Life!Holder]
  BY <1>2 DEF Holders
<1>4. ASSUME NEW i \in Instances, NEW j \in Instances, i # j,
             NEW h \in Holders(task')[i], NEW g \in Holders(task')[j]
      PROVE  h.id # g.id
  <2>1. PICK t \in ActiveIn(task', i) : h = HolderOf(task', t)
    BY HoldersAre
  <2>2. PICK u \in ActiveIn(task', j) : g = HolderOf(task', u)
    BY HoldersAre
  <2> QED
    BY <1>4, <2>1, <2>2 DEF ActiveIn, HolderOf
<1> QED
  BY <1>3, <1>4 DEF Turned, Life!LifeNext

-----------------------------------------------------------------------------
(* Theorems.                                                               *)

(***************************************************************************)
(* The store holds only well-formed tasks. In particular a status update   *)
(* or a forced state for an identifier that is not stored, which reaches   *)
(* the state machine as a change from DELETED, stores nothing.             *)
(***************************************************************************)
THEOREM TypeCorrect == Spec => []TypeOK
<1>1. Inv => TypeOK
  BY DEF Inv, TasksInv, Typed, TaskOK, TypeOK
<1> QED
  BY <1>1, Invariance, PTL

(***************************************************************************)
(* An instance never has two active tasks, so that the updater, cron and   *)
(* the API may take the only element of its active tasks: the replacement  *)
(* RESCHEDULE creates is saved in the transaction that ends its ancestor,  *)
(* and insertPendingTasks refuses to add a second one.                     *)
(***************************************************************************)
THEOREM InstancesUnique == Spec => []OneActivePerInstance
<1>1. Inv => OneActivePerInstance
  BY DEF Inv, TasksInv, Unique, OneActivePerInstance
<1> QED
  BY <1>1, Invariance, PTL

(***************************************************************************)
(* RESCHEDULE happens at most once in the life of a task, however often    *)
(* its end is reported and whoever (Mesos, the timeout, an administrator)  *)
(* reports it.                                                             *)
(***************************************************************************)
THEOREM SuccessorsUnique == Spec => []SingleSuccessor
<1>1. Inv => SingleSuccessor
  BY DEF Inv, TasksInv, Single, SingleSuccessor
<1> QED
  BY <1>1, Invariance, PTL

(***************************************************************************)
(* A task that ends without a kill is not forgotten: its replacement has   *)
(* been created in the same transaction, unless it completed or ran out of *)
(* failures.                                                               *)
(***************************************************************************)
THEOREM TasksReplaced == Spec => []NeverAbandoned
<1>1. Inv => NeverAbandoned
  BY DEF Inv, TasksInv, Replaced, NeverAbandoned
<1> QED
  BY <1>1, Invariance, PTL

(***************************************************************************)
(* The failure count that RESCHEDULE carries along the chain of            *)
(* replacements never exceeds the max_task_failures of a task that is not  *)
(* a service.                                                              *)
(***************************************************************************)
THEOREM FailuresBounded == Spec => []FailureBudget
<1>1. Inv => FailureBudget
  BY DEF Inv, TasksInv, Budgeted, BudgetOK, FailureBudget
<1> QED
  BY <1>1, Invariance, PTL

(***************************************************************************)
(* A stored task always has the delayed work its status calls for: the     *)
(* events of changeState and of storage.start leave no task without its    *)
(* timer, its place in a task group, its kill retry or its pruning, across *)
(* stale items and failovers.                                              *)
(***************************************************************************)
THEOREM WorkRestored == Spec => []NothingForgotten
<1>1. Inv => NothingForgotten
  BY DEF Inv, Remembered, NothingForgotten
<1> QED
  BY <1>1, Invariance, PTL

(***************************************************************************)
(* No transaction moves a task backwards in its life cycle, whatever       *)
(* states it asks for: the transition table has no cycle, and changeState  *)
(* never saves a state that the table does not allow.                      *)
(***************************************************************************)
THEOREM LifeCycleForward == Spec => NeverBackwards
<1>1. Inv /\ [Next]_vars =>
        [\A t \in TaskIds :
           task[t].instance # None =>
             task'[t].status = task[t].status \/ Precedes(task[t].status, task'[t].status)]_vars
  BY NextInv DEF Preserved, Forward
<1> QED
  BY <1>1, Invariance, PTL DEF Spec, NeverBackwards
(***************************************************************************)
(* Seen through its active tasks, an instance lives as InstanceLife says:  *)
(* it changes hands in single steps, by a kill, a completion or a          *)
(* reschedule, and its identifiers never return.  This is what the updater,*)
(* cron and the API assume of updateTaskAndExternalState and its callers   *)
(* when they read the active task of an instance.                          *)
(***************************************************************************)
THEOREM LivesOfInstances == Spec => ImplementsInstanceLife
<1>1. Init => Life!LifeInit
  <2>1. ASSUME Init
        PROVE  Life!LifeInit
    <3>1. \A i \in Instances : ActiveIn(task, i) = {}
      BY <2>1 DEF Init, ActiveIn, NoSuchTask
    <3>2. \A i \in Instances : Holders(task)[i] = {}
      BY <3>1, HoldersAre
    <3>3. Holders(task) = [i \in Instances |-> {}]
      BY <3>2 DEF Holders
    <3>4. Used(task) = {}
      BY <2>1 DEF Init, Used, Unused, NoSuchTask
    <3> QED
      BY <3>3, <3>4 DEF Life!LifeInit
  <2> QED
    BY <2>1
<1>2. Inv /\ [Next]_vars => Life!LifeNext
  BY NextInv, NextTurns, TurnIsStep DEF Preserved
<1> QED
  BY <1>1, <1>2, Invariance, PTL DEF Spec, ImplementsInstanceLife, Life!LifeSpec
=============================================================================
