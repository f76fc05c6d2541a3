----------------------- MODULE TaskStateMachine_proofs -----------------------
(***************************************************************************)
(* What the transition table and the side effects of TaskStateMachine      *)
(* guarantee, for every pair of states, configuration and failure count.   *)
(***************************************************************************)
EXTENDS TaskStateMachine, TLAPS

\* An allowed change leads forward, from a state that is not final.
LEMMA AllowedForward ==
  ASSUME NEW from \in TaskState, NEW to \in TaskState, to \in Allowed(from)
  PROVE  /\ from # "DELETED" /\ to # "INIT" /\ to # from
         /\ to \in ACTIVE_STATES => from \in ACTIVE_STATES \cup INIT_STATES
         /\ from \in TERMINAL_STATES => to = "DELETED"
         /\ to = "DELETED" => from \in TERMINAL_STATES \cup {"KILLING"}
BY DEF When, Allowed, TaskState, ScheduleStatus, INIT_STATES, ACTIVE_STATES,
       TERMINAL_STATES, LeavesSlave, BeingStopped

\* A task is rescheduled only when it ends, by an allowed change that is saved.
LEMMA RescheduleEnds ==
  ASSUME NEW from \in TaskState, NEW to \in TaskState,
         NEW isService, NEW max, NEW f,
         "RESCHEDULE" \in SideEffects(from, to, isService, max, f)
  PROVE  /\ from \in SLAVE_ASSIGNED_STATES \ {"KILLING"}
         /\ to \in TERMINAL_STATES
         /\ "SAVE_STATE" \in SideEffects(from, to, isService, max, f)
         /\ "DELETE" \notin SideEffects(from, to, isService, max, f)
BY DEF When, PendingDelete, SideEffects, Followups, SaveState, Allowed, TaskState, ScheduleStatus,
       INIT_STATES, ACTIVE_STATES, SLAVE_ASSIGNED_STATES, TERMINAL_STATES,
       LeavesSlave, BeingStopped, Revives, ManageTerminatedTasks,
       ManageRestartingTask, ManageLaunchedTask, DeleteIfKilling,
       RescheduleIfService, IncrementFailuresMaybeReschedule
=============================================================================
