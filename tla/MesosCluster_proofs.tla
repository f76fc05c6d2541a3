------------------------- MODULE MesosCluster_proofs -------------------------
(***************************************************************************)
(* The scheduler in a cluster is an instance of StateManager, whose        *)
(* environment may report anything: so the theorems of StateManager_proofs *)
(* hold in the cluster, for any number of tasks, offers and messages.      *)
(***************************************************************************)
EXTENDS MesosCluster, StateManager_proofs

USE DEF TaskState, ScheduleStatus, INIT_STATES, ACTIVE_STATES, TERMINAL_STATES

\* A report that says nothing new: the step of StateManager that corresponds
\* to a step of Mesos, after which the scheduler has no driver calls to make.
LEMMA QuietIsNext ==
  ASSUME Inv, NEW t \in TaskIds, Quiet
  PROVE  Next
<1> DEFINE tk == task[t]
           m == Mutated(tk, "INIT")
           o == UpdateTask(Store, t, "INIT")
<1>1. task \in [TaskIds -> Task] /\ tk \in Task /\ tk.status \in TaskState
  BY DEF Inv, TasksInv, Typed, Task
<1>2. Effects(tk, "INIT") = {}
  BY <1>1 DEF Effects, SideEffects, When, Followups, SaveState, Allowed, LeavesSlave,
     BeingStopped, Revives, ManageTerminatedTasks, ManageRestartingTask,
     ManageLaunchedTask, DeleteIfKilling
<1>3. /\ m \in Task /\ m.status = tk.status /\ m.failures = tk.failures
      /\ m.instance = tk.instance /\ m.config = tk.config /\ m.ancestor = tk.ancestor
  BY <1>1, <1>2, MutatedFields
<1>4. m.killed = tk.killed
  BY <1>1, MutatedFields DEF Task
<1>5. m = tk
  BY <1>1, <1>3, <1>4 DEF Task
<1>6. o.task = task /\ o.work = work /\ o.kills = {}
  BY <1>1, <1>2, <1>5 DEF UpdateTask, Store, When
<1>7. o \in ChangeState(Store, t, None, "INIT")
  BY <1>2 DEF ChangeState, UpdateTaskAndExternalState, Store
<1>8. Commit(o) /\ launches' = {}
  BY <1>6 DEF Commit, Quiet
<1>9. ForceTaskState(t, "INIT")
  BY <1>7, <1>8 DEF ForceTaskState, Change, Write
<1> QED
  BY <1>9 DEF Next, Requests

\* In a step of Mesos the scheduler does nothing.
LEMMA MesosActsIsNext ==
  ASSUME Inv, NEW t \in TaskIds, MesosActs(t)
  PROVE  Next
<1>1. Quiet
  BY DEF MesosActs, LaunchArrives, LaunchFails, TaskRuns, TaskEnds, KillArrives,
     KillLost, SlaveLost, Reconcile
<1> QED
  BY <1>1, QuietIsNext

\* The steps of the scheduler are those of StateManager; an update in flight is
\* one of the statuses that Mesos may report.
LEMMA SchedulerActsIsNext ==
  ASSUME NEW t \in TaskIds, SchedulerActs(t)
  PROVE  Next
<1>1. CASE \E s \in MesosStatus : HandleUpdate(t, s)
  <2>1. PICK s \in MesosStatus : HandleUpdate(t, s)
    BY <1>1
  <2>2. StatusUpdate(t, s)
    BY <2>1 DEF HandleUpdate, StatusUpdate, Change, Write
  <2> QED
    BY <2>2 DEF Next
<1>2. CASE ~ \E s \in MesosStatus : HandleUpdate(t, s)
  BY <1>2 DEF SchedulerActs, Sched, Match, Next, Requests, Scheduling, Delayed
<1> QED
  BY <1>1, <1>2

\* Every step of the cluster is a step of StateManager, or leaves it alone.
LEMMA ClusterStep ==
  ASSUME Inv, [ClusterNext]_clusterVars
  PROVE  [Next]_vars
<1>1. CASE \E i \in Instances, c \in Configs : Sched(InsertPendingTasks(i, c))
  BY <1>1 DEF Sched, Next
<1>2. CASE \E t \in TaskIds : SchedulerActs(t)
  BY <1>2, SchedulerActsIsNext
<1>3. CASE \E t \in TaskIds : MesosActs(t)
  BY <1>3, MesosActsIsNext
<1>4. CASE Sched(Failover)
  BY <1>4 DEF Sched, Next
<1>5. CASE UNCHANGED clusterVars
  BY <1>5 DEF clusterVars, vars
<1> QED
  BY <1>1, <1>2, <1>3, <1>4, <1>5 DEF ClusterNext

(***************************************************************************)
(* Whatever the agents do and the network loses, the store sees nothing    *)
(* but transactions of StateManager.                                       *)
(***************************************************************************)
THEOREM ClusterRefinement == Cluster => ImplementsStateManager
<1>1. ClusterInit => Init
  BY DEF ClusterInit
<1>2. Inv /\ [ClusterNext]_clusterVars => Inv' /\ [Next]_vars
  BY ClusterStep, NextInv DEF Preserved
<1>3. Init => Inv
  BY InitInv
<1> QED
  BY <1>1, <1>2, <1>3, PTL DEF Cluster, ImplementsStateManager, Spec

(***************************************************************************)
(* In particular an instance never has two active tasks in the store, nor  *)
(* a task two successors, under launches, kills and updates that are lost, *)
(* delayed or redelivered.                                                 *)
(***************************************************************************)
THEOREM ClusterSafety == Cluster => [](OneActivePerInstance /\ SingleSuccessor)
BY ClusterRefinement, InstancesUnique, SuccessorsUnique, PTL DEF ImplementsStateManager

(***************************************************************************)
(* And what the updater, cron and the pages read of an instance in a live  *)
(* cluster is the life of InstanceLife: neither a lost task nor a late     *)
(* update empties the instance of a service that nobody killed.            *)
(***************************************************************************)
THEOREM ClusterLives == Cluster => ImplementsInstanceLife
BY ClusterRefinement, LivesOfInstances, PTL DEF ImplementsStateManager
=============================================================================
