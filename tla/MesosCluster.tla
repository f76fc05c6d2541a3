---------------------------- MODULE MesosCluster ----------------------------
(***************************************************************************)
(* The scheduler of StateManager together with the cluster it runs tasks   *)
(* on.  Mesos is external: it is modelled from the calls of the driver     *)
(* (mesos/SchedulerDriverService.java), the status updates the scheduler   *)
(* consumes (TaskStatusHandlerImpl.java) and its reconciliation requests   *)
(* (reconciliation/TaskReconciler.java).                                   *)
(*                                                                         *)
(* Calls to the driver may be lost.  A status update is redelivered until  *)
(* it is acknowledged, and is acknowledged after the transaction that      *)
(* applies it has been committed.  A partitioned agent is reported lost    *)
(* while its tasks go on running.                                          *)
(***************************************************************************)
EXTENDS StateManager, FiniteSets

CONSTANTS
  RequestKinds,      \* what clients ask for: a subset of {"kill", "restart"}
  MaxOffers,         \* bound on the offers Mesos makes, one launch each
  MaxUpdates         \* bound on the status updates in flight for a task

ASSUME BoundAssumption == MaxOffers \in Nat /\ MaxUpdates \in Nat \ {0}

VARIABLES
  agent,             \* what runs on the agents: [TaskIds -> AgentState]
  killMsgs,          \* killTask messages in flight
  launchMsgs,        \* launchTask messages in flight
  updates,           \* status updates not yet acknowledged
  offers             \* offers not yet used by a launch

netVars == <<agent, killMsgs, launchMsgs, updates, offers>>
clusterVars == <<vars, netVars>>

AgentState == {"none", "starting", "running", "dead"}

Alive(t) == agent[t] \in {"starting", "running"}

-----------------------------------------------------------------------------
(* The scheduler's side.                                                   *)

\* The driver calls of a step leave for Mesos.
Calls ==
  /\ killMsgs' = killMsgs \cup kills'
  /\ launchMsgs' = launchMsgs \cup launches'

Sched(step) == step /\ Calls /\ UNCHANGED <<agent, updates, offers>>

\* A matched offer is used up, by the launch or by being gone already.
Match(step) ==
  /\ offers > 0
  /\ step
  /\ offers' = offers - 1
  /\ Calls
  /\ UNCHANGED <<agent, updates>>

\* Mutation: the update is written without asking the state machine.
HandleUpdateDirectly(t, s) ==
  /\ <<t, s>> \in updates
  /\ task[t].status # "DELETED"
  /\ Commit([Store EXCEPT !.task[t].status = s])
  /\ launches' = {}
  /\ updates' = updates \ {<<t, s>>}
  /\ Calls
  /\ UNCHANGED <<agent, offers>>

\* TaskStatusHandlerImpl.run: apply an update, then acknowledge it; the
\* acknowledgement may be lost, and is not sent when the transaction fails.
HandleUpdate(t, s) ==
  /\ <<t, s>> \in updates
  /\ launches' = {}
  /\ \E o \in ChangeState(Store, t, None, s) :
       \/ Commit(o) /\ updates' \in {updates, updates \ {<<t, s>>}}
       \/ Abort(o) /\ UNCHANGED updates
  /\ Calls
  /\ UNCHANGED <<agent, offers>>

-----------------------------------------------------------------------------
(* The agents and the master.                                              *)

\* A step in which the scheduler does nothing, and so calls no driver.
Quiet ==
  /\ kills' = {}
  /\ launches' = {}
  /\ UNCHANGED <<task, work>>

Report(t, s) ==
  /\ Cardinality({u \in updates : u[1] = t}) < MaxUpdates
  /\ updates' = updates \cup {<<t, s>>}

\* A duplicate identifier is refused, as TASK_ERROR, which converts to LOST.
LaunchArrives(t) ==
  /\ t \in launchMsgs
  /\ launchMsgs' = launchMsgs \ {t}
  /\ IF Alive(t)
     THEN Report(t, "LOST") /\ UNCHANGED agent
     ELSE Report(t, "STARTING") /\ agent' = [agent EXCEPT ![t] = "starting"]
  /\ Quiet /\ UNCHANGED <<killMsgs, offers>>

\* The offer was rescinded, or the message never arrived.
LaunchFails(t) ==
  /\ t \in launchMsgs
  /\ launchMsgs' = launchMsgs \ {t}
  /\ Report(t, "LOST") \/ UNCHANGED updates
  /\ Quiet /\ UNCHANGED <<agent, killMsgs, offers>>

TaskRuns(t) ==
  /\ agent[t] = "starting"
  /\ agent' = [agent EXCEPT ![t] = "running"]
  /\ Report(t, "RUNNING")
  /\ Quiet /\ UNCHANGED <<killMsgs, launchMsgs, offers>>

TaskEnds(t, s) ==
  /\ Alive(t)
  /\ agent' = [agent EXCEPT ![t] = "dead"]
  /\ Report(t, s)
  /\ Quiet /\ UNCHANGED <<killMsgs, launchMsgs, offers>>

\* The master answers a kill of a task it does not know with TASK_LOST.
KillArrives(t) ==
  /\ t \in killMsgs
  /\ killMsgs' = killMsgs \ {t}
  /\ IF Alive(t)
     THEN Report(t, "KILLED") /\ agent' = [agent EXCEPT ![t] = "dead"]
     ELSE Report(t, "LOST") /\ UNCHANGED agent
  /\ Quiet /\ UNCHANGED <<launchMsgs, offers>>

KillLost(t) ==
  /\ t \in killMsgs
  /\ killMsgs' = killMsgs \ {t}
  /\ Quiet /\ UNCHANGED <<agent, launchMsgs, updates, offers>>

\* The master gives an agent up; its tasks may go on running behind a netsplit.
SlaveLost(t) ==
  /\ Alive(t)
  /\ agent' \in {agent, [agent EXCEPT ![t] = "dead"]}
  /\ Report(t, "LOST")
  /\ Quiet /\ UNCHANGED <<killMsgs, launchMsgs, offers>>

\* Implicit reconciliation reports what runs; explicit, what the store believes.
Reconcile(t) ==
  /\ \/ agent[t] = "starting" /\ Report(t, "STARTING")
     \/ agent[t] = "running" /\ Report(t, "RUNNING")
     \/ /\ ~ Alive(t) /\ t \notin launchMsgs
        /\ task[t].status \in SLAVE_ASSIGNED_STATES
        /\ Report(t, "LOST")
  /\ Quiet /\ UNCHANGED <<agent, killMsgs, launchMsgs, offers>>

-----------------------------------------------------------------------------

ClusterInit ==
  /\ Init
  /\ agent = [t \in TaskIds |-> "none"]
  /\ killMsgs = {}
  /\ launchMsgs = {}
  /\ updates = {}
  /\ offers = MaxOffers

SchedulerActs(t) ==
  \/ "kill" \in RequestKinds /\ Sched(KillTask(t))
  \/ "restart" \in RequestKinds /\ Sched(RestartShard(t))
  \/ Sched(ScheduleGone(t))
  \/ Match(ScheduleLaunched(t))
  \/ Match(ScheduleLaunchFailed(t))
  \/ \E s \in TRANSIENT_STATES : Sched(Timeout(t, s))
  \/ Sched(KillRetry(t))
  \/ Sched(Throttle(t))
  \/ \E s \in MesosStatus : HandleUpdate(t, s)

MesosActs(t) ==
  \/ LaunchArrives(t)
  \/ LaunchFails(t)
  \/ TaskRuns(t)
  \/ \E s \in {"FINISHED", "FAILED"} : TaskEnds(t, s)
  \/ KillArrives(t)
  \/ KillLost(t)
  \/ SlaveLost(t)
  \/ Reconcile(t)

ClusterNext ==
  \/ \E i \in Instances, c \in Configs : Sched(InsertPendingTasks(i, c))
  \/ \E t \in TaskIds : SchedulerActs(t) \/ MesosActs(t)
  \/ Sched(Failover)

(***************************************************************************)
(* Fairness.  The delay executor runs its work and the status handler      *)
(* drains its queue in order, so that no update waits for ever; the log    *)
(* does not fail every time (a fair step is one that commits).  Tasks need *)
(* not start, end or be matched with an offer, and no client or            *)
(* administrator needs to act.  Under LossySpec Mesos owes nothing at all: *)
(* every call of the driver may be lost, and every report withheld.        *)
(***************************************************************************)
Effective(step) == step /\ task' # task

SchedulerFairness ==
  \A t \in TaskIds :
    /\ \A s \in MesosStatus :
         WF_clusterVars(HandleUpdate(t, s) /\ <<t, s>> \notin updates')
    /\ WF_clusterVars(\E s \in TRANSIENT_STATES : Effective(Sched(Timeout(t, s))))

ThrottlerFairness == \A t \in TaskIds : WF_clusterVars(Effective(Sched(Throttle(t))))

Cluster == ClusterInit /\ [][ClusterNext]_clusterVars

\* All that releasing a throttled task needs: the throttler's work runs.
ThrottlerSpec == Cluster /\ ThrottlerFairness

LossySpec == Cluster /\ SchedulerFairness

\* Reconciliation runs at a fixed rate, so the bound on updates does not keep
\* it waiting for ever, and not every kill is lost.
MesosFairness ==
  \A t \in TaskIds : SF_clusterVars(Reconcile(t)) /\ SF_clusterVars(KillArrives(t))

ClusterSpec == LossySpec /\ MesosFairness

-----------------------------------------------------------------------------
(* Properties.                                                             *)

(***************************************************************************)
(* The cluster implements the environment StateManager assumes: delivery,  *)
(* loss and redelivery of driver calls and updates show the store nothing  *)
(* but transactions of StateManager, so its invariants hold here as well.  *)
(***************************************************************************)
ImplementsStateManager == Spec

\* Rescheduling needs an identifier: the bound on TaskIds, not the code, ends it.
Exhausted == Unused(task) = {}

(***************************************************************************)
(* A task that runs although the scheduler believes it has ended, or does  *)
(* not know it, is eventually killed: after a netsplit, after a kill that  *)
(* was lost and timed out, or after a launch whose transaction failed.     *)
(* Only reconciliation and the callbacks of illegal transitions do this.   *)
(***************************************************************************)
ZombiesAreKilled ==
  \A t \in TaskIds :
    (Alive(t) /\ task[t].status \in TERMINAL_STATES \cup {"DELETED"}) ~> ~ Alive(t)

Waits(t) == task[t].status \in BeingStopped \cup {"ASSIGNED"}

(***************************************************************************)
(* A task that was launched, or that somebody asked to stop, does not stay *)
(* in that state for ever, whatever is lost between scheduler and agent.   *)
(***************************************************************************)
TransientEnds ==
  \A t \in TaskIds :
    /\ task[t].status = "KILLING" ~> task[t].status # "KILLING"
    /\ Waits(t) /\ ~ Exhausted ~> ~ Waits(t) \/ Exhausted

(***************************************************************************)
(* A task penalised for flapping is released to the queue (or killed), also*)
(* when the scheduler fails over while it waits.                           *)
(***************************************************************************)
ThrottledIsReleased ==
  \A t \in TaskIds :
    task[t].status = "THROTTLED" ~> task[t].status # "THROTTLED"
=============================================================================
