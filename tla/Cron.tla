-------------------------------- MODULE Cron --------------------------------
(***************************************************************************)
(* One cron job: its template (cron/quartz/CronJobManagerImpl.java), its   *)
(* executions (cron/quartz/AuroraCronJob.java) and its tasks, which end    *)
(* and are rescheduled the way StateManager lets them.  Quartz is external:*)
(* it runs at most one execution of a job at a time.                       *)
(*                                                                         *)
(* An execution is not one transaction.  It reads the active tasks in one, *)
(* kills them in a second, polls until these (by identifier) have ended,   *)
(* and launches the next run in a third, from the template it read first.  *)
(***************************************************************************)
EXTENDS Naturals

CONSTANTS
  Instances,
  Templates,     \* records of the instances and the collision policy of a job
  MaxTriggers,   \* bound on the triggers that wait in Quartz
  MaxRuns,       \* bound on the runs that are launched
  None

Policies == {"KILL_EXISTING", "CANCEL_NEW"}

\* A task knows the run it belongs to, and the instances of that run.
Task == [run : Nat, of : SUBSET Instances, st : {"LIVE", "KILLING"}]

ASSUME CronAssumption ==
  /\ Templates \subseteq [instances : SUBSET Instances, policy : Policies]
  /\ \A c \in Templates : c.instances # {}
  /\ MaxTriggers \in Nat \ {0} /\ MaxRuns \in Nat
  /\ None \notin Templates \cup Task

VARIABLES
  template,   \* the job in the cron store, or None
  triggers,   \* triggers that wait for their execution
  exec,       \* the execution under way beyond its first transaction, or None
  task,       \* [Instances -> the active task, or None]
  runs        \* the runs launched so far

cronVars == <<template, triggers, exec, task, runs>>

Phases == {"kill", "wait", "launch"}

Active == {i \in Instances : task[i] # None}

-----------------------------------------------------------------------------
(* Requests: createJob, updateJob, deleteJob and startJobNow.              *)

\* The pending triggers of the job go with its old schedule.
Schedule(c) ==
  /\ c # template
  /\ template' = c
  /\ triggers' = 0
  /\ UNCHANGED <<exec, task, runs>>

Deschedule ==
  /\ template # None
  /\ template' = None
  /\ triggers' = 0
  /\ UNCHANGED <<exec, task, runs>>

\* The schedule's time has come, or startJobNow was called.
Fire ==
  /\ template # None
  /\ triggers < MaxTriggers
  /\ triggers' = triggers + 1
  /\ UNCHANGED <<template, exec, task, runs>>

-----------------------------------------------------------------------------
(* doExecute.                                                              *)

\* Mutation: the instances that are free are launched, whatever the others do.
InsertFree(c) ==
  /\ task' = [i \in Instances |->
       IF i \in c.instances \ Active THEN [run |-> runs + 1, of |-> c.instances, st |-> "LIVE"]
       ELSE task[i]]
  /\ runs' = runs + 1

\* insertPendingTasks: an instance that is active makes the transaction fail.
InsertPendingTasks(c) ==
  IF c.instances \cap Active = {}
  THEN /\ task' = [i \in Instances |->
            IF i \in c.instances THEN [run |-> runs + 1, of |-> c.instances, st |-> "LIVE"]
            ELSE task[i]]
       /\ runs' = runs + 1
  ELSE UNCHANGED <<task, runs>>

\* The first transaction; a job that has been deleted meanwhile is not found.
Execute ==
  /\ exec = None
  /\ triggers > 0
  /\ triggers' = triggers - 1
  /\ runs < MaxRuns
  /\ IF Active = {} /\ template # None
     THEN InsertPendingTasks(template) /\ UNCHANGED exec
     ELSE /\ exec' = IF template # None /\ template.policy = "KILL_EXISTING"
                     THEN [phase |-> "kill", ids |-> Active, template |-> template]
                     ELSE None
          /\ UNCHANGED <<task, runs>>
  /\ UNCHANGED template

\* The second transaction.  A task that was still PENDING is gone at once; one that
\* has ended meanwhile is none of exec.ids, nor is the task that replaced it.
KillAncestors ==
  /\ exec # None /\ exec.phase = "kill"
  /\ \E gone \in SUBSET exec.ids :
       /\ \A i \in gone : task[i].st = "LIVE"
       /\ task' = [i \in Instances |->
            IF i \in gone THEN None
            ELSE IF i \in exec.ids THEN [task[i] EXCEPT !.st = "KILLING"]
            ELSE task[i]]
       /\ exec' = [exec EXCEPT !.phase = "wait", !.ids = @ \ gone]
  /\ UNCHANGED <<template, triggers, runs>>

\* Mutation: waits until the job has no active task.
PollAll ==
  /\ exec # None /\ exec.phase = "wait"
  /\ Active = {}
  /\ exec' = [exec EXCEPT !.phase = "launch", !.ids = {}]
  /\ UNCHANGED <<template, triggers, task, runs>>

\* doUntilSuccess: reads, outside the transaction that launches.
Poll ==
  /\ exec # None /\ exec.phase = "wait"
  /\ exec.ids = {}
  /\ exec' = [exec EXCEPT !.phase = "launch"]
  /\ UNCHANGED <<template, triggers, task, runs>>

\* The third transaction; an exception ends the execution without a run.
Launch ==
  /\ exec # None /\ exec.phase = "launch"
  /\ InsertPendingTasks(exec.template)
  /\ exec' = None
  /\ UNCHANGED <<template, triggers>>

-----------------------------------------------------------------------------
(* The tasks and the leader.                                               *)

\* Mutation: instances are remembered, not tasks.
ForgetNothing(i) == exec' = exec

\* What the execution remembers are identifiers: a replacement is not among them.
Forget(i) == exec' = IF exec = None THEN None ELSE [exec EXCEPT !.ids = @ \ {i}]

TaskEnds(i) ==
  /\ task[i] # None
  /\ task' = [task EXCEPT ![i] = None]
  /\ Forget(i)
  /\ UNCHANGED <<template, triggers, runs>>

\* Lost, failed with failures left, or restarted: replaced in the same transaction.
TaskReplaced(i) ==
  /\ task[i] # None /\ task[i].st = "LIVE"
  /\ task' = task
  /\ Forget(i)
  /\ UNCHANGED <<template, triggers, runs>>

ClientKills(i) ==
  /\ task[i] # None /\ task[i].st = "LIVE"
  /\ task' = [task EXCEPT ![i].st = "KILLING"]
  /\ UNCHANGED <<template, triggers, exec, runs>>

\* The next leader schedules the stored job; triggers and executions are lost.
Failover ==
  /\ triggers' = 0
  /\ exec' = None
  /\ UNCHANGED <<template, task, runs>>

-----------------------------------------------------------------------------

CronInit ==
  /\ template = None
  /\ triggers = 0
  /\ exec = None
  /\ task = [i \in Instances |-> None]
  /\ runs = 0

CronNext ==
  \/ \E c \in Templates : Schedule(c)
  \/ Deschedule \/ Fire
  \/ Execute \/ KillAncestors \/ Poll \/ Launch
  \/ \E i \in Instances : TaskEnds(i) \/ TaskReplaced(i) \/ ClientKills(i)
  \/ Failover

(***************************************************************************)
(* Fairness: the thread of an execution goes on, and a task that is being  *)
(* killed ends (StateManager's kill retries and timeouts).                 *)
(***************************************************************************)
CronFairness ==
  /\ WF_cronVars(KillAncestors) /\ WF_cronVars(Poll) /\ WF_cronVars(Launch)
  /\ \A i \in Instances :
       WF_cronVars(task[i] # None /\ task[i].st = "KILLING" /\ TaskEnds(i))

CronSpec == CronInit /\ [][CronNext]_cronVars /\ CronFairness

-----------------------------------------------------------------------------
(* Properties.                                                             *)

\* The stored job, the execution and the tasks keep their types.
CronTypeOK ==
  /\ template \in Templates \cup {None}
  /\ triggers \in 0 .. MaxTriggers
  /\ exec \in [phase : Phases, ids : SUBSET Instances, template : Templates] \cup {None}
  /\ task \in [Instances -> Task \cup {None}]
  /\ runs \in Nat

(***************************************************************************)
(* A waiting execution waits only for tasks that are being killed, so it   *)
(* cannot wait for what replaced them.                                     *)
(***************************************************************************)
WaitsForDying ==
  exec # None =>
    /\ exec.ids \subseteq Active
    /\ exec.phase = "wait" => \A i \in exec.ids : task[i].st = "KILLING"
    /\ exec.phase = "launch" => exec.ids = {}

(***************************************************************************)
(* Two runs of the same instances are never active together, although the  *)
(* launch comes later than the look at the tasks that it has to wait for,  *)
(* and tasks are replaced in between.  (If the template has meanwhile been *)
(* given other instances they may be.)                                     *)
(***************************************************************************)
RunsDoNotOverlap ==
  \A i, j \in Active :
    task[i].of = task[j].of => task[i].run = task[j].run

(***************************************************************************)
(* An execution comes to an end: with a launch, with a collision or with   *)
(* its leader.  Quartz would not execute the job again otherwise.          *)
(***************************************************************************)
ExecutionEnds == exec # None ~> exec = None
=============================================================================
