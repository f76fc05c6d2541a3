----------------------------- MODULE Cron_proofs -----------------------------
(***************************************************************************)
(* Proofs about Cron, for any instances, templates and bounds.             *)
(***************************************************************************)
EXTENDS Cron, TLAPS

(* Every task is one of the instances of its run: this is what makes the   *)
(* test of insertPendingTasks sufficient.                                  *)
OfItsRun == \A i \in Active : i \in task[i].of

CronInv == CronTypeOK /\ WaitsForDying /\ OfItsRun /\ RunsDoNotOverlap

-----------------------------------------------------------------------------

(* What the launch of a run does to types and runs: the transaction of     *)
(* insertPendingTasks, whichever transaction of doExecute it is in.        *)
LEMMA InsertKeepsRuns ==
  ASSUME CronInv, NEW c \in Templates, InsertPendingTasks(c)
  PROVE  /\ task' \in [Instances -> Task \cup {None}]
         /\ runs' \in Nat
         /\ OfItsRun' /\ RunsDoNotOverlap'
<1> USE CronAssumption
<1>1. c.instances \subseteq Instances
  BY DEF CronAssumption
<1>2. CASE c.instances \cap Active # {}
  <2>1. task' = task /\ runs' = runs
    BY <1>2 DEF InsertPendingTasks
  <2> QED
    BY <2>1 DEF CronInv, CronTypeOK, OfItsRun, RunsDoNotOverlap, Active
<1>3. CASE c.instances \cap Active = {}
  <2> DEFINE new == [run |-> runs + 1, of |-> c.instances, st |-> "LIVE"]
  <2>1. /\ task' = [i \in Instances |-> IF i \in c.instances THEN new ELSE task[i]]
        /\ runs' = runs + 1
    BY <1>3 DEF InsertPendingTasks
  <2>2. runs \in Nat /\ task \in [Instances -> Task \cup {None}]
    BY DEF CronInv, CronTypeOK
  <2>3. new \in Task
    BY <1>1, <2>2 DEF Task
  <2>4. task' \in [Instances -> Task \cup {None}] /\ runs' \in Nat
    BY <2>1, <2>2, <2>3
  <2>5. \A i \in Active' : \/ i \in c.instances /\ task'[i] = new
                           \/ i \in Active \ c.instances /\ task'[i] = task[i]
    BY <1>3, <2>1 DEF Active
  <2>6. OfItsRun'
    BY <2>5 DEF CronInv, OfItsRun
  <2>7. \A i \in Active : task[i].of # c.instances
    BY <1>3 DEF CronInv, OfItsRun
  <2>8. RunsDoNotOverlap'
    BY <2>5, <2>7 DEF CronInv, RunsDoNotOverlap
  <2> QED
    BY <2>4, <2>6, <2>8
<1> QED
  BY <1>2, <1>3

LEMMA CronInitially == CronInit => CronInv
BY CronAssumption
   DEF CronInit, CronInv, CronTypeOK, WaitsForDying, OfItsRun, RunsDoNotOverlap, Active,
       CronAssumption

-----------------------------------------------------------------------------
(* The steps of an execution.                                              *)

LEMMA ExecuteKeeps ==
  ASSUME CronInv, Execute
  PROVE  CronInv'
<1> USE CronAssumption DEF CronAssumption
<1>1. /\ template' = template /\ triggers' \in 0 .. MaxTriggers
      /\ template \in Templates \cup {None}
  BY DEF Execute, CronInv, CronTypeOK
<1>2. CASE Active = {} /\ template # None
  <2>1. InsertPendingTasks(template) /\ exec' = None
    BY <1>2 DEF Execute
  <2>2. /\ task' \in [Instances -> Task \cup {None}] /\ runs' \in Nat
        /\ OfItsRun' /\ RunsDoNotOverlap'
    BY <1>1, <1>2, <2>1, InsertKeepsRuns
  <2> QED
    BY <1>1, <2>1, <2>2 DEF CronInv, CronTypeOK, WaitsForDying
<1>3. CASE ~ (Active = {} /\ template # None)
  <2>1. /\ task' = task /\ runs' = runs
        /\ \/ exec' = None
           \/ /\ template \in Templates
              /\ exec' = [phase |-> "kill", ids |-> Active, template |-> template]
    BY <1>1, <1>3 DEF Execute
  <2>2. CronTypeOK'
    BY <1>1, <2>1 DEF CronInv, CronTypeOK, Active, Phases
  <2>3. WaitsForDying'
    BY <2>1 DEF WaitsForDying, Active
  <2> QED
    BY <2>1, <2>2, <2>3 DEF CronInv, OfItsRun, RunsDoNotOverlap, Active
<1> QED
  BY <1>2, <1>3

LEMMA KillKeeps ==
  ASSUME CronInv, KillAncestors
  PROVE  CronInv'
<1> USE CronAssumption DEF CronAssumption
<1>1. PICK gone \in SUBSET exec.ids :
        /\ \A i \in gone : task[i].st = "LIVE"
        /\ task' = [i \in Instances |->
             IF i \in gone THEN None
             ELSE IF i \in exec.ids THEN [task[i] EXCEPT !.st = "KILLING"]
             ELSE task[i]]
        /\ exec' = [exec EXCEPT !.phase = "wait", !.ids = @ \ gone]
  BY DEF KillAncestors
<1>2. /\ exec \in [phase : Phases, ids : SUBSET Instances, template : Templates]
      /\ exec.ids \subseteq Active
      /\ task \in [Instances -> Task \cup {None}]
  BY DEF KillAncestors, CronInv, CronTypeOK, WaitsForDying
<1>3. /\ exec' \in [phase : Phases, ids : SUBSET Instances, template : Templates]
      /\ exec'.phase = "wait" /\ exec'.ids = exec.ids \ gone
  BY <1>1, <1>2 DEF Phases
<1>4. \A i \in exec.ids : [task[i] EXCEPT !.st = "KILLING"] \in Task
  BY <1>2 DEF Active, Task
<1>5. \A i \in exec.ids \ gone :
        /\ i \in Active
        /\ task'[i] \in Task /\ task'[i] # None
        /\ task'[i].st = "KILLING"
        /\ task'[i].run = task[i].run /\ task'[i].of = task[i].of
  BY <1>1, <1>2, <1>4 DEF Active, Task
<1>6. \A i \in Active' : /\ i \in Active
                         /\ task'[i].run = task[i].run /\ task'[i].of = task[i].of
  BY <1>1, <1>2, <1>5 DEF Active
<1>7. task' \in [Instances -> Task \cup {None}]
  BY <1>1, <1>2, <1>4
<1>8. CronTypeOK'
  BY <1>3, <1>7 DEF KillAncestors, CronInv, CronTypeOK
<1>9. WaitsForDying'
  BY <1>2, <1>3, <1>5 DEF WaitsForDying, Active
<1> QED
  BY <1>6, <1>8, <1>9 DEF CronInv, OfItsRun, RunsDoNotOverlap

LEMMA PollKeeps ==
  ASSUME CronInv, Poll
  PROVE  CronInv'
BY DEF CronInv, Poll, CronTypeOK, WaitsForDying, OfItsRun, RunsDoNotOverlap, Active, Phases

LEMMA LaunchKeeps ==
  ASSUME CronInv, Launch
  PROVE  CronInv'
<1>1. /\ exec.template \in Templates /\ InsertPendingTasks(exec.template)
      /\ exec' = None /\ template' = template /\ triggers' = triggers
  BY DEF CronInv, CronTypeOK, Launch
<1>2. /\ task' \in [Instances -> Task \cup {None}] /\ runs' \in Nat
      /\ OfItsRun' /\ RunsDoNotOverlap'
  BY <1>1, InsertKeepsRuns
<1> QED
  BY <1>1, <1>2 DEF CronInv, CronTypeOK, WaitsForDying

-----------------------------------------------------------------------------
(* The tasks.  Whatever happens to one of them, the execution forgets it   *)
(* in the same step or finds it killed.                                    *)

LEMMA TaskStepsKeep ==
  ASSUME CronInv, NEW i \in Instances,
         TaskEnds(i) \/ TaskReplaced(i) \/ ClientKills(i)
  PROVE  CronInv'
<1> USE CronAssumption DEF CronAssumption
<1>1. /\ template' = template /\ triggers' = triggers /\ runs' = runs
      /\ task \in [Instances -> Task \cup {None}] /\ task[i] # None /\ task[i] \in Task
      /\ exec \in [phase : Phases, ids : SUBSET Instances, template : Templates] \cup {None}
  BY DEF TaskEnds, TaskReplaced, ClientKills, CronInv, CronTypeOK
<1>2. ASSUME Forget(i)
      PROVE  /\ exec' \in [phase : Phases, ids : SUBSET Instances, template : Templates]
                          \cup {None}
             /\ exec' # None => /\ exec # None /\ exec'.phase = exec.phase
                                /\ exec'.ids = exec.ids \ {i}
  BY <1>1, <1>2 DEF Forget
<1>3. CASE TaskEnds(i)
  <2>1. /\ task' \in [Instances -> Task \cup {None}]
        /\ Active' = Active \ {i} /\ \A j \in Active' : task'[j] = task[j]
    BY <1>1, <1>3 DEF TaskEnds, Active
  <2> QED
    BY <1>1, <1>2, <1>3, <2>1
    DEF TaskEnds, CronInv, CronTypeOK, WaitsForDying, OfItsRun, RunsDoNotOverlap
<1>4. CASE TaskReplaced(i)
  <2>1. task' = task /\ Active' = Active
    BY <1>4 DEF TaskReplaced, Active
  <2> QED
    BY <1>1, <1>2, <1>4, <2>1
    DEF TaskReplaced, CronInv, CronTypeOK, WaitsForDying, OfItsRun, RunsDoNotOverlap
<1>5. CASE ClientKills(i)
  <2>1. /\ task' = [task EXCEPT ![i].st = "KILLING"] /\ exec' = exec
        /\ [task[i] EXCEPT !.st = "KILLING"] \in Task
    BY <1>1, <1>5 DEF ClientKills, Task
  <2>2. /\ task' \in [Instances -> Task \cup {None}]
        /\ Active' = Active
    BY <1>1, <2>1 DEF Active
  <2>3. \A j \in Active : /\ task'[j].run = task[j].run /\ task'[j].of = task[j].of
                          /\ task[j].st = "KILLING" => task'[j].st = "KILLING"
    BY <1>1, <2>1 DEF Active, Task
  <2> QED
    BY <1>1, <2>1, <2>2, <2>3
    DEF CronInv, CronTypeOK, WaitsForDying, OfItsRun, RunsDoNotOverlap
<1> QED
  BY <1>3, <1>4, <1>5

(* Requests, triggers and a failover touch neither tasks nor runs.         *)
LEMMA OtherStepsKeep ==
  ASSUME CronInv,
         (\E c \in Templates : Schedule(c)) \/ Deschedule \/ Fire \/ Failover \/ UNCHANGED cronVars
  PROVE  CronInv'
<1> USE CronAssumption DEF CronAssumption
<1>1. /\ task' = task /\ runs' = runs /\ exec' \in {exec, None}
      /\ template' \in Templates \cup {None} /\ triggers' \in 0 .. MaxTriggers
  BY DEF CronInv, CronTypeOK, Schedule, Deschedule, Fire, Failover, cronVars
<1> QED
  BY <1>1 DEF CronInv, CronTypeOK, WaitsForDying, OfItsRun, RunsDoNotOverlap, Active

LEMMA CronStep == CronInv /\ [CronNext]_cronVars => CronInv'
BY ExecuteKeeps, KillKeeps, PollKeeps, LaunchKeeps, TaskStepsKeep, OtherStepsKeep DEF CronNext

-----------------------------------------------------------------------------

(* The stored job, the execution under way and the tasks keep their types, *)
(* for any number of instances, templates, triggers and runs.              *)
THEOREM CronTypes == CronSpec => []CronTypeOK
<1>1. CronInv => CronTypeOK
  BY DEF CronInv
<1> QED
  BY <1>1, CronInitially, CronStep, PTL DEF CronSpec

(* Two runs of the same instances are never active together: the launch of *)
(* doExecute fails on a replacement that its look at the tasks missed.     *)
THEOREM RunsSeparate == CronSpec => []RunsDoNotOverlap
<1>1. CronInv => RunsDoNotOverlap
  BY DEF CronInv
<1> QED
  BY <1>1, CronInitially, CronStep, PTL DEF CronSpec

(* doUntilSuccess polls only for tasks that are being killed.              *)
THEOREM ExecutionsWait == CronSpec => []WaitsForDying
<1>1. CronInv => WaitsForDying
  BY DEF CronInv
<1> QED
  BY <1>1, CronInitially, CronStep, PTL DEF CronSpec
=============================================================================
