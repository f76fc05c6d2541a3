----------------------------- MODULE JobConsole -----------------------------
(***************************************************************************)
(* The job console of the web application (webapp/js/auroraClient.js): two *)
(* forms that create jobs and share one task object, and a table of the    *)
(* jobs created, kept in the browser's IndexedDB.  A job is known by its   *)
(* number and the processes of its configuration by their names; the other *)
(* fields of the forms are left out.                                       *)
(***************************************************************************)
EXTENDS Integers, Sequences, FiniteSets, SequencesExt

CONSTANTS Lists,          \* the lists of processes a user enters, by their names
          Columns,        \* columns of the grid the processes are arranged in
          MaxJobs,        \* bound: jobs submitted
          MaxWrong        \* bound: requests of the page that fail

VARIABLES
  tab,        \* the tab of the advanced form, or "closed"
  processes,  \* the processes of the tab "process", when it was left
  grid,       \* the names in the grid
  taskObj,    \* processes and order constraint; both forms write it
  sent,       \* the jobs whose creation is not answered
  opened,     \* the database is open
  jobData,    \* the object store, keys 1, 2, ...
  txns,       \* its transactions, in the order of their creation
  rows,       \* the table; key 0 is a cell left empty
  submitted, wrong,
  raced       \* history: the last refresh began while another one was reading

consoleVars == <<tab, processes, grid, taskObj, sent, opened, jobData, txns, rows,
                 submitted, wrong, raced>>

formVars == <<tab, processes, grid, taskObj>>
tableVars == <<opened, jobData, txns, rows, raced>>

Deleted == <<"deleted">>  \* taskObj.constraints after `delete`

(* The arrangements of a list without repetitions. *)
Perms(s) == {t \in [DOMAIN s -> Range(s)] : Range(t) = Range(s) /\ IsInjective(t)}

ASSUME ListsAssumption ==
  /\ \A s \in Lists : s \in Seq(Range(s)) /\ IsInjective(s) /\ s # <<>>
  /\ Columns \in Nat \ {0}

-----------------------------------------------------------------------------
(* The advanced form: processes, then the task, then the job. *)

OpenAdvanced ==
  /\ tab = "closed"
  /\ tab' = "process"
  /\ UNCHANGED <<processes, grid, taskObj, sent, submitted, wrong, tableVars>>

getProcesses(names) ==
  /\ tab = "process"
  /\ processes' = names
  /\ grid' = names
  /\ tab' = "task"
  /\ UNCHANGED <<taskObj, sent, submitted, wrong, tableVars>>

(* The user has arranged the grid; the elements are sorted by their distance *)
(* from the left, and those below each other come in any order.              *)
Left(arranged, name) == ((CHOOSE p \in DOMAIN arranged : arranged[p] = name) - 1) % Columns

SortedByLeft(arranged) ==
  {s \in Perms(arranged) :
     \A i, j \in DOMAIN s : i < j => Left(arranged, s[i]) <= Left(arranged, s[j])}

getTask(parallel, arranged) ==
  /\ tab = "task"
  /\ \E order \in IF parallel THEN {Deleted} ELSE SortedByLeft(arranged) :
       taskObj' = [processes |-> processes, order |-> order]
  /\ grid' = arranged
  /\ tab' = "job"
  /\ UNCHANGED <<processes, sent, submitted, wrong, tableVars>>

Back ==
  /\ tab \in {"task", "job"}
  /\ tab' = IF tab = "job" THEN "task" ELSE "process"
  /\ UNCHANGED <<processes, grid, taskObj, sent, submitted, wrong, tableVars>>

(* The form is dismissed; the page keeps what was entered. *)
Dismiss ==
  /\ tab # "closed"
  /\ tab' = "closed"
  /\ UNCHANGED <<processes, grid, taskObj, sent, submitted, wrong, tableVars>>

(* callCreateJob() sends the task object as it is. *)
callCreateJob ==
  /\ submitted < MaxJobs
  /\ submitted' = submitted + 1
  /\ sent' = sent \cup {submitted + 1}

SubmitAdvanced ==
  /\ tab = "job"
  /\ callCreateJob
  /\ UNCHANGED <<wrong, formVars, tableVars>>

(* getExecConfig() of the simple form names the processes by their number,  *)
(* and throws when the other form has deleted the constraints.               *)
\* Mutation: the order of the other form is left in the task object.
SubmitWithOldOrder(names) ==
  /\ tab = "closed"
  /\ taskObj' = [taskObj EXCEPT !.processes = names]
  /\ callCreateJob
  /\ UNCHANGED <<tab, processes, grid, wrong, tableVars>>

SubmitSimple(names) ==
  /\ tab = "closed"
  /\ taskObj' = [taskObj EXCEPT !.processes = names,
                                !.order = IF @ = Deleted THEN Deleted ELSE names]
  /\ IF taskObj.order = Deleted THEN UNCHANGED <<sent, submitted>>
     ELSE callCreateJob
  /\ UNCHANGED <<tab, processes, grid, wrong, tableVars>>

-----------------------------------------------------------------------------
(* The database.  A transaction that writes waits for all created before    *)
(* it, one that reads for those before it that write.                        *)

Runs(k) == \A j \in 1..(k - 1) : txns[k].kind = "read" /\ txns[j].kind = "read"

\* Mutation: the table is not emptied.
refreshFullTable(others) ==
  /\ txns' = Append(others, [kind |-> "read", job |-> 0, at |-> 1])
  /\ raced' = \E k \in DOMAIN others : others[k].kind = "read"
  /\ UNCHANGED rows

refreshData(others) ==
  /\ txns' = Append(others, [kind |-> "read", job |-> 0, at |-> 1])
  /\ rows' = <<>>
  /\ raced' = \E k \in DOMAIN others : others[k].kind = "read"

OpenSucceeds ==
  /\ ~opened
  /\ opened' = TRUE
  /\ refreshData(txns)
  /\ UNCHANGED <<jobData, sent, submitted, wrong, formVars>>

CursorMoves(k) ==
  /\ txns[k].kind = "read" /\ Runs(k)
  /\ IF txns[k].at \in DOMAIN jobData
     THEN /\ rows' = Append(rows, [key |-> txns[k].at, job |-> jobData[txns[k].at]])
          /\ txns' = [txns EXCEPT ![k].at = @ + 1]
     ELSE /\ txns' = RemoveAt(txns, k)
          /\ UNCHANGED rows
  /\ UNCHANGED <<opened, jobData, raced, sent, submitted, wrong, formVars>>

(* The success callback of createJob: addJobs() and a row without a key.     *)
(* Before the database is open addJobs() throws.                             *)
CreateAnswered(c) ==
  /\ sent' = sent \ {c}
  /\ IF opened
     THEN /\ txns' = Append(txns, [kind |-> "write", job |-> c, at |-> 0])
          /\ rows' = Append(rows, [key |-> 0, job |-> c])
          /\ tab' = "closed"
     ELSE UNCHANGED <<txns, rows, tab>>
  /\ UNCHANGED <<opened, jobData, raced, submitted, wrong, processes, grid, taskObj>>

CreateFails(c) ==
  /\ wrong < MaxWrong
  /\ wrong' = wrong + 1
  /\ sent' = sent \ {c}
  /\ UNCHANGED <<submitted, formVars, tableVars>>

AddSucceeds(k) ==
  /\ txns[k].kind = "write" /\ Runs(k)
  /\ jobData' = Append(jobData, txns[k].job)
  /\ refreshData(RemoveAt(txns, k))
  /\ UNCHANGED <<opened, sent, submitted, wrong, formVars>>

AddFails(k) ==
  /\ wrong < MaxWrong
  /\ wrong' = wrong + 1
  /\ txns[k].kind = "write" /\ Runs(k)
  /\ txns' = RemoveAt(txns, k)
  /\ UNCHANGED <<opened, jobData, rows, raced, sent, submitted, formVars>>

ConsoleInit ==
  /\ tab = "closed" /\ processes = <<>> /\ grid = <<>>
  /\ taskObj = [processes |-> <<>>, order |-> <<>>]
  /\ sent = {} /\ opened = FALSE /\ txns = <<>> /\ rows = <<>>
  /\ jobData \in {<<>>, <<0>>}
  /\ submitted = 0 /\ wrong = 0 /\ raced = FALSE

ConsoleNext ==
  \/ OpenAdvanced \/ Back \/ Dismiss \/ SubmitAdvanced \/ OpenSucceeds
  \/ \E names \in Lists : getProcesses(names) \/ SubmitSimple(names)
  \/ \E parallel \in BOOLEAN, arranged \in Perms(grid) : getTask(parallel, arranged)
  \/ \E c \in sent : CreateAnswered(c) \/ CreateFails(c)
  \/ \E k \in DOMAIN txns : CursorMoves(k) \/ AddSucceeds(k) \/ AddFails(k)

DatabaseRuns == \E k \in DOMAIN txns : CursorMoves(k) \/ AddSucceeds(k)

(* While the page is open IndexedDB opens and goes on with its transactions. *)
ConsoleFairness ==
  /\ WF_consoleVars(OpenSucceeds)
  /\ WF_consoleVars(DatabaseRuns)

ConsoleSpec == ConsoleInit /\ [][ConsoleNext]_consoleVars /\ ConsoleFairness

-----------------------------------------------------------------------------
(* The forms, the store and the table have their types. *)
ConsoleTypeOK ==
  /\ tab \in {"closed", "process", "task", "job"}
  /\ {processes, taskObj.processes} \subseteq Lists \cup {<<>>}
  /\ grid = <<>> \/ \E s \in Lists : grid \in Perms(s)
  /\ \A i \in DOMAIN rows : rows[i].key = 0 \/ rows[i].job = jobData[rows[i].key]
  /\ sent \subseteq 1..submitted

(* A configuration that is sent orders exactly its own processes, or none:   *)
(* although both forms write one task object, in several steps, neither      *)
(* leaves a process of the other in it.  It has the processes of the grid,   *)
(* in the order arranged when the grid is a single row.                      *)
Ordered(task) ==
  task.order # Deleted => Range(task.order) = Range(task.processes) /\ IsInjective(task.order)

OrderedAsArranged ==
  [][submitted' > submitted =>
       /\ Ordered(taskObj')
       /\ tab = "job" =>
            /\ Range(grid) = Range(taskObj.processes)
            /\ Len(grid) <= Columns => taskObj.order \in {grid, Deleted}]_consoleVars

(* When the database is at rest the table lists every stored job; once each, *)
(* in the order of the keys, unless the last refresh began while another one *)
(* was still reading.                                                        *)
TableIsComplete ==
  LET listed == {i \in DOMAIN rows : rows[i].key # 0}
  IN  opened /\ txns = <<>> =>
        /\ {rows[i].key : i \in listed} = DOMAIN jobData
        /\ ~raced => \A i, j \in listed : i < j => rows[i].key < rows[j].key

-----------------------------------------------------------------------------
=============================================================================
