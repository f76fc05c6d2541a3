----------------------------- MODULE StorageOps -----------------------------
(***************************************************************************)
(* The operations a transaction records in the log, what replaying each    *)
(* does to the stores (storage/log/LogStorage.java), and how an operation  *)
(* is merged into the one before it (storage/log/StreamManagerImpl.java).  *)
(*                                                                         *)
(* The stores are tasks by identifier, host attributes by host, the        *)
(* framework identifier, and entries: one keyed store that stands for cron *)
(* jobs, locks and quotas, which are saved and removed in the same way.    *)
(***************************************************************************)

CONSTANTS
  TaskIds, Tasks,            \* identifiers and the values stored under them
  Hosts, Slaves, Attributes, \* a host, its slave id and its attribute values
  Frameworks,                \* framework identifiers
  Keys, Entries,             \* the other stores
  None                       \* the absent value

MaintenanceMode == {"NONE", "DRAINING"}

HostAttributes == [slave : Slaves, mode : MaintenanceMode, attributes : Attributes]

StoreProvider == [tasks   : [TaskIds -> Tasks \cup {None}],
                  hosts   : [Hosts -> HostAttributes \cup {None}],
                  framework : Frameworks \cup {None},
                  entries : [Keys -> Entries \cup {None}]]

ASSUME StoreAssumption ==
  /\ None \notin Tasks
  /\ None \notin Entries
  /\ None \notin HostAttributes
  /\ None \notin StoreProvider

EmptyStore == [tasks   |-> [t \in TaskIds |-> None],
               hosts   |-> [h \in Hosts |-> None],
               framework |-> None,
               entries |-> [k \in Keys |-> None]]

\* An operation saves the tasks of a partial function from identifiers.
SomeTasks == UNION {[I -> Tasks] : I \in SUBSET TaskIds}

Op == [type : {"SAVE_TASKS"}, tasks : SomeTasks]
      \cup [type : {"REMOVE_TASKS"}, ids : SUBSET TaskIds]
      \cup [type : {"SAVE_HOST_ATTRIBUTES"}, host : Hosts, value : HostAttributes]
      \cup [type : {"SAVE_FRAMEWORK_ID"}, id : Frameworks]
      \cup [type : {"PUT"}, key : Keys, value : Entries \cup {None}]

-----------------------------------------------------------------------------
(* Replay.                                                                 *)

SaveTasks(s, f) ==
  [s EXCEPT !.tasks = [t \in TaskIds |-> IF t \in DOMAIN f THEN f[t] ELSE s.tasks[t]]]

DeleteTasks(s, I) ==
  [s EXCEPT !.tasks = [t \in TaskIds |-> IF t \in I THEN None ELSE s.tasks[t]]]

SaveHostAttributes(s, h, v) == [s EXCEPT !.hosts[h] = v]

SaveFrameworkId(s, id) == [s EXCEPT !.framework = id]

Put(s, k, v) == [s EXCEPT !.entries[k] = v]

ReplayOp(s, op) ==
  CASE op.type = "SAVE_TASKS" -> SaveTasks(s, op.tasks)
    [] op.type = "REMOVE_TASKS" -> DeleteTasks(s, op.ids)
    [] op.type = "SAVE_HOST_ATTRIBUTES" -> SaveHostAttributes(s, op.host, op.value)
    [] op.type = "SAVE_FRAMEWORK_ID" -> SaveFrameworkId(s, op.id)
    [] op.type = "PUT" -> Put(s, op.key, op.value)

-----------------------------------------------------------------------------
(* Coalescing.                                                             *)

CanCoalesce(prior, next) ==
  /\ prior.type = next.type
  /\ prior.type # "PUT"
  /\ prior.type = "SAVE_HOST_ATTRIBUTES" => prior.host = next.host

\* The later definition of a task overrides the earlier one.
Override(f, g) ==
  [t \in DOMAIN f \cup DOMAIN g |-> IF t \in DOMAIN g THEN g[t] ELSE f[t]]

\* Mutation: the earlier definition wins.
CoalesceKeepsPrior(prior, next) ==
  CASE prior.type = "SAVE_TASKS" ->
         [prior EXCEPT !.tasks = Override(next.tasks, prior.tasks)]
    [] prior.type = "REMOVE_TASKS" -> [prior EXCEPT !.ids = @ \cup next.ids]
    [] prior.type = "SAVE_HOST_ATTRIBUTES" ->
         [prior EXCEPT !.value.attributes = next.value.attributes]
    [] prior.type = "SAVE_FRAMEWORK_ID" -> next

\* Of two saves of a host, the earlier one keeps its mode and its slave.
Coalesce(prior, next) ==
  CASE prior.type = "SAVE_TASKS" ->
         [prior EXCEPT !.tasks = Override(prior.tasks, next.tasks)]
    [] prior.type = "REMOVE_TASKS" -> [prior EXCEPT !.ids = @ \cup next.ids]
    [] prior.type = "SAVE_HOST_ATTRIBUTES" ->
         [prior EXCEPT !.value.attributes = next.value.attributes]
    [] prior.type = "SAVE_FRAMEWORK_ID" -> next
=============================================================================
