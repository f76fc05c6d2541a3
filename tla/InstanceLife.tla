---------------------------- MODULE InstanceLife ----------------------------
(***************************************************************************)
(* What the scheduler promises about the instances of its jobs to those    *)
(* that look only at their active tasks (Query.instanceScoped(..).active): *)
(* the job updater, cron, the collision check of insertPendingTasks.       *)
(*                                                                         *)
(* An instance is empty or held by one task.  The task advances from the   *)
(* queue to a slave and on to its end; it gives the instance up only when  *)
(* it is killed or may complete, and otherwise hands it over, within one   *)
(* step, to a new task of the same configuration.  Side effects, delayed   *)
(* work, failures of the scheduler and the ways a task ends do not show.   *)
(***************************************************************************)
CONSTANTS
  Ids,               \* task identifiers
  Instances,         \* instance keys
  Configs,           \* task configurations
  IsService          \* [Configs -> BOOLEAN]

VARIABLES
  active,            \* the active tasks of an instance: [Instances -> SUBSET Holder]
  spent              \* the identifiers used so far

lifeVars == <<active, spent>>

\* waiting: THROTTLED or PENDING; stopping: PREEMPTING, RESTARTING or DRAINING.
Phases == {"waiting", "placed", "stopping", "killing"}

Holder == [id : Ids, config : Configs, phase : Phases]

-----------------------------------------------------------------------------
(* The turns of one instance, whose active tasks are A before and B after. *)

Fresh(h, used) == h \in Holder /\ h.id \notin used /\ h.phase = "waiting"

\* insertPendingTasks, after its check for collisions.
Taken(A, B, used) == A = {} /\ \E h \in B : Fresh(h, used) /\ B = {h}

Advances ==
  {<<"waiting", "placed">>, <<"placed", "stopping">>, <<"placed", "killing">>,
   <<"stopping", "killing">>}

\* The holder is assigned, asked to stop, or killed.
Advanced(A, B) ==
  \E h \in A, p \in Phases :
    /\ <<h.phase, p>> \in Advances
    /\ A = {h}
    /\ B = {[h EXCEPT !.phase = p]}

\* RESCHEDULE: the holder ended without a kill, and its successor takes over.
HandedOver(A, B, used) ==
  \E h \in A, r \in B :
    /\ h.phase \in {"placed", "stopping"}
    /\ Fresh(r, used)
    /\ r.config = h.config
    /\ A = {h} /\ B = {r}

\* The holder was killed, or completed; a service does not complete.
GivenUp(A, B) ==
  \E h \in A :
    /\ \/ h.phase \in {"waiting", "killing"}
       \/ h.phase = "placed" /\ ~ IsService[h.config]
    /\ A = {h} /\ B = {}

Turn(A, B, used) ==
  \/ A = B
  \/ Taken(A, B, used)
  \/ Advanced(A, B)
  \/ HandedOver(A, B, used)
  \/ GivenUp(A, B)

-----------------------------------------------------------------------------

IdsOf(holders) == {h.id : h \in UNION {holders[i] : i \in Instances}}

LifeInit ==
  /\ active = [i \in Instances |-> {}]
  /\ spent = {}

\* A transaction may turn several instances, with identifiers of their own.
LifeNext ==
  /\ active' \in [Instances -> SUBSET Holder]
  /\ \A i \in Instances : Turn(active[i], active'[i], spent)
  /\ \A i, j \in Instances :
       i # j => \A h \in active'[i], g \in active'[j] : h.id # g.id
  /\ spent' = spent \cup IdsOf(active')

LifeSpec == LifeInit /\ [][LifeNext]_lifeVars
=============================================================================
