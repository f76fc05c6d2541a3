--------------------------- MODULE MCStateManager ---------------------------
(***************************************************************************)
(* Instances of StateManager for TLC: a service configuration and a batch  *)
(* configuration with two allowed failures.                                *)
(***************************************************************************)
EXTENDS StateManager, FiniteSets, TLC

CONSTANTS
  service, batch,
  MaxStale           \* bound on delayed work that outlived its task's status

MCIsService == [c \in Configs |-> c = service]
MCMaxTaskFailures == [c \in Configs |-> IF c = batch THEN 2 ELSE 1]

\* The work left behind by statuses a task is no longer in.
StaleWork == {w \in work : task[w[2]].status # w[3]}

StaleBound == Cardinality(StaleWork) <= MaxStale

\* One job at a time: tasks of different configurations never meet in an instance.
OneJob == \A t, u \in TaskIds : task[t].config # task[u].config => None \in {task[t].config, task[u].config}

MCSymmetry == Permutations(TaskIds)
=============================================================================
