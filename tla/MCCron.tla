------------------------------- MODULE MCCron -------------------------------
(***************************************************************************)
(* An instance of Cron for TLC: a job that is given fewer instances, or    *)
(* the other collision policy.                                             *)
(***************************************************************************)
EXTENDS Cron

MCTemplates ==
  {[instances |-> {0, 1}, policy |-> "KILL_EXISTING"],
   [instances |-> {0}, policy |-> "KILL_EXISTING"],
   [instances |-> {0, 1}, policy |-> "CANCEL_NEW"]}
=============================================================================
