---------------------------- MODULE DurableStore ----------------------------
(***************************************************************************)
(* What the replicated log storage promises its callers: one transaction   *)
(* at a time works on a copy of the stored state, and either all of it     *)
(* becomes the stored state or none of it does.  Crashes, snapshots,       *)
(* truncation and recovery are not visible.                                *)
(***************************************************************************)
EXTENDS StorageOps

VARIABLES
  stored,            \* the durable state
  working            \* the state inside the open transaction, None without one

durableVars == <<stored, working>>

DurableInit ==
  /\ stored = EmptyStore
  /\ working = None

BeginTransaction ==
  /\ working = None
  /\ working' = stored
  /\ UNCHANGED stored

Mutate(op) ==
  /\ working # None
  /\ working' = ReplayOp(working, op)
  /\ UNCHANGED stored

CommitTransaction ==
  /\ working # None
  /\ stored' = working
  /\ working' = None

AbortTransaction ==
  /\ working # None
  /\ working' = None
  /\ UNCHANGED stored

DurableNext ==
  \/ BeginTransaction
  \/ \E op \in Op : Mutate(op)
  \/ CommitTransaction
  \/ AbortTransaction

DurableSpec == DurableInit /\ [][DurableNext]_durableVars
=============================================================================
