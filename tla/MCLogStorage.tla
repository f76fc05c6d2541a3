---------------------------- MODULE MCLogStorage ----------------------------
(***************************************************************************)
(* Instances of LogStorage for TLC.                                        *)
(***************************************************************************)
EXTENDS LogStorage, TLC

CONSTANTS h1, MaxLog

\* Every slave runs on the one host.
MCSlaveHost == [s \in Slaves |-> h1]

\* The length of the log, which restarts and failed starts let grow.
LogBound == Len(log) <= MaxLog

MCSymmetry ==
  Permutations(TaskIds) \cup Permutations(Tasks) \cup Permutations(Attributes)
    \cup Permutations(Slaves) \cup Permutations(Entries)
=============================================================================
