---------------------------- MODULE MCJobUpdater ----------------------------
(***************************************************************************)
(* Instances of JobUpdater for TLC.                                        *)
(***************************************************************************)
EXTENDS JobUpdater, TLC

CONSTANT MaxPending  \* bound on the task changes the controller has yet to hear of

EventBound == Cardinality(events) <= MaxPending

\* For runs without liveness properties only.
MCSymmetry == Permutations(Configs)
=============================================================================
