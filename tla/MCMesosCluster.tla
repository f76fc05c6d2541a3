--------------------------- MODULE MCMesosCluster ---------------------------
(***************************************************************************)
(* Instances of MesosCluster for TLC: one service instance, a few offers.  *)
(***************************************************************************)
EXTENDS MesosCluster

CONSTANT service

MCIsService == [c \in Configs |-> c = service]
MCMaxTaskFailures == [c \in Configs |-> 1]

(***************************************************************************)
(* Identifiers are interchangeable, so a behaviour may be renamed to one   *)
(* that takes them in ascending order.  Unlike a SYMMETRY set this is also *)
(* sound for liveness.                                                     *)
(***************************************************************************)
InOrder ==
  \A t, u \in TaskIds :
    u < t /\ task[t].instance # None => task[u].instance # None
=============================================================================
