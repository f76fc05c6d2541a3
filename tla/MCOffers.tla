------------------------------ MODULE MCOffers ------------------------------
(***************************************************************************)
(* Instances of Offers for TLC.  The agent of host h1 came back as another *)
(* slave, s2; the task t1 fits s2 and the slave of host h2.  Its job has   *)
(* another task on h1, where it may run alone, or had one.                 *)
(***************************************************************************)
EXTENDS Offers, TLC

CONSTANTS s1, s2, s3, h1, h2, t1, t2

MCOfferSlave == [o \in OfferIds |-> CASE o = 2 -> s2 [] o = 4 -> s3 [] OTHER -> s1]
MCSlaveHost == [s \in Slaves |-> IF s = s3 THEN h2 ELSE h1]
MCFits == {t1} \X {s2, s3}
MCSuffices == TaskIds \X OfferIds
MCLimit == [t \in TaskIds |-> 1]
MCInitialTasks ==
  {(t1 :> [st |-> "PENDING", host |-> None]) @@ (t2 :> [st |-> s, host |-> h1]) :
     s \in {"ACTIVE", "ENDED"}}

\* Two scenarios.  As long as t2 runs, or host h2 has made its offer, there are neither
\* faults nor requests.  The offers of s1 (which are interchangeable) are made when the
\* end of t2 has been handled; the second one meets faults or requests, not both.
Scenarios ==
  /\ master[4] # "new" \/ task[t2].st # "ENDED" =>
       faults = 0 /\ requests = 0 /\ master[1] = "new"
  /\ faults = 0 /\ (master[1] # "new" \/ requests > 0) => t2 \notin ended
  /\ master[3] # "new" => master[1] # "new" /\ faults + requests <= 1
=============================================================================
