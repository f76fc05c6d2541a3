------------------------- MODULE JobUpdater_proofs -------------------------
(***************************************************************************)
(* The updates in storage, the updater and the pulse states in memory and  *)
(* the job's lock stay consistent, for every number of instances and       *)
(* updates and every update setting.                                       *)
(*                                                                         *)
(* A transaction works for one update u on a record j.  Others(j, u) says  *)
(* that no other update is at work; Open(j, u), that j is a state in which *)
(* such a transaction may begin or change the status of u, and Settled(j,  *)
(* u) that it may be committed.                                            *)
(*                                                                         *)
(* The second half is about the work of the updater: the size of its       *)
(* groups, that no instance at work is forgotten, and that a completed     *)
(* update has done what was asked for.  Sound(j, u) says so of a record;   *)
(* Outcome(j, o, u), of what a transaction makes of it.                    *)
(***************************************************************************)
EXTENDS JobUpdater, TLAPS, FiniteSetTheorems

JobRecord ==
  [task : [Instances -> Task \cup {None}],
   events : SUBSET (Instances \X (Event \cup {None})),
   update : [UpdateKeys -> Update],
   lock : UpdateKeys \cup {Client, None},
   updater : Updater \cup {None},
   pulse : [UpdateKeys -> PulseState \cup {None}],
   deferred : SUBSET (Instances \X UpdateKeys)]

Others(j, u) ==
  /\ \A v \in UpdateKeys \ {u} :
       /\ j.update[v].status \notin ACTIVE_JOB_UPDATE_STATES
       /\ j.pulse[v] = None
       /\ j.lock # v
  /\ j.updater # None => j.updater.key = u

Open(j, u) ==
  /\ j \in JobRecord
  /\ Others(j, u)
  /\ j.pulse[u] # None <=> j.update[u].coordinated

Settled(j, u) ==
  /\ j \in JobRecord
  /\ Others(j, u)
  /\ j.updater # None <=> j.update[u].status \in AUTO_RESUME_STATES
  /\ j.lock = u => j.update[u].status \in ACTIVE_JOB_UPDATE_STATES
  /\ j.pulse[u] # None <=>
       j.update[u].status \in ACTIVE_JOB_UPDATE_STATES /\ j.update[u].coordinated
  /\ j.pulse[u] # None => j.pulse[u].status = j.update[u].status

-----------------------------------------------------------------------------
(* Changes of status.                                                      *)

(* What changeJobUpdateStatus leaves behind, field by field. *)
LEMMA StoppedFields ==
  ASSUME NEW j \in JobRecord, NEW u \in UpdateKeys, NEW s
  PROVE  Stopped(j, u, s) =
           [task |-> j.task, events |-> j.events,
            update |-> [j.update EXCEPT ![u] = [j.update[u] EXCEPT !.status = s]],
            lock |-> IF s \in TERMINAL_STATES /\ j.lock = u THEN None ELSE j.lock,
            updater |-> None,
            pulse |-> [j.pulse EXCEPT ![u] =
                         IF s \in TERMINAL_STATES THEN None
                         ELSE PulseWithStatus(j.pulse[u], s)],
            deferred |-> j.deferred]
  <1> DEFINE up == [j.update EXCEPT ![u] = [j.update[u] EXCEPT !.status = s]]
             lk == IF s \in TERMINAL_STATES /\ j.lock = u THEN None ELSE j.lock
             pu == [j.pulse EXCEPT ![u] =
                      IF s \in TERMINAL_STATES THEN None
                      ELSE PulseWithStatus(j.pulse[u], s)]
  <1>1. Stopped(j, u, s) = [[[[j EXCEPT !.update = up] EXCEPT !.updater = None]
                               EXCEPT !.lock = lk] EXCEPT !.pulse = pu]
    BY DEF Stopped, JobRecord
  <1> HIDE DEF up, lk, pu
  <1>2. QED
    BY <1>1 DEF JobRecord, up, lk, pu

(* A state in which nothing is watched may be committed.                   *)
LEMMA StoppedSettled ==
  ASSUME NEW j, NEW u \in UpdateKeys, Open(j, u),
         NEW s \in TERMINAL_STATES \cup PausedStates \cup BlockedStates
  PROVE  Settled(Stopped(j, u, s), u)
  <1> DEFINE r == Stopped(j, u, s)
  <1>1. j \in JobRecord
    BY DEF Open
  <1>2. /\ r = [task |-> j.task, events |-> j.events, update |-> r.update,
                lock |-> r.lock, updater |-> None, pulse |-> r.pulse,
                deferred |-> j.deferred]
        /\ r.update = [j.update EXCEPT ![u] = [j.update[u] EXCEPT !.status = s]]
        /\ r.lock = IF s \in TERMINAL_STATES /\ j.lock = u THEN None ELSE j.lock
        /\ r.pulse = [j.pulse EXCEPT ![u] =
             IF s \in TERMINAL_STATES THEN None ELSE PulseWithStatus(j.pulse[u], s)]
    BY <1>1, StoppedFields
  <1> HIDE DEF r
  <1>3. /\ s \in UpdateStatus
        /\ (s \notin TERMINAL_STATES => s \in ACTIVE_JOB_UPDATE_STATES)
        /\ (s \in TERMINAL_STATES => s \notin ACTIVE_JOB_UPDATE_STATES)
        /\ s \notin AUTO_RESUME_STATES
    BY DEF UpdateStatus, TERMINAL_STATES, PausedStates, BlockedStates, AUTO_RESUME_STATES,
           ACTIVE_JOB_UPDATE_STATES, Forward, Backward
  <1>4. /\ r.update \in [UpdateKeys -> Update]
        /\ r.update[u].status = s
        /\ r.update[u].coordinated = j.update[u].coordinated
        /\ \A v \in UpdateKeys \ {u} : r.update[v] = j.update[v]
    <2> DEFINE x == [j.update[u] EXCEPT !.status = s]
    <2>1. j.update \in [UpdateKeys -> Update]
      BY <1>1 DEF JobRecord
    <2>2. x \in Update /\ x.status = s /\ x.coordinated = j.update[u].coordinated
      BY <2>1, <1>3 DEF Update
    <2>3. r.update = [j.update EXCEPT ![u] = x]
      BY <1>2
    <2> HIDE DEF x
    <2> QED BY <2>1, <2>2, <2>3
  <1>5. /\ r.pulse \in [UpdateKeys -> PulseState \cup {None}]
        /\ \A v \in UpdateKeys \ {u} : r.pulse[v] = j.pulse[v]
        /\ r.pulse[u] # None <=> s \notin TERMINAL_STATES /\ j.pulse[u] # None
        /\ r.pulse[u] # None => r.pulse[u].status = s
    <2> DEFINE x == [j.pulse[u] EXCEPT !.status = s]
    <2>1. j.pulse \in [UpdateKeys -> PulseState \cup {None}]
      BY <1>1 DEF JobRecord
    <2>2. j.pulse[u] # None /\ s \notin TERMINAL_STATES =>
            x \in PulseState /\ x.status = s /\ x # None
      BY <2>1, <1>3, NoneAssumption DEF PulseState
    <2>3. r.pulse = [j.pulse EXCEPT ![u] =
             IF s \in TERMINAL_STATES \/ j.pulse[u] = None THEN None ELSE x]
      BY <1>2 DEF PulseWithStatus
    <2> HIDE DEF x
    <2>4. r.pulse[u] = IF s \in TERMINAL_STATES \/ j.pulse[u] = None THEN None ELSE x
      BY <2>1, <2>3
    <2>5. \A v \in UpdateKeys \ {u} : r.pulse[v] = j.pulse[v]
      BY <2>1, <2>3
    <2>6. r.pulse \in [UpdateKeys -> PulseState \cup {None}]
      BY <2>1, <2>2, <2>3
    <2> QED BY <2>2, <2>4, <2>5, <2>6
  <1>6. r \in JobRecord
    BY <1>1, <1>2, <1>4, <1>5 DEF JobRecord
  <1>7. Others(r, u)
    BY <1>1, <1>2, <1>4, <1>5, UpdateAssumption DEF Open, Others, JobRecord
  <1>8. Settled(r, u)
    <2>1. r.updater = None
      BY <1>2
    <2>2. r.lock = u => s \notin TERMINAL_STATES
      BY <1>2, UpdateAssumption
    <2>3. j.pulse[u] # None <=> j.update[u].coordinated
      BY DEF Open
    <2>4. r.update[u].status = s /\ (r.update[u].coordinated <=> j.update[u].coordinated)
      BY <1>4
    <2>5. r.pulse[u] # None <=>
            r.update[u].status \in ACTIVE_JOB_UPDATE_STATES /\ r.update[u].coordinated
      BY <1>3, <1>5, <2>3, <2>4
    <2>6. /\ r.updater # None <=> r.update[u].status \in AUTO_RESUME_STATES
          /\ r.lock = u => r.update[u].status \in ACTIVE_JOB_UPDATE_STATES
          /\ r.pulse[u] # None => r.pulse[u].status = r.update[u].status
      BY <1>3, <1>5, <2>1, <2>2, <2>4
    <2> QED BY <1>6, <1>7, <2>5, <2>6 DEF Settled
  <1> QED BY <1>8 DEF r

(* The first part of changeJobUpdateStatus to a state in which an updater  *)
(* works: the status and the updater change together.                      *)
Started(j, u, s) ==
  [j EXCEPT
     !.update[u].status = s,
     !.updater = NewUpdater(u, j.update[u], s = "ROLLING_FORWARD"),
     !.pulse[u] = PulseWithStatus(@, s)]

LEMMA StartedFields ==
  ASSUME NEW j \in JobRecord, NEW u \in UpdateKeys, NEW s
  PROVE  Started(j, u, s) =
           [task |-> j.task, events |-> j.events,
            update |-> [j.update EXCEPT ![u] = [j.update[u] EXCEPT !.status = s]],
            lock |-> j.lock,
            updater |-> NewUpdater(u, j.update[u], s = "ROLLING_FORWARD"),
            pulse |-> [j.pulse EXCEPT ![u] = PulseWithStatus(j.pulse[u], s)],
            deferred |-> j.deferred]
  <1> DEFINE up == [j.update EXCEPT ![u] = [j.update[u] EXCEPT !.status = s]]
             nw == NewUpdater(u, j.update[u], s = "ROLLING_FORWARD")
             pu == [j.pulse EXCEPT ![u] = PulseWithStatus(j.pulse[u], s)]
  <1>1. Started(j, u, s) = [[[j EXCEPT !.update = up] EXCEPT !.updater = nw] EXCEPT !.pulse = pu]
    BY DEF Started, JobRecord
  <1> HIDE DEF up, nw, pu
  <1>2. QED
    BY <1>1 DEF JobRecord, up, nw, pu

LEMMA NewUpdaterType ==
  ASSUME NEW u \in UpdateKeys, NEW up \in Update, NEW forward \in BOOLEAN
  PROVE  NewUpdater(u, up, forward) \in Updater
         /\ NewUpdater(u, up, forward).key = u
  BY DEF NewUpdater, Update, Updater, InstanceState

LEMMA StartedSettled ==
  ASSUME NEW j, NEW u \in UpdateKeys, Open(j, u), NEW s \in AUTO_RESUME_STATES
  PROVE  Settled(Started(j, u, s), u)
  <1> DEFINE r == Started(j, u, s)
  <1>1. j \in JobRecord
    BY DEF Open
  <1>2. /\ r = [task |-> j.task, events |-> j.events, update |-> r.update,
                lock |-> j.lock, updater |-> r.updater, pulse |-> r.pulse,
                deferred |-> j.deferred]
        /\ r.update = [j.update EXCEPT ![u] = [j.update[u] EXCEPT !.status = s]]
        /\ r.updater = NewUpdater(u, j.update[u], s = "ROLLING_FORWARD")
        /\ r.pulse = [j.pulse EXCEPT ![u] = PulseWithStatus(j.pulse[u], s)]
    BY <1>1, StartedFields
  <1> HIDE DEF r
  <1>3. /\ s \in UpdateStatus
        /\ s \in ACTIVE_JOB_UPDATE_STATES
    BY DEF UpdateStatus, AUTO_RESUME_STATES, ACTIVE_JOB_UPDATE_STATES, Forward, Backward
  <1>4. /\ r.update \in [UpdateKeys -> Update]
        /\ r.update[u].status = s
        /\ r.update[u].coordinated = j.update[u].coordinated
        /\ \A v \in UpdateKeys \ {u} : r.update[v] = j.update[v]
    <2> DEFINE x == [j.update[u] EXCEPT !.status = s]
    <2>1. j.update \in [UpdateKeys -> Update]
      BY <1>1 DEF JobRecord
    <2>2. x \in Update /\ x.status = s /\ x.coordinated = j.update[u].coordinated
      BY <2>1, <1>3 DEF Update
    <2>3. r.update = [j.update EXCEPT ![u] = x]
      BY <1>2
    <2> HIDE DEF x
    <2> QED BY <2>1, <2>2, <2>3
  <1>5. /\ r.pulse \in [UpdateKeys -> PulseState \cup {None}]
        /\ \A v \in UpdateKeys \ {u} : r.pulse[v] = j.pulse[v]
        /\ r.pulse[u] # None <=> j.pulse[u] # None
        /\ r.pulse[u] # None => r.pulse[u].status = s
    <2> DEFINE x == PulseWithStatus(j.pulse[u], s)
    <2>1. j.pulse \in [UpdateKeys -> PulseState \cup {None}]
      BY <1>1 DEF JobRecord
    <2>2. /\ x \in PulseState \cup {None}
          /\ x # None <=> j.pulse[u] # None
          /\ x # None => x.status = s
      BY <2>1, <1>3, NoneAssumption DEF PulseState, PulseWithStatus
    <2>3. r.pulse = [j.pulse EXCEPT ![u] = x]
      BY <1>2
    <2> HIDE DEF x
    <2> QED BY <2>1, <2>2, <2>3
  <1>6. /\ r.updater \in Updater
        /\ r.updater.key = u
    <2>1. j.update[u] \in Update
      BY <1>1 DEF JobRecord
    <2>2. \/ r.updater = NewUpdater(u, j.update[u], TRUE)
          \/ r.updater = NewUpdater(u, j.update[u], FALSE)
      BY <1>2
    <2> QED BY <2>1, <2>2, NewUpdaterType
  <1>7. r \in JobRecord
    BY <1>1, <1>2, <1>4, <1>5, <1>6 DEF JobRecord
  <1>8. Others(r, u)
    BY <1>1, <1>2, <1>4, <1>5, <1>6 DEF Open, Others
  <1>9. r.updater # None
    BY <1>6, NoneAssumption
  <1>10. Settled(r, u)
    <2>1. j.pulse[u] # None <=> j.update[u].coordinated
      BY DEF Open
    <2>2. r.update[u].coordinated <=> j.update[u].coordinated
      BY <1>4
    <2>3. r.pulse[u] # None <=>
            r.update[u].status \in ACTIVE_JOB_UPDATE_STATES /\ r.update[u].coordinated
      BY <1>3, <1>4, <1>5, <2>1, <2>2
    <2>4. /\ r.updater # None <=> r.update[u].status \in AUTO_RESUME_STATES
          /\ r.lock = u => r.update[u].status \in ACTIVE_JOB_UPDATE_STATES
          /\ r.pulse[u] # None => r.pulse[u].status = r.update[u].status
      BY <1>3, <1>4, <1>5, <1>9
    <2> QED BY <1>7, <1>8, <2>3, <2>4 DEF Settled
  <1> QED BY <1>10 DEF r

(* A transaction that is under way may change the status again.            *)
LEMMA SettledOpen ==
  ASSUME NEW j, NEW u \in UpdateKeys, Settled(j, u),
         j.update[u].status \in ACTIVE_JOB_UPDATE_STATES
  PROVE  Open(j, u)
  BY DEF Settled, Open

(* Waiting for a pulse, which may have arrived meanwhile.                  *)
LEMMA BlockedSettled ==
  ASSUME NEW j, NEW u \in UpdateKeys, Open(j, u), NEW o \in Blocked(j, u)
  PROVE  Settled(o, u)
  <1> DEFINE b == Stopped(j, u, BlockedState(j.update[u].status))
  <1>1. Settled(b, u)
    BY StoppedSettled DEF BlockedState, BlockedStates
  <1>2. \/ o = b
        \/ b.pulse[u] # None /\ \E e \in BOOLEAN : o = [b EXCEPT !.pulse[u].expired = e]
    BY DEF Blocked
  <1> HIDE DEF b
  <1>3. ASSUME NEW e \in BOOLEAN, b.pulse[u] # None, o = [b EXCEPT !.pulse[u].expired = e]
        PROVE  Settled(o, u)
    <2> DEFINE x == [b.pulse[u] EXCEPT !.expired = e]
    <2>1. b \in JobRecord
      BY <1>1 DEF Settled
    <2>2. x \in PulseState /\ x.status = b.pulse[u].status /\ x # None
      BY <2>1, <1>3, NoneAssumption DEF JobRecord, PulseState
    <2>3. o = [b EXCEPT !.pulse = [b.pulse EXCEPT ![u] = x]]
      BY <1>3, <2>1 DEF JobRecord
    <2> HIDE DEF x
    <2>4. o \in JobRecord
      BY <2>1, <2>2, <2>3 DEF JobRecord
    <2>5. /\ o.update = b.update /\ o.lock = b.lock /\ o.updater = b.updater
          /\ o.pulse = [b.pulse EXCEPT ![u] = x]
          /\ b.pulse \in [UpdateKeys -> PulseState \cup {None}]
      BY <2>1, <2>3 DEF JobRecord
    <2>6. /\ o.pulse[u] = x
          /\ \A v \in UpdateKeys \ {u} : o.pulse[v] = b.pulse[v]
      BY <2>5
    <2>7. Others(o, u)
      BY <1>1, <2>5, <2>6 DEF Settled, Others
    <2> QED BY <1>1, <1>3, <2>2, <2>4, <2>5, <2>6, <2>7 DEF Settled
  <1> QED BY <1>1, <1>2, <1>3

-----------------------------------------------------------------------------
(* Evaluations.                                                            *)

(* An instance is replaced only if it should exist, and killed only if it  *)
(* was seen to exist.                                                      *)
LEMMA ResultFacts ==
  ASSUME NEW w \in Updater, NEW i \in Instances, NEW t \in Task \cup Event \cup {None}
  PROVE  /\ Result(w, i, t) = "REPLACE" => w.target[i] # None
         /\ Result(w, i, t) = "KILL" => t # None
  <1>1. CASE t = None
    BY <1>1 DEF Result, Present, Failure
  <1>2. CASE t # None
    <2>1. /\ t.cfg \in Configs /\ t.cfg # None
          /\ t.st \in {"PENDING", "RUNNING", "STOPPING", "KILLING", "ENDED", "KILLED"}
      BY <1>2, UpdateAssumption DEF Task, Event, ActiveStatus
    <2>2. Result(w, i, t) = "REPLACE" => w.target[i] # None
      BY <1>2, <2>1 DEF Result, Present, Failure, Killable
    <2> QED BY <1>2, <2>2
  <1> QED BY <1>1, <1>2

LEMMA StateAfterType ==
  ASSUME NEW r
  PROVE  StateAfter(r) \in InstanceState
  BY DEF StateAfter, InstanceState

LEMMA StartInstancesType ==
  ASSUME NEW w \in Updater, NEW group, NEW tasks
  PROVE  /\ StartInstances(w, group, tasks) \in Updater
         /\ StartInstances(w, group, tasks).key = w.key
         /\ StartInstances(w, group, tasks).target = w.target
  <1> DEFINE st == [i \in Instances |->
                      IF i \in group THEN StateAfter(Result(w, i, tasks[i])) ELSE w.state[i]]
  <1>1. st \in [Instances -> InstanceState]
    BY StateAfterType DEF Updater
  <1>2. StartInstances(w, group, tasks) = [w EXCEPT !.state = st]
    BY DEF StartInstances
  <1> HIDE DEF st
  <1> QED BY <1>1, <1>2 DEF Updater

LEMMA EvaluateInstanceType ==
  ASSUME NEW w \in Updater, NEW i \in Instances, NEW t
  PROVE  /\ EvaluateInstance(w, i, t) \in Updater
         /\ EvaluateInstance(w, i, t).key = w.key
         /\ EvaluateInstance(w, i, t).target = w.target
  <1> DEFINE st == [w.state EXCEPT ![i] = StateAfter(Result(w, i, t))]
             fl == [w.failures EXCEPT ![i] = IF Failure(w, i, t) THEN w.failures[i] + 1
                                             ELSE w.failures[i]]
  <1>1. st \in [Instances -> InstanceState] /\ fl \in [Instances -> Nat]
    BY StateAfterType DEF Updater
  <1>2. \/ EvaluateInstance(w, i, t) = w
        \/ EvaluateInstance(w, i, t) = [[w EXCEPT !.state = st] EXCEPT !.failures = fl]
    BY DEF EvaluateInstance, Updater
  <1> HIDE DEF st, fl
  <1> QED BY <1>1, <1>2 DEF Updater

(* Replacing the updater by another one of the same update.                *)
LEMMA UpdaterReplaced ==
  ASSUME NEW j, NEW u \in UpdateKeys, Settled(j, u), j.updater # None,
         NEW w \in Updater, w.key = u
  PROVE  /\ Settled([j EXCEPT !.updater = w], u)
         /\ Open([j EXCEPT !.updater = w], u)
         /\ [j EXCEPT !.updater = w].updater = w
         /\ [j EXCEPT !.updater = w].task = j.task
  <1> DEFINE r == [j EXCEPT !.updater = w]
  <1>1. j \in JobRecord
    BY DEF Settled
  <1>2. /\ r \in JobRecord
        /\ r.update = j.update /\ r.pulse = j.pulse /\ r.lock = j.lock
        /\ r.task = j.task /\ r.updater = w
    BY <1>1 DEF JobRecord
  <1> HIDE DEF r
  <1>3. w # None
    BY NoneAssumption
  <1>4. Others(r, u)
    BY <1>2 DEF Settled, Others
  <1>5. Settled(r, u)
    BY <1>2, <1>3, <1>4 DEF Settled
  <1>6. r.update[u].status \in ACTIVE_JOB_UPDATE_STATES
    BY <1>2 DEF Settled, AUTO_RESUME_STATES, ACTIVE_JOB_UPDATE_STATES, Forward, Backward
  <1> QED BY <1>2, <1>5, <1>6, SettledOpen DEF r

(* Changing tasks and scheduling re-evaluations disturbs nothing else.     *)
LEMMA TasksReplaced ==
  ASSUME NEW j, NEW u \in UpdateKeys, Settled(j, u), NEW o,
         NEW tk \in [Instances -> Task \cup {None}],
         NEW ev \in SUBSET (Instances \X (Event \cup {None})),
         NEW df \in SUBSET (Instances \X UpdateKeys),
         o = [task |-> tk, events |-> ev, update |-> j.update, lock |-> j.lock,
              updater |-> j.updater, pulse |-> j.pulse, deferred |-> df]
  PROVE  Settled(o, u)
  <1>1. j \in JobRecord
    BY DEF Settled
  <1>2. /\ o \in JobRecord
        /\ o.update = j.update /\ o.pulse = j.pulse /\ o.lock = j.lock
        /\ o.updater = j.updater
    BY <1>1 DEF JobRecord
  <1>3. Others(o, u)
    BY <1>2 DEF Settled, Others
  <1> QED BY <1>2, <1>3 DEF Settled

LEMMA ActSettled ==
  ASSUME NEW j, NEW u \in UpdateKeys, Settled(j, u), j.updater # None,
         NEW effect, DOMAIN effect \subseteq Instances,
         \A i \in DOMAIN effect : effect[i] = "REPLACE" => j.updater.target[i] # None,
         \A i \in DOMAIN effect : effect[i] = "KILL" => j.task[i] # None,
         NEW o \in Act(j, effect)
  PROVE  Settled(o, u)
  <1>1. PICK gone : o = Acted(j, effect, TasksAfter(j, effect, gone))
    BY DEF Act
  <1> DEFINE tk == TasksAfter(j, effect, gone)
             ev == j.events \cup {<<i, tk[i]>> : i \in With(effect, {"REPLACE", "KILL"})}
             df == j.deferred \cup
                     {<<i, j.updater.key>> : i \in With(effect, {"REPLACE", "KILL", "WATCH"})}
  <1>2. /\ j \in JobRecord
        /\ j.updater \in Updater
        /\ j.updater.key = u
    BY DEF Settled, Others, JobRecord
  <1>3. ASSUME NEW i \in With(effect, {"REPLACE"})
        PROVE  Snapshot(j.updater.target[i], "PENDING") \in Task \cap Event
    <2>1. i \in Instances /\ j.updater.target[i] \in Configs
      BY <1>2 DEF Updater, With
    <2> QED BY <2>1 DEF Snapshot, Task, Event, ActiveStatus
  <1>4. ASSUME NEW i \in With(effect, {"KILL"})
        PROVE  Killed(j.task[i], i \in gone) \in (Task \cap Event) \cup {None}
    <2>1. i \in Instances /\ j.task[i] \in Task
      BY <1>2 DEF JobRecord, With
    <2>2. j.task[i].cfg \in Configs
      BY <2>1 DEF Task
    <2> QED BY <2>2 DEF Killed, Snapshot, Task, Event, ActiveStatus
  <1>5. tk \in [Instances -> Task \cup {None}]
    BY <1>2, <1>3, <1>4 DEF JobRecord, TasksAfter
  <1>6. \A i \in With(effect, {"REPLACE", "KILL"}) : tk[i] \in Event \cup {None}
    BY <1>3, <1>4 DEF TasksAfter, With
  <1> HIDE DEF tk
  <1>7. ev \in SUBSET (Instances \X (Event \cup {None}))
    BY <1>2, <1>6 DEF JobRecord, With
  <1>8. df \in SUBSET (Instances \X UpdateKeys)
    BY <1>2 DEF JobRecord, With
  <1>9. o = [task |-> tk, events |-> ev, update |-> j.update, lock |-> j.lock,
             updater |-> j.updater, pulse |-> j.pulse, deferred |-> df]
    BY <1>1, <1>2 DEF Acted, tk, JobRecord
  <1> HIDE DEF ev, df
  <1> QED BY <1>5, <1>7, <1>8, <1>9, TasksReplaced

LEMMA GroupInstances ==
  ASSUME NEW w, NEW tasks
  PROVE  NextGroup(w, tasks) \subseteq Instances
  BY DEF NextGroup, ByState

(* OneWayJobUpdater.evaluate with what is made of its result.              *)
LEMMA ProceedSettled ==
  ASSUME NEW j, NEW u \in UpdateKeys, Settled(j, u), j.updater # None,
         NEW w \in Updater, w.key = u,
         NEW effect, DOMAIN effect \subseteq Instances,
         \A i \in DOMAIN effect : effect[i] = "REPLACE" => w.target[i] # None,
         NEW o \in Proceed(j, u, w, effect)
  PROVE  Settled(o, u)
  <1> DEFINE group == IF OneWayStatus(w) = "WORKING" THEN NextGroup(w, j.task) ELSE {}
             x == StartInstances(w, group, j.task)
             next == [j EXCEPT !.updater = x]
             effects == [i \in DOMAIN effect \cup group |->
                           IF i \in group THEN Result(w, i, j.task[i]) ELSE effect[i]]
  <1>1. \/ o \in {Stopped(next, u, IF w.forward THEN "ROLLED_FORWARD" ELSE "ROLLED_BACK")}
        \/ o \in {next}
        \/ ~ Throws(j, effect) /\ o \in Act(next, effects)
    BY DEF Proceed
  <1>2. group \subseteq Instances
    BY GroupInstances
  <1> HIDE DEF group
  <1>3. /\ x \in Updater
        /\ x.key = u
        /\ x.target = w.target
    BY StartInstancesType
  <1> HIDE DEF x
  <1>4. /\ Settled(next, u)
        /\ Open(next, u)
        /\ next.updater = x
        /\ next.task = j.task
    BY <1>3, UpdaterReplaced
  <1>5. next.updater # None
    BY <1>3, <1>4, NoneAssumption
  <1> HIDE DEF next
  <1>6. CASE o = Stopped(next, u, IF w.forward THEN "ROLLED_FORWARD" ELSE "ROLLED_BACK")
    BY <1>4, <1>6, StoppedSettled DEF TERMINAL_STATES
  <1>7. CASE ~ Throws(j, effect) /\ o \in Act(next, effects)
    <2>1. DOMAIN effects \subseteq Instances
      BY <1>2
    <2>2. j.task \in [Instances -> Task \cup {None}]
      BY DEF Settled, JobRecord
    <2>3. \A i \in group : /\ Result(w, i, j.task[i]) = "REPLACE" => w.target[i] # None
                           /\ Result(w, i, j.task[i]) = "KILL" => j.task[i] # None
      BY <1>2, <2>2, ResultFacts
    <2>4. \A i \in DOMAIN effect : effect[i] = "KILL" => j.task[i] # None
      BY <1>7 DEF Throws
    <2>5. \A i \in DOMAIN effects : effects[i] = "REPLACE" => next.updater.target[i] # None
      BY <1>3, <1>4, <2>3
    <2>6. \A i \in DOMAIN effects : effects[i] = "KILL" => next.task[i] # None
      BY <1>4, <2>3, <2>4
    <2> HIDE DEF effects
    <2> QED BY <1>4, <1>5, <1>7, <2>1, <2>5, <2>6, ActSettled
  <1> QED BY <1>1, <1>4, <1>6, <1>7

(* Settled with an updater means that the update is rolling.               *)
LEMMA SettledRolling ==
  ASSUME NEW j, NEW u \in UpdateKeys, Settled(j, u), j.updater # None
  PROVE  /\ Open(j, u)
         /\ j.updater \in Updater
         /\ j.updater.key = u
  BY SettledOpen DEF Settled, Others, JobRecord, AUTO_RESUME_STATES,
                     ACTIVE_JOB_UPDATE_STATES, Forward, Backward

LEMMA RollingSettled ==
  ASSUME NEW j, NEW u \in UpdateKeys, Open(j, u), NEW s \in AUTO_RESUME_STATES,
         NEW o \in Rolling(j, u, s)
  PROVE  Settled(o, u)
  <1> DEFINE r == Started(j, u, s)
  <1>1. Settled(r, u)
    BY StartedSettled
  <1>2. r.update[u].status \in AUTO_RESUME_STATES
    <2>1. j.update \in [UpdateKeys -> Update]
      BY DEF Open, JobRecord
    <2>2. r.update = [j.update EXCEPT ![u] = [j.update[u] EXCEPT !.status = s]]
      BY StartedFields DEF Open
    <2> HIDE DEF r
    <2> QED BY <2>1, <2>2 DEF Update
  <1>3. o \in FirstEvaluation(r, u)
    BY DEF Rolling, Started
  <1> HIDE DEF r
  <1>4. r.updater # None
    BY <1>1, <1>2 DEF Settled
  <1>5. /\ Open(r, u)
        /\ r.updater \in Updater
        /\ r.updater.key = u
    BY <1>1, <1>4, SettledRolling
  <1>6. \/ o = Stopped(r, u, "ERROR")
        \/ o \in Blocked(r, u)
        \/ o \in Proceed(r, u, r.updater, << >>)
    BY <1>3 DEF FirstEvaluation
  <1>7. CASE o = Stopped(r, u, "ERROR")
    BY <1>5, <1>7, StoppedSettled DEF TERMINAL_STATES
  <1>8. CASE o \in Blocked(r, u)
    BY <1>5, <1>8, BlockedSettled
  <1>9. CASE o \in Proceed(r, u, r.updater, << >>)
    <2>1. DOMAIN << >> = {}
      OBVIOUS
    <2>2. DOMAIN << >> \subseteq Instances
      BY <2>1
    <2>3. \A i \in DOMAIN << >> : << >>[i] = "REPLACE" => r.updater.target[i] # None
      BY <2>1
    <2> QED BY <1>1, <1>4, <1>5, <1>9, <2>2, <2>3, ProceedSettled
  <1> QED BY <1>6, <1>7, <1>8, <1>9

(* changeJobUpdateStatus.                                                  *)
LEMMA ChangeStatusSettled ==
  ASSUME NEW j, NEW u \in UpdateKeys, Open(j, u),
         NEW s \in ACTIVE_JOB_UPDATE_STATES \cup TERMINAL_STATES,
         s \in AUTO_RESUME_STATES => j.updater = None,
         NEW o \in ChangeStatus(j, u, s)
  PROVE  Settled(o, u)
  <1>1. \/ o = Stopped(j, u, "ERROR")
        \/ s \notin AUTO_RESUME_STATES /\ o = Stopped(j, u, s)
        \/ s \in AUTO_RESUME_STATES /\ o \in Rolling(j, u, s)
    BY DEF ChangeStatus
  <1>2. CASE o = Stopped(j, u, "ERROR")
    BY <1>2, StoppedSettled DEF TERMINAL_STATES
  <1>3. CASE s \notin AUTO_RESUME_STATES /\ o = Stopped(j, u, s)
    <2>1. s \in TERMINAL_STATES \cup PausedStates \cup BlockedStates
      BY <1>3 DEF AUTO_RESUME_STATES, ACTIVE_JOB_UPDATE_STATES, Forward, Backward,
                  PausedStates, BlockedStates
    <2> QED BY <1>3, <2>1, StoppedSettled
  <1>4. CASE s \in AUTO_RESUME_STATES /\ o \in Rolling(j, u, s)
    BY <1>4, RollingSettled
  <1> QED BY <1>1, <1>2, <1>3, <1>4

(* evaluateUpdater after a change of an instance.                          *)
LEMMA EvaluateSettled ==
  ASSUME NEW j, NEW u \in UpdateKeys, Settled(j, u), j.updater # None,
         NEW i \in Instances, NEW t \in Task \cup Event \cup {None},
         NEW o \in Evaluate(j, u, i, t)
  PROVE  Settled(o, u)
  <1> DEFINE w == EvaluateInstance(j.updater, i, t)
             effect == [k \in {i} \cap ByState(j.updater, "WORKING") |-> Result(j.updater, i, t)]
  <1>1. /\ Open(j, u)
        /\ j.updater \in Updater
        /\ j.updater.key = u
    BY SettledRolling
  <1>2. /\ w \in Updater
        /\ w.key = u
        /\ w.target = j.updater.target
    BY <1>1, EvaluateInstanceType
  <1>3. \/ o = Stopped(j, u, "ERROR")
        \/ o \in Blocked(j, u)
        \/ o \in Proceed(j, u, w, effect)
        \/ o \in Rolling(j, u, "ROLLING_BACK")
        \/ o = Stopped(j, u, "FAILED")
    BY DEF Evaluate
  <1> HIDE DEF w
  <1>4. CASE o = Stopped(j, u, "ERROR") \/ o = Stopped(j, u, "FAILED")
    BY <1>1, <1>4, StoppedSettled DEF TERMINAL_STATES
  <1>5. CASE o \in Blocked(j, u)
    BY <1>1, <1>5, BlockedSettled
  <1>6. CASE o \in Rolling(j, u, "ROLLING_BACK")
    BY <1>1, <1>6, RollingSettled DEF AUTO_RESUME_STATES
  <1>7. CASE o \in Proceed(j, u, w, effect)
    <2>1. DOMAIN effect \subseteq Instances
      OBVIOUS
    <2>2. \A k \in DOMAIN effect : effect[k] = "REPLACE" => w.target[k] # None
      BY <1>1, <1>2, ResultFacts
    <2> HIDE DEF effect
    <2> QED BY <1>2, <1>7, <2>1, <2>2, ProceedSettled
  <1> QED BY <1>3, <1>4, <1>5, <1>6, <1>7

-----------------------------------------------------------------------------
(* The invariant.                                                          *)

JobInv ==
  /\ JobTypeOK
  /\ UpdaterFollowsStatus
  /\ LockedByActive
  /\ PulsedWhileActive

LEMMA JobFields ==
  /\ Job.task = task /\ Job.events = events /\ Job.update = update /\ Job.lock = lock
  /\ Job.updater = updater /\ Job.pulse = pulse /\ Job.deferred = deferred
  BY DEF Job

LEMMA JobType ==
  ASSUME JobTypeOK
  PROVE  Job \in JobRecord
  BY DEF JobTypeOK, JobRecord, Job

(* The state of the system is one in which the active update may be worked *)
(* on, ...                                                                 *)
LEMMA JobSettled ==
  ASSUME JobInv, NEW u \in UpdateKeys, IsActive(u)
  PROVE  Settled(Job, u)
  <1>1. Job \in JobRecord
    BY JobType DEF JobInv
  <1>2. Others(Job, u)
    <2>1. ASSUME NEW v \in UpdateKeys \ {u}
          PROVE  /\ update[v].status \notin ACTIVE_JOB_UPDATE_STATES
                 /\ pulse[v] = None
                 /\ lock # v
      BY DEF JobInv, LockedByActive, PulsedWhileActive, IsActive
    <2>2. updater # None => updater.key = u
      <3>1. SUFFICES ASSUME updater # None
                     PROVE  updater.key = u
        OBVIOUS
      <3>2. updater.key \in UpdateKeys
        BY <3>1 DEF JobInv, JobTypeOK, Updater
      <3>3. update[updater.key].status \in AUTO_RESUME_STATES
        BY <3>1, <3>2 DEF JobInv, UpdaterFollowsStatus
      <3>4. IsActive(updater.key)
        BY <3>3 DEF IsActive, AUTO_RESUME_STATES, ACTIVE_JOB_UPDATE_STATES, Forward, Backward
      <3> QED BY <3>2, <3>4 DEF JobInv, LockedByActive
    <2> QED BY <2>1, <2>2, JobFields DEF Others
  <1>3. updater # None <=> update[u].status \in AUTO_RESUME_STATES
    BY <1>2, JobFields DEF Others, JobInv, UpdaterFollowsStatus
  <1>4. /\ lock = u => update[u].status \in ACTIVE_JOB_UPDATE_STATES
        /\ pulse[u] # None <=>
             update[u].status \in ACTIVE_JOB_UPDATE_STATES /\ update[u].coordinated
        /\ pulse[u] # None => pulse[u].status = update[u].status
    BY DEF JobInv, LockedByActive, PulsedWhileActive, IsActive
  <1> QED BY <1>1, <1>2, <1>3, <1>4, JobFields DEF Settled

(* ... and committing a settled transaction re-establishes the invariant.  *)
LEMMA CommitSettled ==
  ASSUME NEW o, NEW u \in UpdateKeys, Settled(o, u), Commit(o), unblocks' \subseteq UpdateKeys
  PROVE  JobInv'
  <1>1. o \in JobRecord
    BY DEF Settled
  <1>2. /\ task' = o.task /\ events' = o.events /\ update' = o.update /\ lock' = o.lock
        /\ updater' = o.updater /\ pulse' = o.pulse /\ deferred' = o.deferred
    BY DEF Commit
  <1>3. JobTypeOK'
    BY <1>1, <1>2 DEF JobTypeOK, JobRecord
  <1>4. /\ \A v \in UpdateKeys \ {u} :
             /\ update'[v].status \notin ACTIVE_JOB_UPDATE_STATES
             /\ pulse'[v] = None
             /\ lock' # v
        /\ updater' # None => updater'.key = u
    BY <1>2 DEF Settled, Others
  <1>5. UpdaterFollowsStatus'
    <2>1. \A v \in UpdateKeys \ {u} : update'[v].status \notin AUTO_RESUME_STATES
      BY <1>4 DEF AUTO_RESUME_STATES, ACTIVE_JOB_UPDATE_STATES, Forward, Backward
    <2>2. updater' # None <=> update'[u].status \in AUTO_RESUME_STATES
      BY <1>2 DEF Settled
    <2> QED BY <1>4, <2>1, <2>2 DEF UpdaterFollowsStatus
  <1>6. LockedByActive'
    BY <1>2, <1>4 DEF Settled, LockedByActive, IsActive
  <1>7. PulsedWhileActive'
    BY <1>2, <1>4 DEF Settled, PulsedWhileActive, IsActive
  <1> QED BY <1>3, <1>5, <1>6, <1>7 DEF JobInv

(* Taking a notice from what is to be delivered.                           *)
LEMMA NoticeTaken ==
  ASSUME JobInv, NEW u \in UpdateKeys, IsActive(u), NEW x
  PROVE  /\ Settled([Job EXCEPT !.events = @ \ x], u)
         /\ Settled([Job EXCEPT !.deferred = @ \ x], u)
         /\ [Job EXCEPT !.events = @ \ x].updater = updater
         /\ [Job EXCEPT !.deferred = @ \ x].updater = updater
  <1>1. Settled(Job, u) /\ Job \in JobRecord
    BY JobSettled DEF Settled
  <1>2. [Job EXCEPT !.events = @ \ x] =
          [task |-> task, events |-> events \ x, update |-> update, lock |-> lock,
           updater |-> updater, pulse |-> pulse, deferred |-> deferred]
    BY DEF Job
  <1>3. [Job EXCEPT !.deferred = @ \ x] =
          [task |-> task, events |-> events, update |-> update, lock |-> lock,
           updater |-> updater, pulse |-> pulse, deferred |-> deferred \ x]
    BY DEF Job
  <1>4. /\ task \in [Instances -> Task \cup {None}]
        /\ events \ x \in SUBSET (Instances \X (Event \cup {None}))
        /\ events \in SUBSET (Instances \X (Event \cup {None}))
        /\ deferred \in SUBSET (Instances \X UpdateKeys)
        /\ deferred \ x \in SUBSET (Instances \X UpdateKeys)
    BY DEF JobInv, JobTypeOK
  <1>5. Settled([Job EXCEPT !.events = @ \ x], u)
    BY <1>1, <1>2, <1>4, TasksReplaced, JobFields
  <1>6. Settled([Job EXCEPT !.deferred = @ \ x], u)
    BY <1>1, <1>3, <1>4, TasksReplaced, JobFields
  <1> QED BY <1>5, <1>6 DEF Job

(* A step that changes tasks, notices and unblockings only.                *)
LEMMA OnlyTasks ==
  ASSUME JobInv, UNCHANGED <<update, lock, updater, pulse>>, JobTypeOK'
  PROVE  JobInv'
  BY DEF JobInv, UpdaterFollowsStatus, LockedByActive, PulsedWhileActive, IsActive

LEMMA InstructionsType ==
  ASSUME JobTypeOK, NEW c \in Configs, NEW n, NEW scope \in Scopes, NEW coordinated \in BOOLEAN
  PROVE  /\ Instructions(c, n, scope, coordinated) \in Update
         /\ Instructions(c, n, scope, coordinated).coordinated = coordinated
  <1>1. \A i \in Instances : Cfg(task[i]) \in Configs \cup {None}
    BY DEF JobTypeOK, Task, Cfg
  <1>2. scope \subseteq Instances
    BY UpdateAssumption
  <1> QED BY <1>1, <1>2 DEF Instructions, Update, UpdateStatus

(* A new update starts when no other is active and nobody holds the lock.  *)
StartStatus(coordinated) ==
  IF coordinated THEN "ROLL_FORWARD_AWAITING_PULSE" ELSE "ROLLING_FORWARD"

Requested(u, up, coordinated) ==
  [Job EXCEPT
     !.update[u] = up,
     !.lock = u,
     !.pulse[u] = IF coordinated THEN [status |-> StartStatus(coordinated), expired |-> TRUE]
                  ELSE None]

LEMMA StartOpen ==
  ASSUME JobInv, NEW u \in UpdateKeys, NEW up \in Update, NEW coordinated \in BOOLEAN,
         up.coordinated = coordinated, ~ \E v \in UpdateKeys : IsActive(v)
  PROVE  /\ Open(Requested(u, up, coordinated), u)
         /\ Requested(u, up, coordinated).updater = None
         /\ Requested(u, up, coordinated).update = [update EXCEPT ![u] = up]
  <1> DEFINE s == StartStatus(coordinated)
             ps == IF coordinated THEN [status |-> s, expired |-> TRUE] ELSE None
             j == [Job EXCEPT !.update[u] = up, !.lock = u, !.pulse[u] = ps]
  <1>1. ~ \E v \in UpdateKeys : IsActive(v)
    OBVIOUS
  <1>2. up \in Update /\ up.coordinated = coordinated
    OBVIOUS
  <1>3. /\ ps \in PulseState \cup {None}
        /\ ps # None <=> coordinated
    <2>1. CASE coordinated
      <3>1. ps \in PulseState
        BY <2>1 DEF PulseState, StartStatus, ACTIVE_JOB_UPDATE_STATES, Forward
      <3> QED BY <2>1, <3>1, NoneAssumption
    <2>2. CASE ~ coordinated
      BY <2>2
    <2> QED BY <2>1, <2>2
  <1>4. updater = None
    <2>1. SUFFICES ASSUME updater # None
                   PROVE  FALSE
      OBVIOUS
    <2>2. updater.key \in UpdateKeys
      BY <2>1 DEF JobInv, JobTypeOK, Updater
    <2>3. update[updater.key].status \in AUTO_RESUME_STATES
      BY <2>1, <2>2 DEF JobInv, UpdaterFollowsStatus
    <2> QED BY <1>1, <2>2, <2>3 DEF IsActive, AUTO_RESUME_STATES, ACTIVE_JOB_UPDATE_STATES,
                                    Forward, Backward
  <1>5. \A v \in UpdateKeys : pulse[v] = None /\ update[v].status \notin ACTIVE_JOB_UPDATE_STATES
    BY <1>1 DEF JobInv, PulsedWhileActive, IsActive
  <1> HIDE DEF ps
  <1> DEFINE ups == [update EXCEPT ![u] = up]
             pss == [pulse EXCEPT ![u] = ps]
  <1>6. j = [[[Job EXCEPT !.update = ups] EXCEPT !.lock = u] EXCEPT !.pulse = pss]
    BY JobFields, JobType DEF JobRecord, JobInv
  <1>7. /\ ups \in [UpdateKeys -> Update]
        /\ pss \in [UpdateKeys -> PulseState \cup {None}]
        /\ ups[u] = up
        /\ pss[u] = ps
        /\ \A v \in UpdateKeys \ {u} : ups[v] = update[v] /\ pss[v] = pulse[v]
    BY <1>2, <1>3 DEF JobInv, JobTypeOK
  <1> HIDE DEF ups, pss, j
  <1>8. j = [task |-> task, events |-> events, update |-> ups, lock |-> u,
             updater |-> updater, pulse |-> pss, deferred |-> deferred]
    BY <1>6, JobFields, JobType DEF JobRecord, JobInv
  <1>9. /\ j \in JobRecord
        /\ j.updater = None
        /\ j.lock = u
        /\ j.update[u] = up
        /\ j.pulse[u] = ps
        /\ \A v \in UpdateKeys \ {u} : j.update[v] = update[v] /\ j.pulse[v] = pulse[v]
    BY <1>4, <1>7, <1>8 DEF JobRecord, JobInv, JobTypeOK
  <1>10. Others(j, u)
    BY <1>5, <1>9 DEF Others
  <1>11. Open(j, u)
    <2>1. j.update[u].coordinated <=> coordinated
      BY <1>2, <1>9
    <2> QED BY <1>3, <1>9, <1>10, <2>1 DEF Open
  <1>12. j.update = [update EXCEPT ![u] = up]
    BY <1>8 DEF ups
  <1> QED BY <1>9, <1>11, <1>12 DEF j, ps, Requested

LEMMA StartStep ==
  ASSUME JobInv, NEW u \in UpdateKeys, NEW c \in Configs, NEW n, NEW scope \in Scopes,
         NEW coordinated \in BOOLEAN, Start(u, c, n, scope, coordinated)
  PROVE  JobInv'
  <1> DEFINE up == Instructions(c, n, scope, coordinated)
             s == StartStatus(coordinated)
             j == Requested(u, up, coordinated)
  <1>1. /\ ~ \E v \in UpdateKeys : IsActive(v)
        /\ Write(ChangeStatus(j, u, s))
        /\ UNCHANGED unblocks
    BY DEF Start, Requested, StartStatus
  <1>2. Open(j, u) /\ j.updater = None
    <2>1. up \in Update /\ up.coordinated = coordinated
      BY InstructionsType DEF JobInv
    <2> HIDE DEF up
    <2> QED BY <1>1, <2>1, StartOpen
  <1>3. s \in ACTIVE_JOB_UPDATE_STATES \cup TERMINAL_STATES
    BY DEF StartStatus, ACTIVE_JOB_UPDATE_STATES, Forward
  <1> HIDE DEF s, j
  <1>4. PICK o \in ChangeStatus(j, u, s) : Commit(o)
    BY <1>1 DEF Write
  <1>5. Settled(o, u)
    BY <1>2, <1>3, ChangeStatusSettled
  <1>6. unblocks' \subseteq UpdateKeys
    BY <1>1 DEF JobInv, JobTypeOK
  <1> QED BY <1>4, <1>5, <1>6, CommitSettled

(* A request to change the status of an active update.                     *)
LEMMA StatusStep ==
  ASSUME JobInv, NEW u \in UpdateKeys, IsActive(u),
         NEW s \in ACTIVE_JOB_UPDATE_STATES \cup TERMINAL_STATES,
         s \in AUTO_RESUME_STATES => update[u].status \notin AUTO_RESUME_STATES,
         Write(ChangeStatus(Job, u, s)), unblocks' \subseteq UpdateKeys
  PROVE  JobInv'
  <1>1. Settled(Job, u)
    BY JobSettled
  <1>2. Open(Job, u)
    BY <1>1, SettledOpen, JobFields DEF IsActive
  <1>3. s \in AUTO_RESUME_STATES => Job.updater = None
    BY <1>1, JobFields DEF Settled
  <1>4. PICK o \in ChangeStatus(Job, u, s) : Commit(o)
    BY DEF Write
  <1>5. Settled(o, u)
    BY <1>2, <1>3, ChangeStatusSettled
  <1> QED BY <1>4, <1>5, CommitSettled

LEMMA StatusKinds ==
  /\ PausedStates \subseteq ACTIVE_JOB_UPDATE_STATES
  /\ BlockedStates \subseteq ACTIVE_JOB_UPDATE_STATES
  /\ AUTO_RESUME_STATES \subseteq ACTIVE_JOB_UPDATE_STATES
  /\ AUTO_RESUME_STATES \cap (PausedStates \cup BlockedStates) = {}
  /\ \A s : /\ RollingState(s) \in AUTO_RESUME_STATES
            /\ PauseState(s) \in PausedStates
            /\ BlockedState(s) \in BlockedStates
  BY DEF PausedStates, BlockedStates, AUTO_RESUME_STATES, ACTIVE_JOB_UPDATE_STATES,
         Forward, Backward, RollingState, PauseState, BlockedState

LEMMA RequestStep ==
  ASSUME JobInv, NEW u \in UpdateKeys, Pause(u) \/ Resume(u) \/ Abort(u) \/ Unblock(u)
  PROVE  JobInv'
  <1>1. unblocks' \subseteq UpdateKeys
    BY DEF Pause, Resume, Abort, Unblock, JobInv, JobTypeOK
  <1>2. CASE Pause(u)
    BY <1>1, <1>2, StatusStep, StatusKinds DEF Pause
  <1>3. CASE Resume(u)
    <2> DEFINE s == IF PulseExpired(Job, u) THEN BlockedState(update[u].status)
                    ELSE RollingState(update[u].status)
    <2>1. Write(ChangeStatus(Job, u, s)) /\ update[u].status \in PausedStates
      BY <1>3 DEF Resume
    <2>2. s \in ACTIVE_JOB_UPDATE_STATES
      BY StatusKinds
    <2> HIDE DEF s
    <2> QED BY <1>1, <2>1, <2>2, StatusStep, StatusKinds DEF IsActive
  <1>4. CASE Abort(u)
    BY <1>1, <1>4, StatusStep DEF Abort, TERMINAL_STATES, AUTO_RESUME_STATES
  <1>5. CASE Unblock(u)
    <2>1. CASE update[u].status \in BlockedStates
      BY <1>1, <1>5, <2>1, StatusStep, StatusKinds DEF Unblock, IsActive
    <2>2. CASE update[u].status \notin BlockedStates
      <3>1. UNCHANGED <<task, events, update, lock, updater, pulse, deferred>>
        BY <1>5, <2>2 DEF Unblock
      <3>2. JobTypeOK'
        BY <1>1, <3>1 DEF JobInv, JobTypeOK
      <3> QED BY <3>1, <3>2, OnlyTasks
    <2> QED BY <2>1, <2>2
  <1> QED BY <1>2, <1>3, <1>4, <1>5

LEMMA PulseStep ==
  ASSUME JobInv, NEW u \in UpdateKeys, Pulse(u) \/ PulseTimeout(u)
  PROVE  JobInv'
  <1>1. PICK e \in BOOLEAN : pulse' = [pulse EXCEPT ![u].expired = e]
    BY DEF Pulse, PulseTimeout
  <1>2. /\ pulse[u] # None
        /\ unblocks' \subseteq UpdateKeys
        /\ UNCHANGED <<task, events, update, lock, updater, deferred>>
    BY DEF Pulse, PulseTimeout, JobInv, JobTypeOK
  <1> DEFINE x == [pulse[u] EXCEPT !.expired = e]
  <1>3. pulse \in [UpdateKeys -> PulseState \cup {None}]
    BY DEF JobInv, JobTypeOK
  <1>4. x \in PulseState /\ x.status = pulse[u].status /\ x # None
    BY <1>2, <1>3, NoneAssumption DEF PulseState
  <1>5. pulse' = [pulse EXCEPT ![u] = x]
    BY <1>1
  <1> HIDE DEF x
  <1>6. JobTypeOK'
    BY <1>2, <1>3, <1>4, <1>5 DEF JobInv, JobTypeOK
  <1>7. PulsedWhileActive'
    BY <1>2, <1>3, <1>4, <1>5 DEF JobInv, PulsedWhileActive, IsActive
  <1>8. UpdaterFollowsStatus' /\ LockedByActive'
    BY <1>2 DEF JobInv, UpdaterFollowsStatus, LockedByActive, IsActive
  <1> QED BY <1>6, <1>7, <1>8 DEF JobInv

(* The notice of a change, or a re-evaluation that has come due.           *)
LEMMA NoticeStep ==
  ASSUME JobInv,
         \/ \E e \in events : InstanceChanged(e[1], e[2])
         \/ \E d \in deferred : Reevaluate(d[1], d[2])
  PROVE  JobInv'
  <1>1. ASSUME NEW e \in events, InstanceChanged(e[1], e[2])
        PROVE  JobInv'
    <2> DEFINE j == [Job EXCEPT !.events = @ \ {<<e[1], e[2]>>}]
    <2>1. /\ e[1] \in Instances
          /\ e[2] \in Event \cup {None}
          /\ unblocks' \subseteq UpdateKeys
      BY <1>1 DEF JobInv, JobTypeOK, InstanceChanged
    <2>2. CASE updater # None /\ updater.state[e[1]] # "OUT"
      <3>1. PICK u \in UpdateKeys : IsActive(u) /\ Write(Evaluate(j, u, e[1], e[2]))
        BY <1>1, <2>2 DEF InstanceChanged
      <3>2. Settled(j, u) /\ j.updater = updater
        BY <3>1, NoticeTaken
      <3> HIDE DEF j
      <3>3. PICK o \in Evaluate(j, u, e[1], e[2]) : Commit(o)
        BY <3>1 DEF Write
      <3>4. Settled(o, u)
        BY <2>1, <2>2, <3>2, EvaluateSettled
      <3> QED BY <2>1, <3>3, <3>4, CommitSettled
    <2>3. CASE ~ (updater # None /\ updater.state[e[1]] # "OUT")
      <3>1. Commit(j)
        BY <1>1, <2>3 DEF InstanceChanged
      <3>2. /\ UNCHANGED <<task, update, lock, updater, pulse, deferred>>
            /\ events' = events \ {<<e[1], e[2]>>}
        BY <3>1 DEF Commit, Job
      <3>3. JobTypeOK'
        BY <2>1, <3>2 DEF JobInv, JobTypeOK
      <3> QED BY <3>2, <3>3, OnlyTasks
    <2> QED BY <2>2, <2>3
  <1>2. ASSUME NEW d \in deferred, Reevaluate(d[1], d[2])
        PROVE  JobInv'
    <2> DEFINE i == d[1]
               u == d[2]
               j == [Job EXCEPT !.deferred = @ \ {<<i, u>>}]
    <2>1. /\ i \in Instances
          /\ u \in UpdateKeys
          /\ task[i] \in Task \cup {None}
          /\ unblocks' \subseteq UpdateKeys
      BY <1>2 DEF JobInv, JobTypeOK, Reevaluate
    <2>2. CASE update[u].status \in AUTO_RESUME_STATES
      <3>1. Write(Evaluate(j, u, i, task[i]))
        BY <1>2, <2>2 DEF Reevaluate
      <3>2. IsActive(u) /\ updater # None
        BY <2>1, <2>2, StatusKinds DEF IsActive, JobInv, UpdaterFollowsStatus
      <3>3. Settled(j, u) /\ j.updater = updater
        BY <2>1, <3>2, NoticeTaken
      <3> HIDE DEF j, i, u
      <3>4. PICK o \in Evaluate(j, u, i, task[i]) : Commit(o)
        BY <3>1 DEF Write
      <3>5. Settled(o, u)
        BY <2>1, <3>2, <3>3, EvaluateSettled
      <3> QED BY <2>1, <3>4, <3>5, CommitSettled
    <2>3. CASE update[u].status \notin AUTO_RESUME_STATES
      <3>1. Commit(j)
        BY <1>2, <2>3 DEF Reevaluate
      <3>2. /\ UNCHANGED <<task, events, update, lock, updater, pulse>>
            /\ deferred' = deferred \ {<<i, u>>}
        BY <3>1 DEF Commit, Job
      <3>3. JobTypeOK'
        BY <2>1, <3>2 DEF JobInv, JobTypeOK
      <3> QED BY <3>2, <3>3, OnlyTasks
    <2> QED BY <2>2, <2>3
  <1> QED BY <1>1, <1>2

(* What a new leader restores from storage.                                *)
RestoredPulse ==
  [u \in UpdateKeys |->
     IF IsActive(u) /\ update[u].coordinated
     THEN [status |-> update[u].status, expired |-> TRUE] ELSE None]

LEMMA RestoredFields ==
  ASSUME JobInv
  PROVE  LET r == Restored(Job)
         IN  /\ r \in JobRecord
             /\ r.task = task /\ r.update = update /\ r.lock = lock /\ r.updater = None
             /\ r.pulse = RestoredPulse /\ r.events = {} /\ r.deferred = {}
             /\ r.pulse \in [UpdateKeys -> PulseState \cup {None}]
             /\ \A u \in UpdateKeys :
                  /\ r.pulse[u] # None <=> IsActive(u) /\ update[u].coordinated
                  /\ r.pulse[u] # None => r.pulse[u].status = update[u].status
  <1> DEFINE ps == RestoredPulse
             r == Restored(Job)
  <1>1. /\ ps \in [UpdateKeys -> PulseState \cup {None}]
        /\ \A u \in UpdateKeys :
             /\ ps[u] # None <=> IsActive(u) /\ update[u].coordinated
             /\ ps[u] # None => ps[u].status = update[u].status
    <2>1. ASSUME NEW u \in UpdateKeys, IsActive(u)
          PROVE  /\ [status |-> update[u].status, expired |-> TRUE] \in PulseState
                 /\ [status |-> update[u].status, expired |-> TRUE] # None
      <3>1. [status |-> update[u].status, expired |-> TRUE] \in PulseState
        BY <2>1 DEF IsActive, PulseState
      <3> QED BY <3>1, NoneAssumption
    <2> QED BY <2>1 DEF RestoredPulse
  <1>2. Restored(Job) = [[[[Job EXCEPT !.events = {}] EXCEPT !.updater = None]
                             EXCEPT !.deferred = {}] EXCEPT !.pulse = ps]
    BY DEF Restored, RestoredPulse
  <1> HIDE DEF ps
  <1>3. /\ r \in JobRecord
        /\ r.task = task /\ r.update = update /\ r.lock = lock /\ r.updater = None
        /\ r.pulse = ps /\ r.events = {} /\ r.deferred = {}
    BY <1>1, <1>2, JobFields, JobType DEF JobRecord, JobInv
  <1> QED BY <1>1, <1>3 DEF ps

LEMMA RestoredOpen ==
  ASSUME JobInv, NEW u \in UpdateKeys, update[u].status \in AUTO_RESUME_STATES
  PROVE  Open(Restored(Job), u)
  <1> DEFINE r == Restored(Job)
  <1>1. /\ r \in JobRecord
        /\ r.update = update /\ r.lock = lock /\ r.updater = None
        /\ \A v \in UpdateKeys : r.pulse[v] # None <=> IsActive(v) /\ update[v].coordinated
    BY RestoredFields
  <1> HIDE DEF r
  <1>2. IsActive(u)
    BY StatusKinds DEF IsActive
  <1>3. Others(r, u)
    BY <1>1, <1>2 DEF Others, JobInv, LockedByActive, IsActive
  <1>4. Open(r, u)
    BY <1>1, <1>2, <1>3 DEF Open
  <1> QED BY <1>4 DEF r

(* A new leader starts from storage alone.                                 *)
LEMMA FailoverStep ==
  ASSUME JobInv, Failover
  PROVE  JobInv'
  <1> DEFINE r == Restored(Job)
  <1>1. /\ r.task = task /\ r.update = update /\ r.lock = lock /\ r.updater = None
        /\ r.events = {} /\ r.deferred = {}
        /\ r.pulse \in [UpdateKeys -> PulseState \cup {None}]
        /\ \A u \in UpdateKeys :
             /\ r.pulse[u] # None <=> IsActive(u) /\ update[u].coordinated
             /\ r.pulse[u] # None => r.pulse[u].status = update[u].status
    BY RestoredFields
  <1>2. unblocks' \subseteq UpdateKeys
    BY DEF Failover
  <1>3. ASSUME NEW u \in UpdateKeys, update[u].status \in AUTO_RESUME_STATES,
               Write(ChangeStatus(r, u, update[u].status))
        PROVE  JobInv'
    <2>1. Open(r, u)
      BY <1>3, RestoredOpen
    <2> HIDE DEF r
    <2>2. PICK o \in ChangeStatus(r, u, update[u].status) : Commit(o)
      BY <1>3 DEF Write
    <2>3. Settled(o, u)
      BY <1>1, <1>3, <2>1, StatusKinds, ChangeStatusSettled
    <2> QED BY <1>2, <2>2, <2>3, CommitSettled
  <1>4. ASSUME \A u \in UpdateKeys : update[u].status \notin AUTO_RESUME_STATES, Commit(r)
        PROVE  JobInv'
    <2> HIDE DEF r
    <2>1. /\ task' = task /\ update' = update /\ lock' = lock /\ updater' = None
          /\ pulse' = r.pulse /\ events' = {} /\ deferred' = {}
      BY <1>1, <1>4 DEF Commit
    <2>2. JobTypeOK'
      BY <1>1, <1>2, <2>1 DEF JobInv, JobTypeOK
    <2>3. UpdaterFollowsStatus' /\ LockedByActive'
      BY <1>4, <2>1 DEF JobInv, UpdaterFollowsStatus, LockedByActive, IsActive
    <2>4. PulsedWhileActive'
      BY <1>1, <2>1 DEF PulsedWhileActive, IsActive
    <2> QED BY <2>2, <2>3, <2>4 DEF JobInv
  <1> QED BY <1>3, <1>4 DEF Failover

(* What the tasks and the clients of the job do.                           *)
LEMMA TaskStep ==
  ASSUME JobInv, NEW i \in Instances, TaskActs(i)
  PROVE  JobInv'
  <1>1. ASSUME NEW t, NEW report, SetTask(i, t, report),
               t \in Task \cup {None}, report \subseteq Instances \X (Event \cup {None})
        PROVE  JobInv'
    <2>1. /\ task' = [task EXCEPT ![i] = t]
          /\ events' = events \cup report
          /\ UNCHANGED <<update, lock, updater, pulse, deferred, unblocks>>
      BY <1>1 DEF SetTask
    <2>2. JobTypeOK'
      BY <1>1, <2>1 DEF JobInv, JobTypeOK
    <2> QED BY <2>1, <2>2, OnlyTasks
  <1>2. ASSUME NEW c \in Configs, NEW st \in ActiveStatus
        PROVE  Snapshot(c, st) \in Task /\ Snapshot(c, st) \in Event
    BY DEF Snapshot, Task, Event
  <1>3. task[i] # None => task[i] \in Task /\ task[i].cfg \in Configs
    BY DEF JobInv, JobTypeOK, Task
  <1>4. CASE TaskRuns(i)
    <2>1. Snapshot(task[i].cfg, "RUNNING") \in Task /\ Snapshot(task[i].cfg, "RUNNING") \in Event
      BY <1>2, <1>3, <1>4 DEF TaskRuns, ActiveStatus
    <2> QED BY <1>1, <1>4, <2>1 DEF TaskRuns
  <1>5. CASE TaskStable(i)
    <2>1. [task[i] EXCEPT !.stable = TRUE] \in Task
      BY <1>3, <1>5 DEF TaskStable, Task
    <2> QED BY <1>1, <1>5, <2>1 DEF TaskStable
  <1>6. CASE TaskEnds(i)
    <2> DEFINE report == {<<i, Snapshot(task[i].cfg, s)>> : s \in {"ENDED", "PENDING"}}
    <2>1. Snapshot(task[i].cfg, "PENDING") \in Task /\ Snapshot(task[i].cfg, "PENDING") \in Event
      BY <1>2, <1>3, <1>6 DEF TaskEnds, ActiveStatus
    <2>2. Snapshot(task[i].cfg, "ENDED") \in Event
      BY <1>3, <1>6 DEF TaskEnds, Snapshot, Event
    <2>3. report \subseteq Instances \X (Event \cup {None})
      BY <2>1, <2>2
    <2>4. SetTask(i, Snapshot(task[i].cfg, "PENDING"), report)
      BY <1>6 DEF TaskEnds
    <2> HIDE DEF report
    <2> QED BY <1>1, <2>1, <2>3, <2>4
  <1>7. CASE TaskKilled(i)
    <2>1. Snapshot(task[i].cfg, "KILLED") \in Event
      BY <1>3, <1>7 DEF TaskKilled, Snapshot, Event
    <2> QED BY <1>1, <1>7, <2>1 DEF TaskKilled
  <1>8. CASE ClientKills(i)
    <2>1. PICK deleted \in BOOLEAN :
            SetTask(i, Killed(task[i], deleted), {<<i, Killed(task[i], deleted)>>})
      BY <1>8 DEF ClientKills
    <2>2. /\ Killed(task[i], deleted) \in Task \cup {None}
          /\ Killed(task[i], deleted) \in Event \cup {None}
      BY <1>2, <1>3, <1>8 DEF ClientKills, Killed, ActiveStatus
    <2> QED BY <1>1, <2>1, <2>2
  <1>9. ASSUME NEW c \in Configs, ClientAdds(i, c)
        PROVE  JobInv'
    <2>1. Snapshot(c, "PENDING") \in Task /\ Snapshot(c, "PENDING") \in Event
      BY <1>2 DEF ActiveStatus
    <2> QED BY <1>1, <1>9, <2>1 DEF ClientAdds
  <1>10. CASE TaskStops(i)
    <2>1. Snapshot(task[i].cfg, "STOPPING") \in Task /\ Snapshot(task[i].cfg, "STOPPING") \in Event
      BY <1>2, <1>3, <1>10 DEF TaskStops, ActiveStatus
    <2> QED BY <1>1, <1>10, <2>1 DEF TaskStops
  <1> QED BY <1>4, <1>5, <1>6, <1>7, <1>8, <1>9, <1>10 DEF TaskActs

LEMMA LockStep ==
  ASSUME JobInv, AcquireLock \/ ReleaseLock
  PROVE  JobInv'
  <1>1. /\ lock' \in {Client, None}
        /\ UNCHANGED <<task, events, update, updater, pulse, deferred, unblocks>>
    BY DEF AcquireLock, ReleaseLock
  <1>2. JobTypeOK'
    BY <1>1 DEF JobInv, JobTypeOK
  <1>3. UpdaterFollowsStatus' /\ PulsedWhileActive'
    BY <1>1 DEF JobInv, UpdaterFollowsStatus, PulsedWhileActive, IsActive
  <1>4. LockedByActive'
    BY <1>1, UpdateAssumption DEF JobInv, LockedByActive, IsActive
  <1> QED BY <1>2, <1>3, <1>4 DEF JobInv

(***************************************************************************)
(* Updates in storage, the updater in memory, the pulse states and the     *)
(* lock are consistent in every state: across requests, notices that are   *)
(* late or in any order, exceptions, expired pulses, lost locks and        *)
(* failovers.                                                              *)
(***************************************************************************)
THEOREM JobConsistent == JobSpec => []JobInv
  <1>1. JobInit => JobInv
    <2>1. SUFFICES ASSUME JobInit
                   PROVE  JobInv
      OBVIOUS
    <2>2. NoUpdate \in Update /\ NoUpdate.status = "NONE"
      BY DEF NoUpdate, Update, UpdateStatus
    <2>3. PICK c \in Configs :
            task = [i \in Instances |-> [Snapshot(c, "RUNNING") EXCEPT !.stable = TRUE]]
      BY <2>1 DEF JobInit
    <2>4. [Snapshot(c, "RUNNING") EXCEPT !.stable = TRUE] \in Task
      BY DEF Snapshot, Task, ActiveStatus
    <2>5. JobTypeOK
      BY <2>1, <2>2, <2>3, <2>4 DEF JobInit, JobTypeOK
    <2>6. \A u \in UpdateKeys : update[u].status = "NONE"
      BY <2>1, <2>2 DEF JobInit
    <2>7. UpdaterFollowsStatus /\ LockedByActive /\ PulsedWhileActive
      BY <2>1, <2>6, UpdateAssumption
         DEF JobInit, UpdaterFollowsStatus, LockedByActive, PulsedWhileActive, IsActive,
             AUTO_RESUME_STATES, ACTIVE_JOB_UPDATE_STATES, Forward, Backward
    <2> QED BY <2>5, <2>7 DEF JobInv
  <1>2. JobInv /\ [JobNext]_updateVars => JobInv'
    <2>1. SUFFICES ASSUME JobInv, [JobNext]_updateVars
                   PROVE  JobInv'
      OBVIOUS
    <2>2. CASE UNCHANGED updateVars
      BY <2>1, <2>2 DEF updateVars, JobInv, JobTypeOK, UpdaterFollowsStatus, LockedByActive,
                        PulsedWhileActive, IsActive
    <2>3. CASE \E u \in UpdateKeys : UserActs(u)
      <3>1. PICK u \in UpdateKeys : UserActs(u)
        BY <2>3
      <3>2. CASE \E c \in Configs, n \in Counts, scope \in Scopes, coordinated \in BOOLEAN :
                   Start(u, c, n, scope, coordinated)
        <4>1. PICK c \in Configs, n \in Counts, scope \in Scopes, coordinated \in BOOLEAN :
                Start(u, c, n, scope, coordinated)
          BY <3>2
        <4> QED BY <2>1, <4>1, StartStep
      <3>3. CASE Pause(u) \/ Resume(u) \/ Abort(u) \/ Unblock(u)
        BY <2>1, <3>3, RequestStep
      <3>4. CASE Pulse(u) \/ PulseTimeout(u)
        BY <2>1, <3>4, PulseStep
      <3> QED BY <3>1, <3>2, <3>3, <3>4 DEF UserActs
    <2>4. CASE \E i \in Instances : TaskActs(i)
      BY <2>1, <2>4, TaskStep
    <2>5. CASE \/ \E e \in events : InstanceChanged(e[1], e[2])
               \/ \E d \in deferred : Reevaluate(d[1], d[2])
      BY <2>1, <2>5, NoticeStep
    <2>6. CASE AcquireLock \/ ReleaseLock
      BY <2>1, <2>6, LockStep
    <2>7. CASE Failover
      BY <2>1, <2>7, FailoverStep
    <2> QED BY <2>1, <2>2, <2>3, <2>4, <2>5, <2>6, <2>7 DEF JobNext
  <1> QED BY <1>1, <1>2, PTL DEF JobSpec

(***************************************************************************)
(* The state keeps its types: no status, snapshot or updater is ever       *)
(* outside what the code can represent.                                    *)
(***************************************************************************)
THEOREM UpdateTypes == JobSpec => []JobTypeOK
  <1>1. JobInv => JobTypeOK
    BY DEF JobInv
  <1> QED BY <1>1, JobConsistent, PTL

(***************************************************************************)
(* An update is rolling exactly while it has the updater in memory.        *)
(***************************************************************************)
THEOREM UpdaterKept == JobSpec => []UpdaterFollowsStatus
  <1>1. JobInv => UpdaterFollowsStatus
    BY DEF JobInv
  <1> QED BY <1>1, JobConsistent, PTL

(***************************************************************************)
(* One active update per job, and no lock of a finished one.               *)
(***************************************************************************)
THEOREM LockReleased == JobSpec => []LockedByActive
  <1>1. JobInv => LockedByActive
    BY DEF JobInv
  <1> QED BY <1>1, JobConsistent, PTL

(***************************************************************************)
(* The pulse handler knows exactly the active coordinated updates.         *)
(***************************************************************************)
THEOREM PulsesKept == JobSpec => []PulsedWhileActive
  <1>1. JobInv => PulsedWhileActive
    BY DEF JobInv
  <1> QED BY <1>1, JobConsistent, PTL

-----------------------------------------------------------------------------
(* Groups.                                                                 *)

(* No two idle instances have the same rank.                               *)
LEMMA RankDistinct ==
  ASSUME NEW w \in Updater, NEW i \in ByState(w, "IDLE"), NEW k \in ByState(w, "IDLE"), i # k
  PROVE  Rank(w, i) \in Nat /\ Rank(w, i) # Rank(w, k)
  <1> DEFINE before(x) == {j \in ByState(w, "IDLE") : IF w.forward THEN j < x ELSE j > x}
  <1>1. ByState(w, "IDLE") \subseteq Instances /\ Instances \subseteq Nat /\ IsFiniteSet(Instances)
    BY UpdateAssumption DEF UpdateAssumption, ByState
  <1>2. \A x \in Nat : IsFiniteSet(before(x)) /\ Cardinality(before(x)) \in Nat
    BY <1>1, FS_Subset, FS_CardinalityType
  <1>3. ASSUME NEW x \in ByState(w, "IDLE"), NEW y \in ByState(w, "IDLE"),
               IF w.forward THEN x < y ELSE x > y
        PROVE  Cardinality(before(x)) # Cardinality(before(y))
    <2>1. x \in Nat /\ y \in Nat
      BY <1>1
    <2>2. before(x) \in SUBSET before(y)
      <3>1. SUFFICES ASSUME NEW j \in ByState(w, "IDLE"),
                            IF w.forward THEN j < x ELSE j > x
                     PROVE  IF w.forward THEN j < y ELSE j > y
        OBVIOUS
      <3>2. j \in Nat
        BY <1>1
      <3> QED BY <1>3, <2>1, <3>1, <3>2
    <2>3. x \in before(y) /\ x \notin before(x)
      BY <1>3, <2>1
    <2> QED BY <1>2, <2>1, <2>2, <2>3, FS_Subset
  <1>4. i \in Nat /\ k \in Nat /\ i # k
    BY <1>1
  <1>5. \/ IF w.forward THEN i < k ELSE i > k
        \/ IF w.forward THEN k < i ELSE k > i
    BY <1>4
  <1> QED BY <1>2, <1>3, <1>4, <1>5 DEF Rank

(* Instances with n ranks in a row are no more than n.                     *)
LEMMA RankBound ==
  ASSUME NEW w \in Updater, NEW S \in SUBSET ByState(w, "IDLE"), NEW a \in Nat, NEW n \in Nat,
         \A i \in S : Rank(w, i) \in a..(a + n - 1)
  PROVE  IsFiniteSet(S) /\ Cardinality(S) <= n
  <1> DEFINE f == [i \in S |-> Rank(w, i)]
             T == a..(a + n - 1)
  <1>1. f \in Injection(S, T)
    <2>1. \A i, k \in S : i # k => Rank(w, i) # Rank(w, k)
      BY RankDistinct
    <2>2. f \in [S -> T]
      OBVIOUS
    <2> QED BY <2>1, <2>2 DEF Injection, IsInjective
  <1>2. IsFiniteSet(T) /\ Cardinality(T) <= n
    BY FS_Interval
  <1>3. IsFiniteSet(S) /\ Cardinality(S) <= Cardinality(T)
    BY <1>1, <1>2, FS_Injection
  <1>4. Cardinality(S) \in Nat /\ Cardinality(T) \in Nat
    BY <1>2, <1>3, FS_CardinalityType
  <1> QED BY <1>2, <1>3, <1>4

(* The ranks of a group are in a row.                                      *)
LEMMA GroupRanks ==
  ASSUME NEW x \in Nat, NEW n \in Nat \ {0}
  PROVE  x \div n \in Nat /\ x \in (n * (x \div n))..(n * (x \div n) + n - 1)
         /\ n * (x \div n) \in Nat
  OBVIOUS

(* Starting the next group keeps the instances at work within the limit.   *)
LEMMA GroupBounded ==
  ASSUME NEW w \in Updater, NEW tasks, Cardinality(ByState(w, "WORKING")) <= GroupSize
  PROVE  Cardinality(ByState(StartInstances(w, NextGroup(w, tasks), tasks), "WORKING")) <= GroupSize
  <1> DEFINE idle == ByState(w, "IDLE")
             working == ByState(w, "WORKING")
             group == NextGroup(w, tasks)
             x == StartInstances(w, group, tasks)
             S == {i \in group : StateAfter(Result(w, i, tasks[i])) = "WORKING"}
  <1>1. GroupSize \in Nat \ {0} /\ IsFiniteSet(working) /\ Cardinality(working) \in Nat
    BY UpdateAssumption, FS_Subset, FS_CardinalityType DEF UpdateAssumption, ByState
  <1>2. group \subseteq idle /\ S \in SUBSET idle
    BY DEF NextGroup
  <1>3. ByState(x, "WORKING") \subseteq working \cup S
    <2>1. x = [w EXCEPT !.state = [i \in Instances |->
                 IF i \in group THEN StateAfter(Result(w, i, tasks[i])) ELSE w.state[i]]]
      BY DEF StartInstances
    <2>2. x.state = [i \in Instances |->
                 IF i \in group THEN StateAfter(Result(w, i, tasks[i])) ELSE w.state[i]]
      BY <2>1 DEF Updater
    <2> HIDE DEF x, group
    <2> QED BY <2>2 DEF ByState
  <1>4. ASSUME IsFiniteSet(S), Cardinality(S) <= GroupSize - Cardinality(working)
        PROVE  Cardinality(ByState(x, "WORKING")) <= GroupSize
    <2> HIDE DEF x, S, working
    <2>1. /\ IsFiniteSet(working \cup S)
          /\ Cardinality(working \cup S) =
               Cardinality(working) + Cardinality(S) - Cardinality(working \cap S)
      BY <1>1, <1>4, FS_Union
    <2>2. Cardinality(working \cap S) \in Nat /\ Cardinality(S) \in Nat
      BY <1>1, <1>4, FS_Intersection, FS_CardinalityType
    <2>3. /\ Cardinality(ByState(x, "WORKING")) <= Cardinality(working \cup S)
          /\ Cardinality(ByState(x, "WORKING")) \in Nat
      BY <1>3, <2>1, FS_Subset, FS_CardinalityType
    <2> QED BY <1>1, <1>4, <2>1, <2>2, <2>3
  <1>5. CASE working = {}
    <2>1. Cardinality(working) = 0
      BY <1>5, FS_EmptySet
    <2>2. CASE S = {}
      BY <1>1, <1>4, <2>1, <2>2, FS_EmptySet
    <2>3. CASE S # {}
      <3>1. PICK k : k \in S
        BY <2>3
      <3>2. \A i \in idle : Rank(w, i) \in Nat
        <4>1. \A i \in idle : IsFiniteSet({j \in idle : IF w.forward THEN j < i ELSE j > i})
          BY UpdateAssumption, FS_Subset DEF UpdateAssumption, ByState
        <4> QED BY <4>1, FS_CardinalityType DEF Rank
      <3>3. \A i \in S : Result(w, i, tasks[i]) # "SUCCEEDED"
        BY DEF StateAfter
      <3>4. \A i \in S : Rank(w, i) \div GroupSize = Rank(w, k) \div GroupSize
        <4>1. \A i, l \in S : Rank(w, i) \div GroupSize <= Rank(w, l) \div GroupSize
          BY <1>2, <1>5, <3>3 DEF NextGroup
        <4>2. \A i \in S : Rank(w, i) \div GroupSize \in Nat
          BY <1>1, <1>2, <3>2, GroupRanks
        <4> HIDE DEF S
        <4> QED BY <3>1, <4>1, <4>2
      <3> DEFINE a == GroupSize * (Rank(w, k) \div GroupSize)
      <3>5. a \in Nat /\ \A i \in S : Rank(w, i) \in a..(a + GroupSize - 1)
        BY <1>1, <1>2, <3>1, <3>2, <3>4, GroupRanks
      <3> HIDE DEF S, a
      <3>6. IsFiniteSet(S) /\ Cardinality(S) <= GroupSize
        BY <1>1, <1>2, <3>5, RankBound
      <3> QED BY <1>1, <1>4, <2>1, <3>6
    <2> QED BY <2>2, <2>3
  <1>6. CASE working # {}
    <2> DEFINE n == GroupSize - Cardinality(working)
    <2>1. n \in Nat
      BY <1>1
    <2>2. \A i \in S : Rank(w, i) \in 0..(0 + n - 1)
      <3>1. \A i \in S : Rank(w, i) < n
        BY <1>6 DEF NextGroup
      <3>2. \A i \in idle : Rank(w, i) \in Nat
        <4>1. \A i \in idle : IsFiniteSet({j \in idle : IF w.forward THEN j < i ELSE j > i})
          BY UpdateAssumption, FS_Subset DEF UpdateAssumption, ByState
        <4> QED BY <4>1, FS_CardinalityType DEF Rank
      <3> HIDE DEF S, n
      <3> QED BY <1>2, <2>1, <3>1, <3>2
    <2> HIDE DEF S, n
    <2>3. IsFiniteSet(S) /\ Cardinality(S) <= n
      BY <1>2, <2>1, <2>2, RankBound
    <2> QED BY <1>4, <2>3 DEF n
  <1> QED BY <1>5, <1>6

-----------------------------------------------------------------------------
(* The work of an updater.  With updateGroupSize 1, or waiting for batches *)
(* to complete, nothing is started while something is at work: then an     *)
(* action that throws has not started other instances beside it.           *)

OneGroupAtATime == GroupSize = 1 \/ BatchStrategy

\* Somebody will look at instance i again, of which t is the active task.
Attended(i, u, t, ev, df) ==
  \/ <<i, u>> \in df
  \/ t = None /\ \E e \in ev : e[1] = i /\ ~ Present(e[2])
  \/ t # None /\ t.st \in {"PENDING", "STOPPING", "KILLING"}
  \/ t # None /\ t.st = "RUNNING" /\ <<i, Snapshot(t.cfg, "RUNNING")>> \in ev

\* Instances that have succeeded, or should have no task, are as they should be.
Achieved(tk, w) ==
  \A i \in Instances :
    w.state[i] = "SUCCEEDED" \/ (w.state[i] = "WORKING" /\ w.target[i] = None)
      => Conforms(tk[i], w.target[i])

\* The updater w works on the instructions of the update u.
Instructed(j, u, w) ==
  /\ w.target = IF w.forward THEN j.update[u].desired ELSE j.update[u].initial
  /\ \A i \in j.update[u].instances : w.state[i] # "OUT"

Sound(j, u) ==
  j.updater # None =>
    /\ Instructed(j, u, j.updater)
    /\ Cardinality(ByState(j.updater, "WORKING")) <= GroupSize
    /\ OneGroupAtATime =>
         /\ \A i \in ByState(j.updater, "WORKING") :
              Attended(i, u, j.task[i], j.events, j.deferred)
         /\ j.lock = u => Achieved(j.task, j.updater)

\* The instances of an update that are not what was wanted.
Missing(j, u, want) == {i \in j.update[u].instances : ~ Conforms(j.task[i], want[i])}

Completed(j, u) ==
  OneGroupAtATime =>
    /\ j.update[u].status = "ROLLED_FORWARD" =>
         Cardinality(Missing(j, u, j.update[u].desired)) <= MaxFailedInstances
    /\ j.update[u].status = "ROLLED_BACK" =>
         Cardinality(Missing(j, u, j.update[u].initial)) <= MaxFailedInstances

\* A transaction for u changes nothing of an update but the status of u.
Kept(j, o, u) ==
  \A v \in UpdateKeys :
    /\ v # u => o.update[v] = j.update[v]
    /\ o.update[v].instances = j.update[v].instances
    /\ o.update[v].proposed = j.update[v].proposed
    /\ o.update[v].initial = j.update[v].initial
    /\ o.update[v].desired = j.update[v].desired

Outcome(j, o, u) == Sound(o, u) /\ Completed(o, u) /\ Kept(j, o, u)

\* An action that is taken for an instance with the active task t, and that
\* has the instance looked at again.
Helps(r, t) == r = "WATCH" \/ (r = "REPLACE" /\ t = None) \/ (r = "KILL" /\ t # None)

\* What holds when the changed instances are evaluated as w.
Ready(j, u, w, effect) ==
  /\ Instructed(j, u, w)
  /\ Cardinality(ByState(w, "WORKING")) <= GroupSize
  /\ \A i \in DOMAIN effect : w.state[i] = StateAfter(effect[i])
  /\ \A i, k \in DOMAIN effect : i = k
  /\ OneGroupAtATime =>
       /\ Achieved(j.task, w)
       /\ \A i \in ByState(w, "WORKING") :
            \/ Attended(i, u, j.task[i], j.events, j.deferred)
            \/ i \in DOMAIN effect /\ Helps(effect[i], j.task[i])

(* What evaluating the active task of an instance may result in.           *)
LEMMA ResultOfTask ==
  ASSUME NEW w \in Updater, NEW i \in Instances, NEW t \in Task \cup {None}
  PROVE  LET r == Result(w, i, t)
         IN  /\ r \in {"AWAIT", "WATCH", "KILL", "REPLACE", "SUCCEEDED"}
             /\ r = "SUCCEEDED" => Conforms(t, w.target[i])
             /\ r = "AWAIT" => t # None /\ t.st \in {"PENDING", "STOPPING", "KILLING"}
             /\ r = "AWAIT" /\ w.target[i] = None => Conforms(t, w.target[i])
             /\ r = "WATCH" \/ r = "REPLACE" => w.target[i] # None
             /\ r = "REPLACE" => t = None
             /\ r = "KILL" => t # None
  <1>1. CASE t = None
    BY <1>1 DEF Result, Present, Failure, Conforms
  <1>2. CASE t # None
    <2>1. t.cfg \in Configs /\ t.cfg # None /\ t.st \in {"PENDING", "RUNNING", "STOPPING", "KILLING"}
      BY <1>2, UpdateAssumption DEF UpdateAssumption, Task, ActiveStatus
    <2>2. Present(t) /\ ~ Failure(w, i, t)
      BY <1>2, <2>1 DEF Present, Failure
    <2>3. CASE t.cfg = w.target[i]
      BY <1>2, <2>1, <2>2, <2>3 DEF Result, Conforms
    <2>4. CASE t.cfg # w.target[i]
      BY <1>2, <2>1, <2>2, <2>4 DEF Result, Killable, Conforms
    <2> QED BY <2>3, <2>4
  <1> QED BY <1>1, <1>2

(* The states of the instances when a group has been started.              *)
LEMMA StartedInstances ==
  ASSUME NEW w \in Updater, NEW group, NEW tasks
  PROVE  LET x == StartInstances(w, group, tasks)
         IN  /\ x.state = [i \in Instances |->
                  IF i \in group THEN StateAfter(Result(w, i, tasks[i])) ELSE w.state[i]]
             /\ x.forward = w.forward /\ x.target = w.target /\ x.key = w.key
  BY DEF StartInstances, Updater

(* Nothing is started beside what is at work.                              *)
LEMMA NothingStarted ==
  ASSUME NEW w \in Updater, NEW tasks, OneGroupAtATime, ByState(w, "WORKING") # {}
  PROVE  NextGroup(w, tasks) = {}
  <1>1. CASE BatchStrategy
    BY <1>1 DEF NextGroup
  <1>2. CASE GroupSize = 1
    <2>1. IsFiniteSet(ByState(w, "WORKING")) /\ IsFiniteSet(ByState(w, "IDLE"))
      BY UpdateAssumption, FS_Subset DEF UpdateAssumption, ByState
    <2>2. Cardinality(ByState(w, "WORKING")) \in Nat \ {0}
      BY <2>1, FS_CardinalityType, FS_EmptySet
    <2>3. \A i \in ByState(w, "IDLE") : Rank(w, i) \in Nat
      BY <2>1, FS_Subset, FS_CardinalityType DEF Rank
    <2>4. \A i \in ByState(w, "IDLE") : ~ (Rank(w, i) < GroupSize - Cardinality(ByState(w, "WORKING")))
      BY <1>2, <2>2, <2>3
    <2> QED BY <2>4 DEF NextGroup
  <1> QED BY <1>1, <1>2 DEF OneGroupAtATime

\* The updates, with another status of u.
WithStatus(up, u, s) == [up EXCEPT ![u] = [up[u] EXCEPT !.status = s]]

(* A change of status keeps the instructions of every update.              *)
LEMMA StatusKept ==
  ASSUME NEW j \in JobRecord, NEW u \in UpdateKeys, NEW s, NEW o,
         o.update = WithStatus(j.update, u, s)
  PROVE  Kept(j, o, u) /\ o.update[u].status = s
  <1> DEFINE x == [j.update[u] EXCEPT !.status = s]
  <1>1. j.update \in [UpdateKeys -> Update]
    BY DEF JobRecord
  <1>2. /\ x.status = s
        /\ x.instances = j.update[u].instances
        /\ x.proposed = j.update[u].proposed
        /\ x.initial = j.update[u].initial
        /\ x.desired = j.update[u].desired
    BY <1>1 DEF Update
  <1>3. o.update = [j.update EXCEPT ![u] = x]
    BY DEF WithStatus
  <1> HIDE DEF x
  <1>4. o.update[u] = x /\ \A v \in UpdateKeys \ {u} : o.update[v] = j.update[v]
    BY <1>1, <1>3
  <1> QED BY <1>2, <1>4 DEF Kept

(* An update that stops without having completed.                          *)
LEMMA StoppedOutcome ==
  ASSUME NEW j \in JobRecord, NEW u \in UpdateKeys, NEW s,
         s # "ROLLED_FORWARD", s # "ROLLED_BACK", NEW o, o = Stopped(j, u, s)
  PROVE  Outcome(j, o, u)
  <1>1. o.update = WithStatus(j.update, u, s) /\ o.updater = None
    BY StoppedFields DEF WithStatus
  <1>2. Kept(j, o, u) /\ o.update[u].status = s
    BY <1>1, StatusKept
  <1>3. Sound(o, u)
    BY <1>1 DEF Sound
  <1>4. Completed(o, u)
    BY <1>2 DEF Completed
  <1> QED BY <1>2, <1>3, <1>4 DEF Outcome

(* An update that waits for a pulse.                                       *)
LEMMA BlockedOutcome ==
  ASSUME NEW j \in JobRecord, NEW u \in UpdateKeys, NEW o \in Blocked(j, u)
  PROVE  Outcome(j, o, u)
  <1> DEFINE s == BlockedState(j.update[u].status)
             b == Stopped(j, u, s)
  <1>1. s # "ROLLED_FORWARD" /\ s # "ROLLED_BACK"
    BY DEF BlockedState
  <1>2. \/ o = b
        \/ \E e \in BOOLEAN : o = [b EXCEPT !.pulse[u].expired = e]
    BY DEF Blocked
  <1> HIDE DEF s
  <1>4. /\ b.update = WithStatus(j.update, u, s)
        /\ b.updater = None
        /\ b = [task |-> b.task, events |-> b.events, update |-> b.update, lock |-> b.lock,
                updater |-> b.updater, pulse |-> b.pulse, deferred |-> b.deferred]
    BY StoppedFields DEF WithStatus
  <1> HIDE DEF b
  <1>5. o.update = b.update /\ o.updater = None
    BY <1>2, <1>4
  <1>6. Kept(j, o, u) /\ o.update[u].status = s
    BY <1>4, <1>5, StatusKept
  <1>7. Sound(o, u)
    BY <1>5 DEF Sound
  <1>8. Completed(o, u)
    BY <1>1, <1>6 DEF Completed
  <1> QED BY <1>6, <1>7, <1>8 DEF Outcome

(* What the actions of an evaluation do to an instance.                    *)
LEMMA ActedInstances ==
  ASSUME NEW j, NEW u \in UpdateKeys, Settled(j, u), j.updater # None,
         NEW effect, DOMAIN effect \subseteq Instances, NEW o \in Act(j, effect)
  PROVE  /\ o.update = j.update /\ o.lock = j.lock /\ o.updater = j.updater
         /\ j.events \subseteq o.events /\ j.deferred \subseteq o.deferred
         /\ \A i \in Instances :
              i \notin With(effect, {"REPLACE", "KILL"}) => o.task[i] = j.task[i]
         /\ \A i \in With(effect, {"KILL"}) : o.task[i] = None \/ o.task[i].st = "KILLING"
         /\ \A i \in With(effect, {"REPLACE", "KILL", "WATCH"}) : <<i, u>> \in o.deferred
  <1>1. PICK gone : o = Acted(j, effect, TasksAfter(j, effect, gone))
    BY DEF Act
  <1> DEFINE tk == TasksAfter(j, effect, gone)
             ev == j.events \cup {<<i, tk[i]>> : i \in With(effect, {"REPLACE", "KILL"})}
             df == j.deferred \cup
                     {<<i, j.updater.key>> : i \in With(effect, {"REPLACE", "KILL", "WATCH"})}
  <1>2. j \in JobRecord /\ j.updater.key = u
    BY DEF Settled, Others
  <1>3. /\ \A i \in Instances : i \notin With(effect, {"REPLACE", "KILL"}) => tk[i] = j.task[i]
        /\ \A i \in With(effect, {"KILL"}) : tk[i] = Killed(j.task[i], i \in gone)
    BY DEF TasksAfter, With
  <1>4. \A i \in With(effect, {"KILL"}) : tk[i] = None \/ tk[i].st = "KILLING"
    <2>1. \A t, d : Killed(t, d) = None \/ Killed(t, d).st = "KILLING"
      BY DEF Killed, Snapshot
    <2> HIDE DEF tk
    <2> QED BY <1>3, <2>1
  <1> HIDE DEF tk
  <1>5. o = [task |-> tk, events |-> ev, update |-> j.update, lock |-> j.lock,
             updater |-> j.updater, pulse |-> j.pulse, deferred |-> df]
    BY <1>1, <1>2 DEF Acted, tk, JobRecord
  <1>6. \A i \in With(effect, {"REPLACE", "KILL", "WATCH"}) : <<i, u>> \in df
    BY <1>2
  <1>7. j.events \subseteq ev /\ j.deferred \subseteq df
    OBVIOUS
  <1> HIDE DEF ev, df
  <1> QED BY <1>3, <1>4, <1>5, <1>6, <1>7

(* Being attended does not end when more is to be looked at.               *)
LEMMA StillAttended ==
  ASSUME NEW i, NEW u, NEW t, NEW ev, NEW df, NEW ev2, NEW df2,
         ev \subseteq ev2, df \subseteq df2, Attended(i, u, t, ev, df)
  PROVE  Attended(i, u, t, ev2, df2)
  BY DEF Attended

(* When nothing is left to do, what is missing has failed.                 *)
LEMMA NothingLeft ==
  ASSUME NEW w \in Updater, NEW tk, NEW S \in SUBSET Instances,
         OneWayStatus(w) = "SUCCEEDED",
         \A i \in S : w.state[i] # "OUT",
         \A i \in Instances : w.state[i] = "SUCCEEDED" => Conforms(tk[i], w.target[i])
  PROVE  Cardinality({i \in S : ~ Conforms(tk[i], w.target[i])}) <= MaxFailedInstances
  <1> DEFINE M == {i \in S : ~ Conforms(tk[i], w.target[i])}
             F == ByState(w, "FAILED")
  <1>1. /\ ~ (Cardinality(F) > MaxFailedInstances)
        /\ ByState(w, "IDLE") \cup ByState(w, "WORKING") = {}
    BY DEF OneWayStatus
  <1>2. ASSUME NEW i \in M
        PROVE  i \in F
    <2>1. w.state[i] \in InstanceState
      BY DEF Updater
    <2>2. w.state[i] # "IDLE" /\ w.state[i] # "WORKING"
      BY <1>1 DEF ByState
    <2> QED BY <2>1, <2>2 DEF InstanceState, ByState
  <1>3. IsFiniteSet(F)
    BY UpdateAssumption, FS_Subset DEF UpdateAssumption, ByState
  <1> HIDE DEF M, F
  <1>4. Cardinality(M) <= Cardinality(F) /\ Cardinality(F) \in Nat /\ Cardinality(M) \in Nat
    BY <1>2, <1>3, FS_Subset, FS_CardinalityType
  <1>5. MaxFailedInstances \in Nat
    BY UpdateAssumption DEF UpdateAssumption
  <1> QED BY <1>1, <1>4, <1>5 DEF M

(* What an evaluation results in keeps the work of the updater sound.      *)
LEMMA ProceedOutcome ==
  ASSUME NEW j, NEW u \in UpdateKeys, Settled(j, u), j.updater # None, j.lock = u,
         NEW w \in Updater, w.key = u,
         NEW effect, DOMAIN effect \subseteq Instances,
         \A i \in DOMAIN effect : effect[i] = "REPLACE" => w.target[i] # None,
         Ready(j, u, w, effect),
         NEW o \in Proceed(j, u, w, effect)
  PROVE  Outcome(j, o, u)
  <1> DEFINE group == IF OneWayStatus(w) = "WORKING" THEN NextGroup(w, j.task) ELSE {}
             x == StartInstances(w, group, j.task)
             next == [j EXCEPT !.updater = x]
             effects == [i \in DOMAIN effect \cup group |->
                           IF i \in group THEN Result(w, i, j.task[i]) ELSE effect[i]]
             final == IF w.forward THEN "ROLLED_FORWARD" ELSE "ROLLED_BACK"
  <1>1. \/ OneWayStatus(next.updater) = "SUCCEEDED" /\ o = Stopped(next, u, final)
        \/ Throws(j, effect) /\ o = next
        \/ ~ Throws(j, effect) /\ o \in Act(next, effects)
    BY DEF Proceed
  <1>2. group \subseteq ByState(w, "IDLE") /\ group \subseteq Instances
    BY DEF NextGroup, ByState
  <1>3. /\ x \in Updater /\ x.key = u /\ x.target = w.target /\ x.forward = w.forward
        /\ x.state = [i \in Instances |->
             IF i \in group THEN StateAfter(Result(w, i, j.task[i])) ELSE w.state[i]]
    BY StartInstancesType, StartedInstances
  <1>4. Cardinality(ByState(x, "WORKING")) <= GroupSize
    <2>1. Cardinality(ByState(w, "WORKING")) <= GroupSize
      BY DEF Ready
    <2>2. CASE OneWayStatus(w) = "WORKING"
      BY <2>1, <2>2, GroupBounded
    <2>3. CASE OneWayStatus(w) # "WORKING"
      <3>1. group = {}
        BY <2>3
      <3>2. ByState(x, "WORKING") = ByState(w, "WORKING")
        BY <1>3, <3>1 DEF ByState
      <3> QED BY <2>1, <3>2
    <2> QED BY <2>2, <2>3
  <1>5. ASSUME OneGroupAtATime, ByState(w, "WORKING") # {}
        PROVE  group = {}
    BY <1>5, NothingStarted
  <1> HIDE DEF group
  <1> HIDE DEF x
  <1>6. /\ next \in JobRecord
        /\ next.updater = x /\ next.task = j.task /\ next.update = j.update
        /\ next.lock = u /\ next.events = j.events /\ next.deferred = j.deferred
        /\ Settled(next, u)
    <2>1. Settled(next, u)
      BY <1>3, UpdaterReplaced
    <2> QED BY <2>1 DEF Settled, JobRecord
  <1> HIDE DEF next
  <1>7. Instructed(j, u, x)
    <2>1. Instructed(j, u, w)
      BY DEF Ready
    <2>2. \A i \in j.update[u].instances : i \in Instances
      BY DEF Settled, JobRecord, Update
    <2>3. \A i \in group : x.state[i] # "OUT"
      BY <1>2, <1>3 DEF StateAfter
    <2>4. \A i \in Instances \ group : x.state[i] = w.state[i]
      BY <1>3
    <2> QED BY <1>3, <2>1, <2>2, <2>3, <2>4 DEF Instructed
  <1>8. \A i \in group :
          LET r == Result(w, i, j.task[i])
          IN  /\ r \in {"AWAIT", "WATCH", "KILL", "REPLACE", "SUCCEEDED"}
              /\ r = "SUCCEEDED" => Conforms(j.task[i], w.target[i])
              /\ r = "AWAIT" => j.task[i] # None /\ j.task[i].st \in {"PENDING", "STOPPING", "KILLING"}
              /\ r = "AWAIT" /\ w.target[i] = None => Conforms(j.task[i], w.target[i])
              /\ r = "WATCH" \/ r = "REPLACE" => w.target[i] # None
              /\ r = "REPLACE" => j.task[i] = None
              /\ r = "KILL" => j.task[i] # None
    <2>1. \A i \in group : i \in Instances /\ j.task[i] \in Task \cup {None}
      BY <1>2 DEF Settled, JobRecord
    <2> QED BY <2>1, ResultOfTask
  <1>9. ASSUME NEW i \in Instances, OneGroupAtATime, x.state[i] = "SUCCEEDED"
        PROVE  Conforms(j.task[i], x.target[i])
    <2>1. CASE i \in group
      <3>1. Result(w, i, j.task[i]) = "SUCCEEDED"
        BY <1>3, <1>8, <1>9, <2>1 DEF StateAfter
      <3> QED BY <1>3, <1>8, <2>1, <3>1
    <2>2. CASE i \notin group
      <3>1. w.state[i] = "SUCCEEDED"
        BY <1>3, <1>9, <2>2
      <3>2. Achieved(j.task, w)
        BY <1>9 DEF Ready
      <3>3. Conforms(j.task[i], w.target[i])
        BY <1>9, <3>1, <3>2 DEF Achieved
      <3> QED BY <1>3, <3>3
    <2> QED BY <2>1, <2>2
  <1>10. Kept(j, next, u)
    BY <1>6 DEF Kept
  <1>11. CASE OneWayStatus(next.updater) = "SUCCEEDED" /\ o = Stopped(next, u, final)
    <2>1. o.update = WithStatus(j.update, u, final) /\ o.updater = None /\ o.task = j.task
      BY <1>6, <1>11, StoppedFields DEF WithStatus
    <2>2. Kept(j, o, u) /\ o.update[u].status = final
      BY <2>1, StatusKept DEF Settled
    <2>3. Sound(o, u)
      BY <2>1 DEF Sound
    <2>4. Completed(o, u)
      <3>1. SUFFICES ASSUME OneGroupAtATime
                     PROVE  /\ final = "ROLLED_FORWARD" =>
                                 Cardinality(Missing(o, u, o.update[u].desired)) <= MaxFailedInstances
                            /\ final = "ROLLED_BACK" =>
                                 Cardinality(Missing(o, u, o.update[u].initial)) <= MaxFailedInstances
        BY <2>2 DEF Completed
      <3>2. x.target = IF final = "ROLLED_FORWARD" THEN o.update[u].desired ELSE o.update[u].initial
        BY <1>3, <1>7, <2>2 DEF Instructed, Kept
      <3> DEFINE S == j.update[u].instances
      <3>3. /\ S \in SUBSET Instances
            /\ \A i \in S : x.state[i] # "OUT"
        BY <1>7 DEF Settled, JobRecord, Update, Instructed
      <3>4. Cardinality({i \in S : ~ Conforms(j.task[i], x.target[i])}) <= MaxFailedInstances
        BY <1>3, <1>6, <1>9, <1>11, <3>1, <3>3, NothingLeft
      <3>5. Missing(o, u, x.target) = {i \in S : ~ Conforms(j.task[i], x.target[i])}
        BY <2>1, <2>2 DEF Missing, Kept
      <3>6. Cardinality(Missing(o, u, x.target)) <= MaxFailedInstances
        BY <3>4, <3>5
      <3> HIDE DEF S
      <3> QED BY <3>2, <3>6
    <2> QED BY <2>2, <2>3, <2>4 DEF Outcome
  <1>12. ~ (j.update[u].status = "ROLLED_FORWARD" \/ j.update[u].status = "ROLLED_BACK")
    BY DEF Settled, AUTO_RESUME_STATES
  <1>13. CASE Throws(j, effect) /\ o = next
    <2>1. PICK i \in DOMAIN effect : \/ effect[i] = "REPLACE" /\ j.task[i] # None
                                     \/ effect[i] = "KILL" /\ j.task[i] = None
      BY <1>13 DEF Throws
    <2>2. i \in ByState(w, "WORKING")
      BY <2>1 DEF Ready, StateAfter, ByState
    <2>3. Completed(o, u)
      BY <1>6, <1>12, <1>13 DEF Completed
    <2>4. ASSUME OneGroupAtATime
          PROVE  /\ \A k \in ByState(x, "WORKING") :
                      Attended(k, u, j.task[k], j.events, j.deferred)
                 /\ Achieved(j.task, x)
      <3>1. \A k \in Instances : x.state[k] = w.state[k]
        BY <1>3, <1>5, <2>2, <2>4
      <3>2. ASSUME NEW k \in ByState(x, "WORKING")
            PROVE  Attended(k, u, j.task[k], j.events, j.deferred)
        <4>1. k \in ByState(w, "WORKING")
          BY <3>1 DEF ByState
        <4>2. k \in DOMAIN effect => k = i
          BY DEF Ready
        <4>3. ~ Helps(effect[i], j.task[i])
          BY <2>1 DEF Helps
        <4> QED BY <2>4, <4>1, <4>2, <4>3 DEF Ready
      <3>3. Achieved(j.task, w)
        BY <2>4 DEF Ready
      <3>4. Achieved(j.task, x)
        BY <1>3, <3>1, <3>3 DEF Achieved
      <3> QED BY <3>2, <3>4
    <2>5. Sound(o, u)
      <3>1. Instructed(next, u, x)
        BY <1>6, <1>7 DEF Instructed
      <3> QED BY <1>4, <1>6, <1>13, <2>4, <3>1 DEF Sound
    <2> QED BY <1>10, <1>13, <2>3, <2>5 DEF Outcome
  <1>14. CASE ~ Throws(j, effect) /\ o \in Act(next, effects)
    <2>1. DOMAIN effects = DOMAIN effect \cup group /\ DOMAIN effects \subseteq Instances
      BY <1>2
    <2>2. \A i \in DOMAIN effect : i \notin group /\ effects[i] = effect[i]
      <3>1. \A i \in DOMAIN effect : w.state[i] # "IDLE"
        BY DEF Ready, StateAfter
      <3> QED BY <1>2, <3>1 DEF ByState
    <2>3. \A i \in group : effects[i] = Result(w, i, j.task[i])
      OBVIOUS
    <2> HIDE DEF effects
    <2>4. /\ o.update = next.update /\ o.lock = next.lock /\ o.updater = next.updater
          /\ next.events \subseteq o.events /\ next.deferred \subseteq o.deferred
          /\ \A i \in Instances :
               i \notin With(effects, {"REPLACE", "KILL"}) => o.task[i] = next.task[i]
          /\ \A i \in With(effects, {"KILL"}) : o.task[i] = None \/ o.task[i].st = "KILLING"
          /\ \A i \in With(effects, {"REPLACE", "KILL", "WATCH"}) : <<i, u>> \in o.deferred
      <3>1. next.updater # None
        BY <1>3, <1>6, NoneAssumption
      <3> QED BY <1>6, <1>14, <2>1, <3>1, ActedInstances
    <2>5. Kept(j, o, u) /\ Completed(o, u)
      BY <1>6, <1>12, <2>4 DEF Kept, Completed
    <2>6. \A i \in DOMAIN effects : x.state[i] = StateAfter(effects[i])
      <3>1. \A i \in DOMAIN effect : w.state[i] = StateAfter(effect[i])
        BY DEF Ready
      <3> QED BY <1>2, <1>3, <2>1, <2>2, <2>3, <3>1
    <2>7. ASSUME NEW i \in ByState(x, "WORKING"), OneGroupAtATime
          PROVE  Attended(i, u, o.task[i], o.events, o.deferred)
      <3>1. i \in Instances /\ x.state[i] = "WORKING"
        BY DEF ByState
      <3>2. CASE i \in With(effects, {"REPLACE", "KILL", "WATCH"})
        BY <2>4, <3>2 DEF Attended
      <3>3. CASE i \notin With(effects, {"REPLACE", "KILL", "WATCH"})
        <4>1. o.task[i] = j.task[i]
          BY <1>6, <2>4, <3>1, <3>3 DEF With
        <4>2. CASE i \in group
          <5>1. effects[i] = "AWAIT"
            BY <1>3, <1>8, <2>1, <2>3, <3>1, <3>3, <4>2 DEF With, StateAfter
          <5> QED BY <1>8, <2>3, <4>1, <4>2, <5>1 DEF Attended
        <4>3. CASE i \notin group
          <5>1. i \in ByState(w, "WORKING")
            BY <1>3, <3>1, <4>3 DEF ByState
          <5>2. i \in DOMAIN effect => ~ Helps(effect[i], j.task[i])
            BY <2>1, <2>2, <3>3 DEF With, Helps
          <5>3. Attended(i, u, j.task[i], j.events, j.deferred)
            BY <2>7, <5>1, <5>2 DEF Ready
          <5> QED BY <1>6, <2>4, <4>1, <5>3, StillAttended
        <4> QED BY <4>2, <4>3
      <3> QED BY <3>2, <3>3
    <2>8. ASSUME OneGroupAtATime, NEW i \in Instances,
                 x.state[i] = "SUCCEEDED" \/ (x.state[i] = "WORKING" /\ x.target[i] = None)
          PROVE  Conforms(o.task[i], x.target[i])
      <3>1. CASE i \in With(effects, {"KILL"})
        <4>1. x.state[i] = "WORKING"
          BY <2>6, <3>1 DEF With, StateAfter
        <4> QED BY <2>4, <2>8, <3>1, <4>1 DEF Conforms
      <3>2. CASE i \in With(effects, {"REPLACE"})
        <4>1. x.state[i] = "WORKING"
          BY <2>6, <3>2 DEF With, StateAfter
        <4>2. x.target[i] # None
          BY <1>3, <1>8, <2>1, <2>2, <2>3, <3>2 DEF With
        <4> QED BY <2>8, <4>1, <4>2
      <3>3. CASE i \notin With(effects, {"REPLACE", "KILL"})
        <4>1. o.task[i] = j.task[i]
          BY <1>6, <2>4, <3>3
        <4>2. CASE x.state[i] = "SUCCEEDED"
          BY <1>9, <2>8, <4>1, <4>2
        <4>3. CASE x.state[i] = "WORKING" /\ x.target[i] = None /\ i \in group
          <5>1. effects[i] = "AWAIT"
            BY <1>3, <1>8, <2>1, <2>3, <3>3, <4>3 DEF With, StateAfter
          <5> QED BY <1>3, <1>8, <2>3, <4>1, <4>3, <5>1
        <4>4. CASE x.state[i] = "WORKING" /\ x.target[i] = None /\ i \notin group
          <5>1. w.state[i] = "WORKING" /\ w.target[i] = None
            BY <1>3, <4>4
          <5> QED BY <1>3, <2>8, <4>1, <5>1 DEF Ready, Achieved
        <4> QED BY <2>8, <4>2, <4>3, <4>4
      <3> QED BY <3>1, <3>2, <3>3 DEF With
    <2>9. Sound(o, u)
      <3>1. Instructed(o, u, x)
        BY <1>6, <1>7, <2>4 DEF Instructed
      <3>2. OneGroupAtATime => Achieved(o.task, x)
        BY <2>8 DEF Achieved
      <3> QED BY <1>4, <1>6, <2>4, <2>7, <3>1, <3>2 DEF Sound
    <2> QED BY <2>5, <2>9 DEF Outcome
  <1> QED BY <1>1, <1>11, <1>13, <1>14

(* A new updater starts with nothing done.                                 *)
LEMMA RollingOutcome ==
  ASSUME NEW j, NEW u \in UpdateKeys, Open(j, u), NEW s \in AUTO_RESUME_STATES,
         NEW o \in Rolling(j, u, s)
  PROVE  Outcome(j, o, u)
  <1> DEFINE r == Started(j, u, s)
  <1>1. Settled(r, u)
    BY StartedSettled
  <1>2. /\ j \in JobRecord
        /\ r.update = WithStatus(j.update, u, s)
        /\ r.updater = NewUpdater(u, j.update[u], s = "ROLLING_FORWARD")
        /\ r.lock = j.lock
    BY StartedFields DEF WithStatus, Open
  <1>3. o \in FirstEvaluation(r, u)
    BY DEF Rolling, Started
  <1> HIDE DEF r
  <1>4. Kept(j, r, u) /\ r.update[u].status = s
    BY <1>2, StatusKept
  <1>5. r.updater # None
    BY <1>1, <1>4 DEF Settled
  <1>6. /\ Open(r, u)
        /\ r \in JobRecord
        /\ r.updater \in Updater
        /\ r.updater.key = u
    BY <1>1, <1>5, SettledRolling DEF Settled
  <1>7. \/ o = Stopped(r, u, "ERROR")
        \/ o \in Blocked(r, u)
        \/ r.lock = u /\ o \in Proceed(r, u, r.updater, << >>)
    BY <1>3 DEF FirstEvaluation
  <1>8. Outcome(r, o, u)
    <2>1. CASE o = Stopped(r, u, "ERROR")
      BY <1>6, <2>1, StoppedOutcome
    <2>2. CASE o \in Blocked(r, u)
      BY <1>6, <2>2, BlockedOutcome
    <2>3. CASE r.lock = u /\ o \in Proceed(r, u, r.updater, << >>)
      <3>1. DOMAIN << >> = {}
        OBVIOUS
      <3>2. /\ \A i \in Instances : r.updater.state[i] \in {"IDLE", "OUT"}
            /\ \A i \in j.update[u].instances : r.updater.state[i] # "OUT"
            /\ r.updater.forward = (s = "ROLLING_FORWARD")
            /\ r.updater.target = IF s = "ROLLING_FORWARD" THEN j.update[u].desired
                                  ELSE j.update[u].initial
        <4>1. j.update[u].instances \subseteq Instances
          BY <1>2 DEF JobRecord, Update
        <4> QED BY <1>2, <4>1 DEF NewUpdater
      <3>3. Instructed(r, u, r.updater)
        BY <1>4, <3>2 DEF Instructed, Kept
      <3>4. ByState(r.updater, "WORKING") = {}
        BY <3>2 DEF ByState
      <3>5. Cardinality(ByState(r.updater, "WORKING")) <= GroupSize
        <4>1. Cardinality(ByState(r.updater, "WORKING")) = 0
          BY <3>4, FS_EmptySet
        <4>2. GroupSize \in Nat
          BY UpdateAssumption DEF UpdateAssumption
        <4> QED BY <4>1, <4>2
      <3>6. Achieved(r.task, r.updater)
        BY <3>2 DEF Achieved
      <3>7. Ready(r, u, r.updater, << >>)
        BY <3>1, <3>3, <3>4, <3>5, <3>6 DEF Ready
      <3>8. DOMAIN << >> \subseteq Instances
        BY <3>1
      <3>9. \A i \in DOMAIN << >> : << >>[i] = "REPLACE" => r.updater.target[i] # None
        BY <3>1
      <3> QED BY <1>1, <1>5, <1>6, <2>3, <3>7, <3>8, <3>9, ProceedOutcome
    <2> QED BY <1>7, <2>1, <2>2, <2>3
  <1>9. Kept(j, o, u)
    BY <1>4, <1>8 DEF Outcome, Kept
  <1> QED BY <1>8, <1>9 DEF Outcome

(* changeJobUpdateStatus.                                                  *)
LEMMA ChangeStatusOutcome ==
  ASSUME NEW j, NEW u \in UpdateKeys, Open(j, u), NEW s,
         s # "ROLLED_FORWARD", s # "ROLLED_BACK",
         s \in AUTO_RESUME_STATES => j.updater = None,
         NEW o \in ChangeStatus(j, u, s)
  PROVE  Outcome(j, o, u)
  <1>1. \/ o = Stopped(j, u, "ERROR")
        \/ o = Stopped(j, u, s)
        \/ s \in AUTO_RESUME_STATES /\ o \in Rolling(j, u, s)
    BY DEF ChangeStatus
  <1>2. j \in JobRecord
    BY DEF Open
  <1>3. CASE o = Stopped(j, u, "ERROR")
    BY <1>2, <1>3, StoppedOutcome
  <1>4. CASE o = Stopped(j, u, s)
    BY <1>2, <1>4, StoppedOutcome
  <1>5. CASE s \in AUTO_RESUME_STATES /\ o \in Rolling(j, u, s)
    BY <1>5, RollingOutcome
  <1> QED BY <1>1, <1>3, <1>4, <1>5

(* The updater after an evaluation of one instance.                        *)
LEMMA EvaluatedInstances ==
  ASSUME NEW w \in Updater, NEW i \in Instances, NEW t
  PROVE  LET x == EvaluateInstance(w, i, t)
         IN  /\ x.forward = w.forward
             /\ x.state = IF w.state[i] # "WORKING" THEN w.state
                          ELSE [w.state EXCEPT ![i] = StateAfter(Result(w, i, t))]
  <1> DEFINE st == [w.state EXCEPT ![i] = StateAfter(Result(w, i, t))]
             fl == [w.failures EXCEPT ![i] = IF Failure(w, i, t) THEN w.failures[i] + 1
                                             ELSE w.failures[i]]
  <1>1. EvaluateInstance(w, i, t) = IF w.state[i] # "WORKING" THEN w
                                    ELSE [[w EXCEPT !.state = st] EXCEPT !.failures = fl]
    BY DEF EvaluateInstance, Updater
  <1> HIDE DEF st, fl
  <1>2. /\ EvaluateInstance(w, i, t).forward = w.forward
        /\ EvaluateInstance(w, i, t).state = IF w.state[i] # "WORKING" THEN w.state ELSE st
    BY <1>1 DEF Updater
  <1> QED BY <1>2 DEF st

\* What is known of instance i in an evaluation: the active task, or a notice
\* that has been taken from what is to be delivered.
Noticed(j, u, i, t) ==
  /\ \A k \in ByState(j.updater, "WORKING") \ {i} :
       Attended(k, u, j.task[k], j.events, j.deferred)
  /\ \/ t = j.task[i]
     \/ /\ t \in Event \cup {None}
        /\ j.updater.state[i] = "WORKING" =>
             Attended(i, u, j.task[i], j.events \cup {<<i, t>>}, j.deferred)

(* Whatever an instance at work is seen as, it is looked at again, or an   *)
(* action is taken for it that has it looked at again.                     *)
LEMMA NoticeAttended ==
  ASSUME NEW w \in Updater, NEW i \in Instances, NEW u, NEW tk \in Task \cup {None},
         NEW ev, NEW df, NEW t \in Event \cup {None},
         Attended(i, u, tk, ev \cup {<<i, t>>}, df),
         StateAfter(Result(w, i, t)) = "WORKING",
         ~ Attended(i, u, tk, ev, df)
  PROVE  Helps(Result(w, i, t), tk)
  <1>1. \/ tk = None /\ ~ Present(t)
        \/ tk # None /\ tk.st = "RUNNING" /\ t = Snapshot(tk.cfg, "RUNNING")
    BY DEF Attended
  <1>2. CASE tk = None /\ ~ Present(t)
    <2>1. w.target[i] # None
      BY <1>2 DEF Result, Failure, StateAfter
    <2>2. Result(w, i, t) = "REPLACE"
      BY <1>2, <2>1 DEF Result, Failure
    <2> QED BY <1>2, <2>2 DEF Helps
  <1>3. CASE tk # None /\ tk.st = "RUNNING" /\ t = Snapshot(tk.cfg, "RUNNING")
    <2>1. t.st = "RUNNING" /\ t.stable = FALSE
      BY <1>3 DEF Snapshot
    <2>2. t # None
      <3>1. tk.cfg \in Configs
        BY <1>3 DEF Task
      <3>2. t \in Task
        BY <1>3, <3>1 DEF Snapshot, Task, ActiveStatus
      <3> QED BY <3>2, NoneAssumption
    <2>3. Result(w, i, t) \in {"WATCH", "KILL"}
      BY <2>1, <2>2 DEF Result, Failure, Present, Killable
    <2> QED BY <1>3, <2>3 DEF Helps
  <1> QED BY <1>1, <1>2, <1>3

(* An event has no task that is stable.                                    *)
LEMMA EventResult ==
  ASSUME NEW w \in Updater, NEW i \in Instances, NEW t \in Event \cup {None},
         Result(w, i, t) = "SUCCEEDED"
  PROVE  w.target[i] = None
  <1>1. CASE t = None
    BY <1>1 DEF Result, Present, Failure
  <1>2. CASE t # None
    <2>1. /\ t.st \in {"PENDING", "RUNNING", "STOPPING", "KILLING", "ENDED", "KILLED"}
          /\ t.stable = FALSE
      BY <1>2 DEF Event, ActiveStatus
    <2> QED BY <1>2, <2>1 DEF Result, Present, Failure, Killable
  <1> QED BY <1>1, <1>2

(* evaluateUpdater after a change of an instance.                          *)
LEMMA EvaluateOutcome ==
  ASSUME NEW j, NEW u \in UpdateKeys, Settled(j, u), j.updater # None,
         NEW i \in Instances, NEW t \in Task \cup Event \cup {None},
         Instructed(j, u, j.updater),
         Cardinality(ByState(j.updater, "WORKING")) <= GroupSize,
         OneGroupAtATime => /\ Noticed(j, u, i, t)
                            /\ j.lock = u => Achieved(j.task, j.updater),
         NEW o \in Evaluate(j, u, i, t)
  PROVE  Outcome(j, o, u)
  <1> DEFINE v == j.updater
             r == Result(v, i, t)
             w == EvaluateInstance(v, i, t)
             effect == [k \in {i} \cap ByState(v, "WORKING") |-> r]
  <1>1. /\ Open(j, u)
        /\ v \in Updater
        /\ v.key = u
        /\ j \in JobRecord
    BY SettledRolling DEF Open
  <1>2. /\ w \in Updater
        /\ w.key = u
        /\ w.target = v.target
        /\ w.forward = v.forward
        /\ w.state = IF v.state[i] # "WORKING" THEN v.state
                     ELSE [v.state EXCEPT ![i] = StateAfter(r)]
    BY <1>1, EvaluateInstanceType, EvaluatedInstances
  <1>3. \/ o = Stopped(j, u, "ERROR")
        \/ o \in Blocked(j, u)
        \/ j.lock = u /\ o \in Proceed(j, u, w, effect)
        \/ o \in Rolling(j, u, "ROLLING_BACK")
        \/ o = Stopped(j, u, "FAILED")
    BY DEF Evaluate
  <1> HIDE DEF w, v
  <1>4. CASE o = Stopped(j, u, "ERROR")
    BY <1>1, <1>4, StoppedOutcome
  <1>5. CASE o = Stopped(j, u, "FAILED")
    BY <1>1, <1>5, StoppedOutcome
  <1>6. CASE o \in Blocked(j, u)
    BY <1>1, <1>6, BlockedOutcome
  <1>7. CASE o \in Rolling(j, u, "ROLLING_BACK")
    BY <1>1, <1>7, RollingOutcome DEF AUTO_RESUME_STATES
  <1>8. CASE j.lock = u /\ o \in Proceed(j, u, w, effect)
    <2>1. /\ DOMAIN effect = {i} \cap ByState(v, "WORKING")
          /\ DOMAIN effect \subseteq Instances
          /\ \A k \in DOMAIN effect : k = i /\ v.state[i] = "WORKING" /\ effect[k] = r
      BY DEF ByState
    <2>2. \A k \in DOMAIN effect : effect[k] = "REPLACE" => w.target[k] # None
      BY <1>1, <1>2, <2>1, ResultFacts
    <2> HIDE DEF effect
    <2>3. v.state \in [Instances -> InstanceState]
      BY <1>1 DEF Updater
    <2>4. /\ \A k \in Instances \ {i} : w.state[k] = v.state[k]
          /\ v.state[i] # "WORKING" => w.state[i] = v.state[i]
          /\ v.state[i] = "WORKING" => w.state[i] = StateAfter(r)
      BY <1>2, <2>3
    <2>5. Instructed(j, u, w)
      <3>1. Instructed(j, u, v)
        BY DEF v
      <3>2. j.update[u].instances \subseteq Instances
        BY <1>1 DEF JobRecord, Update
      <3>3. StateAfter(r) # "OUT"
        BY DEF StateAfter
      <3> QED BY <1>2, <2>4, <3>1, <3>2, <3>3 DEF Instructed
    <2>6. Cardinality(ByState(w, "WORKING")) <= GroupSize
      <3>1. ByState(w, "WORKING") \subseteq ByState(v, "WORKING")
        BY <2>4 DEF ByState
      <3>2. IsFiniteSet(ByState(v, "WORKING"))
        BY UpdateAssumption, FS_Subset DEF UpdateAssumption, ByState
      <3>3. /\ Cardinality(ByState(w, "WORKING")) <= Cardinality(ByState(v, "WORKING"))
            /\ Cardinality(ByState(w, "WORKING")) \in Nat
            /\ Cardinality(ByState(v, "WORKING")) \in Nat
        BY <3>1, <3>2, FS_Subset, FS_CardinalityType
      <3>4. Cardinality(ByState(v, "WORKING")) <= GroupSize /\ GroupSize \in Nat
        BY UpdateAssumption DEF v, UpdateAssumption
      <3> QED BY <3>3, <3>4
    <2>7. /\ \A k \in DOMAIN effect : w.state[k] = StateAfter(effect[k])
          /\ \A k, l \in DOMAIN effect : k = l
      BY <2>1, <2>4
    <2>8. j.task[i] \in Task \cup {None}
      BY <1>1 DEF JobRecord
    <2>9. ASSUME OneGroupAtATime, NEW k \in Instances,
                 w.state[k] = "SUCCEEDED" \/ (w.state[k] = "WORKING" /\ w.target[k] = None)
          PROVE  Conforms(j.task[k], w.target[k])
      <3>1. Achieved(j.task, v)
        BY <1>8, <2>9 DEF v
      <3>2. CASE \/ v.state[k] = "SUCCEEDED"
                 \/ v.state[k] = "WORKING" /\ v.target[k] = None
        BY <1>2, <2>9, <3>1, <3>2 DEF Achieved
      <3>3. CASE ~ \/ v.state[k] = "SUCCEEDED"
                   \/ v.state[k] = "WORKING" /\ v.target[k] = None
        <4>1. k = i /\ v.state[i] = "WORKING" /\ v.target[i] # None /\ w.state[i] = "SUCCEEDED"
          BY <1>2, <2>4, <2>9, <3>3
        <4>2. r = "SUCCEEDED"
          BY <2>4, <4>1 DEF StateAfter
        <4>3. ~ (t \in Event \cup {None})
          BY <1>1, <4>1, <4>2, EventResult
        <4>4. t = j.task[i]
          BY <2>9, <4>3 DEF Noticed
        <4>5. Conforms(j.task[i], v.target[i])
          BY <1>1, <2>8, <4>2, <4>4, ResultOfTask
        <4> QED BY <1>2, <4>1, <4>5
      <3> QED BY <3>2, <3>3
    <2>10. ASSUME OneGroupAtATime, NEW k \in ByState(w, "WORKING")
           PROVE  \/ Attended(k, u, j.task[k], j.events, j.deferred)
                  \/ k \in DOMAIN effect /\ Helps(effect[k], j.task[k])
      <3>1. k \in Instances /\ v.state[k] = "WORKING"
        BY <2>4 DEF ByState
      <3>2. CASE k # i
        BY <2>10, <3>1, <3>2 DEF Noticed, ByState, v
      <3>3. CASE k = i
        <4>1. /\ i \in DOMAIN effect
              /\ effect[i] = r
              /\ StateAfter(r) = "WORKING"
          BY <2>1, <2>4, <3>1, <3>3 DEF ByState
        <4>2. CASE t = j.task[i]
          <5>1. /\ r \in {"AWAIT", "WATCH", "KILL", "REPLACE", "SUCCEEDED"}
                /\ r = "AWAIT" => j.task[i] # None /\ j.task[i].st \in {"PENDING", "STOPPING", "KILLING"}
                /\ r = "REPLACE" => j.task[i] = None
                /\ r = "KILL" => j.task[i] # None
            BY <1>1, <2>8, <4>2, ResultOfTask
          <5>2. r # "SUCCEEDED"
            BY <4>1 DEF StateAfter
          <5>3. CASE r = "AWAIT"
            BY <3>3, <5>1, <5>3 DEF Attended
          <5>4. CASE r # "AWAIT"
            BY <3>3, <4>1, <5>1, <5>2, <5>4 DEF Helps
          <5> QED BY <5>3, <5>4
        <4>3. CASE t # j.task[i]
          <5>1. /\ t \in Event \cup {None}
                /\ Attended(i, u, j.task[i], j.events \cup {<<i, t>>}, j.deferred)
            BY <2>10, <3>1, <3>3, <4>3 DEF Noticed, v
          <5>2. \/ Attended(i, u, j.task[i], j.events, j.deferred)
                \/ Helps(r, j.task[i])
            BY <1>1, <2>8, <4>1, <5>1, NoticeAttended
          <5> QED BY <3>3, <4>1, <5>2
        <4> QED BY <4>2, <4>3
      <3> QED BY <3>2, <3>3
    <2>11. OneGroupAtATime => Achieved(j.task, w)
      BY <2>9 DEF Achieved
    <2>12. Ready(j, u, w, effect)
      BY <2>5, <2>6, <2>7, <2>10, <2>11 DEF Ready
    <2> QED BY <1>2, <1>8, <2>1, <2>2, <2>12, ProceedOutcome
  <1> QED BY <1>3, <1>4, <1>5, <1>6, <1>7, <1>8

-----------------------------------------------------------------------------
(* The invariant of the work, and what a step delivers.                    *)

\* An update without a scope wants of its instances what the request asks for.
Asked(up) ==
  Scopes \subseteq {{}} =>
    \A u \in UpdateKeys : \A i \in up[u].instances : up[u].desired[i] = up[u].proposed[i]

WorkInv ==
  /\ updater # None => Sound(Job, updater.key)
  /\ Asked(update)

\* What an update that completes in this step has made of its instances.
Delivered ==
  \A u \in UpdateKeys :
    OneGroupAtATime /\ update'[u].status # update[u].status =>
      /\ update'[u].status = "ROLLED_FORWARD" =>
           Cardinality({i \in update'[u].instances : ~ Conforms(task'[i], update'[u].desired[i])})
             <= MaxFailedInstances
      /\ update'[u].status = "ROLLED_BACK" =>
           Cardinality({i \in update'[u].instances : ~ Conforms(task'[i], update'[u].initial[i])})
             <= MaxFailedInstances

(* A transaction with a sound outcome is committed.                        *)
LEMMA CommitOutcome ==
  ASSUME NEW j, NEW o, NEW u \in UpdateKeys, Settled(o, u), Outcome(j, o, u), Commit(o),
         Asked(j.update), \A v \in UpdateKeys \ {u} : j.update[v] = update[v]
  PROVE  WorkInv' /\ Delivered
  <1>1. o \in JobRecord /\ (o.updater # None => o.updater.key = u)
    BY DEF Settled, Others
  <1>2. /\ task' = o.task /\ events' = o.events /\ update' = o.update /\ lock' = o.lock
        /\ updater' = o.updater /\ pulse' = o.pulse /\ deferred' = o.deferred
    BY DEF Commit
  <1>3. Job' = o
    BY <1>1, <1>2 DEF Job, JobRecord
  <1>4. (updater # None => Sound(Job, updater.key))'
    BY <1>1, <1>2, <1>3 DEF Outcome
  <1>5. Asked(update)'
    BY <1>2 DEF Outcome, Kept, Asked
  <1>6. Delivered
    <2>1. \A v \in UpdateKeys \ {u} : update'[v] = update[v]
      BY <1>2 DEF Outcome, Kept
    <2>2. OneGroupAtATime =>
            /\ update'[u].status = "ROLLED_FORWARD" =>
                 Cardinality({i \in update'[u].instances :
                                ~ Conforms(task'[i], update'[u].desired[i])}) <= MaxFailedInstances
            /\ update'[u].status = "ROLLED_BACK" =>
                 Cardinality({i \in update'[u].instances :
                                ~ Conforms(task'[i], update'[u].initial[i])}) <= MaxFailedInstances
      BY <1>2 DEF Outcome, Completed, Missing
    <2> QED BY <2>1, <2>2 DEF Delivered
  <1> QED BY <1>4, <1>5, <1>6 DEF WorkInv

(* A step that leaves updates and updater alone.                           *)
LEMMA QuietStep ==
  ASSUME WorkInv, UNCHANGED <<update, updater>>,
         updater # None =>
           /\ \A k \in ByState(updater, "WORKING") :
                Attended(k, updater.key, task[k], events, deferred) =>
                  Attended(k, updater.key, task'[k], events', deferred')
           /\ lock' = updater.key =>
                /\ lock = updater.key
                /\ \A k \in Instances : \A c : Conforms(task[k], c) => Conforms(task'[k], c)
  PROVE  WorkInv' /\ Delivered
  <1>1. Delivered
    BY DEF Delivered
  <1>2. Asked(update)'
    BY DEF WorkInv, Asked
  <1>3. ASSUME updater # None
        PROVE  Sound(Job, updater.key)'
    <2>1. /\ Instructed(Job, updater.key, updater)
          /\ Cardinality(ByState(updater, "WORKING")) <= GroupSize
          /\ OneGroupAtATime =>
               /\ \A i \in ByState(updater, "WORKING") :
                    Attended(i, updater.key, task[i], events, deferred)
               /\ lock = updater.key => Achieved(task, updater)
      BY <1>3, JobFields DEF WorkInv, Sound
    <2>2. /\ (Job.task)' = task' /\ (Job.events)' = events' /\ (Job.update)' = update
          /\ (Job.lock)' = lock' /\ (Job.updater)' = updater /\ (Job.deferred)' = deferred'
      BY DEF Job
    <2>3. Instructed(Job, updater.key, updater)'
      BY <2>1, JobFields, <2>2 DEF Instructed
    <2>4. OneGroupAtATime =>
            /\ \A i \in ByState(updater, "WORKING") :
                 Attended(i, updater.key, task'[i], events', deferred')
            /\ lock' = updater.key => Achieved(task', updater)
      BY <1>3, <2>1 DEF Achieved
    <2> QED BY <2>1, <2>2, <2>3, <2>4 DEF Sound
  <1> QED BY <1>1, <1>2, <1>3 DEF WorkInv

(* The change of a task keeps the instance attended, and as it should be.  *)
LEMMA TaskChange ==
  ASSUME JobInv, WorkInv, NEW i \in Instances, NEW t, NEW report, SetTask(i, t, report),
         \A u : Attended(i, u, task[i], events, deferred) =>
                  Attended(i, u, t, events \cup report, deferred),
         lock \in UpdateKeys => \A c : Conforms(task[i], c) => Conforms(t, c)
  PROVE  WorkInv' /\ Delivered
  <1>1. /\ task' = [task EXCEPT ![i] = t]
        /\ events' = events \cup report
        /\ UNCHANGED <<update, lock, updater, pulse, deferred, unblocks>>
    BY DEF SetTask
  <1>2. task' = [k \in Instances |-> IF k = i THEN t ELSE task[k]]
    BY <1>1 DEF JobInv, JobTypeOK
  <1>3. ASSUME updater # None
        PROVE  /\ \A k \in ByState(updater, "WORKING") :
                    Attended(k, updater.key, task[k], events, deferred) =>
                      Attended(k, updater.key, task'[k], events', deferred')
               /\ lock' = updater.key =>
                    /\ lock = updater.key
                    /\ \A k \in Instances : \A c : Conforms(task[k], c) => Conforms(task'[k], c)
    <2>1. ASSUME NEW k \in ByState(updater, "WORKING"),
                 Attended(k, updater.key, task[k], events, deferred)
          PROVE  Attended(k, updater.key, task'[k], events', deferred')
      <3>1. k \in Instances
        BY DEF ByState
      <3>2. CASE k = i
        BY <1>1, <1>2, <2>1, <3>1, <3>2
      <3>3. CASE k # i
        <4>1. task'[k] = task[k]
          BY <1>2, <3>1, <3>3
        <4> QED BY <1>1, <2>1, <4>1, StillAttended
      <3> QED BY <3>2, <3>3
    <2>2. updater.key \in UpdateKeys
      BY <1>3 DEF JobInv, JobTypeOK, Updater
    <2>3. ASSUME lock' = updater.key, NEW k \in Instances, NEW c, Conforms(task[k], c)
          PROVE  Conforms(task'[k], c)
      BY <1>1, <1>2, <2>2, <2>3
    <2> QED BY <1>1, <2>1, <2>3
  <1> QED BY <1>1, <1>3, QuietStep

(* What the tasks and the clients of the job do to the work.               *)
LEMMA TaskWork ==
  ASSUME JobInv, WorkInv, NEW i \in Instances, TaskActs(i)
  PROVE  WorkInv' /\ Delivered
  <1>1. ASSUME NEW c \in Configs, NEW st
        PROVE  Snapshot(c, st).st = st /\ Snapshot(c, st).cfg = c
    BY DEF Snapshot
  <1>2. ASSUME NEW c \in Configs, NEW st \in ActiveStatus
        PROVE  Snapshot(c, st) # None
    <2>1. Snapshot(c, st) \in Task
      BY DEF Snapshot, Task
    <2> QED BY <2>1, NoneAssumption
  <1>3. task[i] # None => task[i] \in Task /\ task[i].cfg \in Configs
    BY DEF JobInv, JobTypeOK, Task
  <1>4. lock \in {None, Client} => lock \notin UpdateKeys
    BY UpdateAssumption DEF UpdateAssumption
  <1>5. CASE TaskRuns(i)
    <2> DEFINE t == Snapshot(task[i].cfg, "RUNNING")
    <2>1. task[i] # None /\ task[i].st = "PENDING" /\ SetTask(i, t, {<<i, t>>})
      BY <1>5 DEF TaskRuns
    <2>2. t # None /\ t.st = "RUNNING" /\ t.cfg = task[i].cfg
      BY <1>1, <1>2, <1>3, <2>1 DEF ActiveStatus
    <2>3. t = Snapshot(t.cfg, "RUNNING")
      BY <2>2
    <2> HIDE DEF t
    <2>4. \A u : Attended(i, u, t, events \cup {<<i, t>>}, deferred)
      BY <2>2, <2>3 DEF Attended
    <2>5. \A c : Conforms(task[i], c) => Conforms(t, c)
      BY <2>1, <2>2 DEF Conforms
    <2> QED BY <2>1, <2>4, <2>5, TaskChange
  <1>6. CASE TaskStable(i)
    <2> DEFINE t == [task[i] EXCEPT !.stable = TRUE]
    <2>1. task[i] # None /\ task[i].st = "RUNNING" /\ SetTask(i, t, {})
      BY <1>6 DEF TaskStable
    <2>2. t \in Task /\ t.st = "RUNNING" /\ t.cfg = task[i].cfg
      BY <1>3, <2>1 DEF Task
    <2>3. t # None
      BY <2>2, NoneAssumption
    <2> HIDE DEF t
    <2>4. \A u : Attended(i, u, task[i], events, deferred) =>
                   Attended(i, u, t, events \cup {}, deferred)
      BY <2>1, <2>2, <2>3 DEF Attended
    <2>5. \A c : Conforms(task[i], c) => Conforms(t, c)
      BY <2>1, <2>2, <2>3 DEF Conforms
    <2> QED BY <2>1, <2>4, <2>5, TaskChange
  <1>7. CASE TaskEnds(i)
    <2> DEFINE t == Snapshot(task[i].cfg, "PENDING")
               report == {<<i, Snapshot(task[i].cfg, s)>> : s \in {"ENDED", "PENDING"}}
    <2>1. task[i] # None /\ task[i].st \in {"PENDING", "RUNNING", "STOPPING"} /\ SetTask(i, t, report)
      BY <1>7 DEF TaskEnds, Killable
    <2>2. t # None /\ t.st = "PENDING" /\ t.cfg = task[i].cfg
      BY <1>1, <1>2, <1>3, <2>1 DEF ActiveStatus
    <2> HIDE DEF t, report
    <2>3. \A u : Attended(i, u, t, events \cup report, deferred)
      BY <2>2 DEF Attended
    <2>4. \A c : Conforms(task[i], c) => Conforms(t, c)
      BY <2>1, <2>2 DEF Conforms
    <2> QED BY <2>1, <2>3, <2>4, TaskChange
  <1>8. CASE TaskKilled(i)
    <2> DEFINE k == Snapshot(task[i].cfg, "KILLED")
    <2>1. task[i] # None /\ task[i].st = "KILLING" /\ SetTask(i, None, {<<i, k>>})
      BY <1>8 DEF TaskKilled
    <2>2. ~ Present(k)
      BY <1>1, <1>3, <2>1 DEF Present
    <2> HIDE DEF k
    <2>3. \A u : Attended(i, u, None, events \cup {<<i, k>>}, deferred)
      <3>1. \E e \in events \cup {<<i, k>>} : e[1] = i /\ ~ Present(e[2])
        <4>1. <<i, k>>[1] = i /\ <<i, k>>[2] = k
          OBVIOUS
        <4>2. ~ Present(<<i, k>>[2])
          BY <2>2, <4>1
        <4> WITNESS <<i, k>> \in events \cup {<<i, k>>}
        <4> QED BY <4>1, <4>2
      <3> QED BY <3>1 DEF Attended
    <2>4. \A c : Conforms(task[i], c) => Conforms(None, c)
      BY <2>1 DEF Conforms
    <2> QED BY <2>1, <2>3, <2>4, TaskChange
  <1>9. CASE ClientKills(i)
    <2>1. PICK deleted \in BOOLEAN :
            SetTask(i, Killed(task[i], deleted), {<<i, Killed(task[i], deleted)>>})
      BY <1>9 DEF ClientKills
    <2> DEFINE t == Killed(task[i], deleted)
    <2>2. t = None \/ (t # None /\ t.st = "KILLING")
      BY <1>1, <1>2, <1>3, <1>9 DEF ClientKills, Killed, ActiveStatus
    <2>3. SetTask(i, t, {<<i, t>>})
      BY <2>1
    <2> HIDE DEF t
    <2>4. \A u : Attended(i, u, t, events \cup {<<i, t>>}, deferred)
      <3>1. t = None => \E e \in events \cup {<<i, t>>} : e[1] = i /\ ~ Present(e[2])
        <4>1. <<i, t>>[1] = i /\ <<i, t>>[2] = t
          OBVIOUS
        <4>2. t = None => ~ Present(<<i, t>>[2])
          BY <4>1 DEF Present
        <4> QED BY <4>1, <4>2
      <3> QED BY <2>2, <3>1 DEF Attended
    <2>5. lock \notin UpdateKeys
      BY <1>4, <1>9 DEF ClientKills
    <2> QED BY <2>3, <2>4, <2>5, TaskChange
  <1>10. ASSUME NEW c \in Configs, ClientAdds(i, c)
         PROVE  WorkInv' /\ Delivered
    <2> DEFINE t == Snapshot(c, "PENDING")
    <2>1. SetTask(i, t, {<<i, t>>}) /\ lock \notin UpdateKeys
      BY <1>4, <1>10 DEF ClientAdds
    <2>2. t # None /\ t.st = "PENDING"
      BY <1>1, <1>2 DEF ActiveStatus
    <2> HIDE DEF t
    <2>3. \A u : Attended(i, u, t, events \cup {<<i, t>>}, deferred)
      BY <2>2 DEF Attended
    <2> QED BY <2>1, <2>3, TaskChange
  <1>11. CASE TaskStops(i)
    <2> DEFINE t == Snapshot(task[i].cfg, "STOPPING")
    <2>1. task[i] # None /\ task[i].st = "RUNNING" /\ SetTask(i, t, {<<i, t>>})
      BY <1>11 DEF TaskStops
    <2>2. t # None /\ t.st = "STOPPING" /\ t.cfg = task[i].cfg
      BY <1>1, <1>2, <1>3, <2>1 DEF ActiveStatus
    <2> HIDE DEF t
    <2>3. \A u : Attended(i, u, t, events \cup {<<i, t>>}, deferred)
      BY <2>2 DEF Attended
    <2>4. \A c : Conforms(task[i], c) => Conforms(t, c)
      BY <2>1, <2>2 DEF Conforms
    <2> QED BY <2>1, <2>3, <2>4, TaskChange
  <1> QED BY <1>5, <1>6, <1>7, <1>8, <1>9, <1>10, <1>11 DEF TaskActs

(* An update that loses its lock loses its claim on the tasks.             *)
LEMMA LockWork ==
  ASSUME JobInv, WorkInv, AcquireLock \/ ReleaseLock
  PROVE  WorkInv' /\ Delivered
  <1>1. /\ lock' \in {Client, None}
        /\ UNCHANGED <<task, events, update, updater, pulse, deferred, unblocks>>
    BY DEF AcquireLock, ReleaseLock
  <1>2. updater # None => lock' # updater.key
    BY <1>1, UpdateAssumption DEF UpdateAssumption, JobInv, JobTypeOK, Updater
  <1> QED BY <1>1, <1>2, QuietStep

(* A step that changes pulse states and unblockings only.                  *)
LEMMA PulseWork ==
  ASSUME WorkInv, UNCHANGED <<task, events, update, lock, updater, deferred>>
  PROVE  WorkInv' /\ Delivered
  BY QuietStep

(* A request to change the status of an active update.                     *)
LEMMA StatusWork ==
  ASSUME JobInv, WorkInv, NEW u \in UpdateKeys, IsActive(u),
         NEW s \in ACTIVE_JOB_UPDATE_STATES \cup {"ABORTED"},
         s \in AUTO_RESUME_STATES => update[u].status \notin AUTO_RESUME_STATES,
         Write(ChangeStatus(Job, u, s))
  PROVE  WorkInv' /\ Delivered
  <1>1. Settled(Job, u)
    BY JobSettled
  <1>2. Open(Job, u)
    BY <1>1, SettledOpen, JobFields DEF IsActive
  <1>3. s \in AUTO_RESUME_STATES => Job.updater = None
    BY <1>1, JobFields DEF Settled
  <1>4. PICK o \in ChangeStatus(Job, u, s) : Commit(o)
    BY DEF Write
  <1>5. s # "ROLLED_FORWARD" /\ s # "ROLLED_BACK" /\ s \in ACTIVE_JOB_UPDATE_STATES \cup TERMINAL_STATES
    BY DEF ACTIVE_JOB_UPDATE_STATES, Forward, Backward, TERMINAL_STATES
  <1>6. Settled(o, u)
    BY <1>2, <1>3, <1>5, ChangeStatusSettled
  <1>7. Outcome(Job, o, u)
    BY <1>2, <1>3, <1>5, ChangeStatusOutcome
  <1>8. Asked(Job.update) /\ \A v \in UpdateKeys \ {u} : Job.update[v] = update[v]
    BY JobFields DEF WorkInv
  <1> QED BY <1>4, <1>6, <1>7, <1>8, CommitOutcome

(* Pausing, resuming, aborting and unblocking.                             *)
LEMMA RequestWork ==
  ASSUME JobInv, WorkInv, NEW u \in UpdateKeys, Pause(u) \/ Resume(u) \/ Abort(u) \/ Unblock(u)
  PROVE  WorkInv' /\ Delivered
  <1>1. CASE Pause(u)
    BY <1>1, StatusWork, StatusKinds DEF Pause
  <1>2. CASE Resume(u)
    <2> DEFINE s == IF PulseExpired(Job, u) THEN BlockedState(update[u].status)
                    ELSE RollingState(update[u].status)
    <2>1. Write(ChangeStatus(Job, u, s)) /\ update[u].status \in PausedStates
      BY <1>2 DEF Resume
    <2>2. s \in ACTIVE_JOB_UPDATE_STATES
      BY StatusKinds
    <2> HIDE DEF s
    <2> QED BY <2>1, <2>2, StatusWork, StatusKinds DEF IsActive
  <1>3. CASE Abort(u)
    BY <1>3, StatusWork DEF Abort, AUTO_RESUME_STATES
  <1>4. CASE Unblock(u)
    <2>1. CASE update[u].status \in BlockedStates
      BY <1>4, <2>1, StatusWork, StatusKinds DEF Unblock, IsActive
    <2>2. CASE update[u].status \notin BlockedStates
      BY <1>4, <2>2, PulseWork DEF Unblock
    <2> QED BY <2>1, <2>2
  <1> QED BY <1>1, <1>2, <1>3, <1>4

(* Without a scope the changed instances are the ones that are updated.    *)
LEMMA InstructionsAsked ==
  ASSUME NEW c, NEW n, NEW scope \in Scopes, NEW coordinated, Scopes \subseteq {{}}
  PROVE  LET up == Instructions(c, n, scope, coordinated)
         IN  \A i \in up.instances : up.desired[i] = up.proposed[i]
  <1>1. scope = {}
    OBVIOUS
  <1> DEFINE proposed == [i \in Instances |-> IF i < n THEN c ELSE None]
             changed == {i \in Instances : Cfg(task[i]) # proposed[i]}
  <1>2. /\ Instructions(c, n, scope, coordinated).instances = changed
        /\ Instructions(c, n, scope, coordinated).proposed = proposed
        /\ Instructions(c, n, scope, coordinated).desired =
             [i \in Instances |-> IF i \in changed THEN proposed[i] ELSE None]
    BY <1>1 DEF Instructions
  <1>3. changed \subseteq Instances
    OBVIOUS
  <1> HIDE DEF changed, proposed
  <1> QED BY <1>2, <1>3

(* A new update starts with nothing done.                                  *)
LEMMA StartWork ==
  ASSUME JobInv, WorkInv, NEW u \in UpdateKeys, NEW c \in Configs, NEW n, NEW scope \in Scopes,
         NEW coordinated \in BOOLEAN, Start(u, c, n, scope, coordinated)
  PROVE  WorkInv' /\ Delivered
  <1> DEFINE up == Instructions(c, n, scope, coordinated)
             s == StartStatus(coordinated)
             j == Requested(u, up, coordinated)
  <1>1. /\ ~ \E v \in UpdateKeys : IsActive(v)
        /\ Write(ChangeStatus(j, u, s))
    BY DEF Start, Requested, StartStatus
  <1>2. /\ Open(j, u)
        /\ j.updater = None
        /\ j.update = [update EXCEPT ![u] = up]
    <2>1. up \in Update /\ up.coordinated = coordinated
      BY InstructionsType DEF JobInv
    <2> HIDE DEF up
    <2> QED BY <1>1, <2>1, StartOpen
  <1>3. s \in ACTIVE_JOB_UPDATE_STATES \cup TERMINAL_STATES /\ s # "ROLLED_FORWARD" /\ s # "ROLLED_BACK"
    BY DEF StartStatus, ACTIVE_JOB_UPDATE_STATES, Forward
  <1>4. Scopes \subseteq {{}} => \A i \in up.instances : up.desired[i] = up.proposed[i]
    BY InstructionsAsked
  <1> HIDE DEF s, up, j
  <1>5. update \in [UpdateKeys -> Update]
    BY DEF JobInv, JobTypeOK
  <1>6. j.update[u] = up /\ \A v \in UpdateKeys \ {u} : j.update[v] = update[v]
    BY <1>2, <1>5
  <1>7. Asked(j.update)
    BY <1>4, <1>6 DEF WorkInv, Asked
  <1>8. PICK o \in ChangeStatus(j, u, s) : Commit(o)
    BY <1>1 DEF Write
  <1>9. Settled(o, u) /\ Outcome(j, o, u)
    BY <1>2, <1>3, ChangeStatusSettled, ChangeStatusOutcome
  <1> QED BY <1>6, <1>7, <1>8, <1>9, CommitOutcome

(* The notice of a change, which may be late.                              *)
LEMMA NoticeWork ==
  ASSUME JobInv, WorkInv, NEW e \in events, InstanceChanged(e[1], e[2])
  PROVE  WorkInv' /\ Delivered
  <1> DEFINE i == e[1]
             t == e[2]
             j == [Job EXCEPT !.events = @ \ {<<i, t>>}]
  <1>1. i \in Instances /\ t \in Event \cup {None} /\ e = <<i, t>>
    BY DEF JobInv, JobTypeOK
  <1>2. /\ j.task = task /\ j.events = events \ {<<i, t>>} /\ j.update = update
        /\ j.lock = lock /\ j.updater = updater /\ j.deferred = deferred /\ j.pulse = pulse
    BY DEF Job
  <1>3. CASE updater # None /\ updater.state[i] # "OUT"
    <2>1. PICK u \in UpdateKeys : IsActive(u) /\ Write(Evaluate(j, u, i, t))
      BY <1>3 DEF InstanceChanged
    <2>2. Settled(j, u)
      BY <2>1, NoticeTaken
    <2> HIDE DEF j, i, t
    <2>3. PICK o \in Evaluate(j, u, i, t) : Commit(o)
      BY <2>1 DEF Write
    <2>4. Settled(o, u)
      BY <1>1, <1>2, <1>3, <2>2, EvaluateSettled
    <2>5. updater.key = u
      BY <1>2, <1>3, <2>2 DEF Settled, Others
    <2>6. Sound(Job, u)
      BY <1>3, <2>5 DEF WorkInv
    <2>7. /\ Instructed(j, u, j.updater)
          /\ Cardinality(ByState(j.updater, "WORKING")) <= GroupSize
      BY <1>2, <1>3, <2>6, JobFields DEF Sound, Instructed
    <2>8. ASSUME OneGroupAtATime
          PROVE  Noticed(j, u, i, t) /\ (j.lock = u => Achieved(j.task, j.updater))
      <3>1. /\ \A k \in ByState(updater, "WORKING") : Attended(k, u, task[k], events, deferred)
            /\ lock = u => Achieved(task, updater)
        BY <1>3, <2>6, <2>8, JobFields DEF Sound
      <3>2. \A k \in ByState(updater, "WORKING") \ {i} :
              Attended(k, u, task[k], events \ {<<i, t>>}, deferred)
        BY <3>1 DEF Attended
      <3>3. (events \ {<<i, t>>}) \cup {<<i, t>>} = events
        BY <1>1
      <3>4. updater.state[i] = "WORKING" =>
              Attended(i, u, task[i], (events \ {<<i, t>>}) \cup {<<i, t>>}, deferred)
        BY <1>1, <3>1, <3>3 DEF ByState
      <3> QED BY <1>1, <1>2, <3>1, <3>2, <3>4 DEF Noticed
    <2>9. Outcome(j, o, u)
      BY <1>1, <1>2, <1>3, <2>2, <2>7, <2>8, EvaluateOutcome
    <2>10. Asked(j.update) /\ \A v \in UpdateKeys \ {u} : j.update[v] = update[v]
      BY <1>2 DEF WorkInv
    <2> QED BY <2>3, <2>4, <2>9, <2>10, CommitOutcome
  <1>4. CASE ~ (updater # None /\ updater.state[i] # "OUT")
    <2>1. Commit(j)
      BY <1>4 DEF InstanceChanged
    <2>2. /\ UNCHANGED <<task, update, lock, updater, pulse, deferred>>
          /\ events' = events \ {<<i, t>>}
      BY <1>2, <2>1 DEF Commit
    <2>3. updater # None =>
            \A k \in ByState(updater, "WORKING") :
              Attended(k, updater.key, task[k], events, deferred) =>
                Attended(k, updater.key, task'[k], events', deferred')
      <3>1. updater # None => i \notin ByState(updater, "WORKING")
        BY <1>4 DEF ByState
      <3> HIDE DEF i, t
      <3> QED BY <2>2, <3>1 DEF Attended
    <2> QED BY <2>2, <2>3, QuietStep
  <1> QED BY <1>3, <1>4

(* A re-evaluation sees the active task.                                   *)
LEMMA ReevaluationWork ==
  ASSUME JobInv, WorkInv, NEW d \in deferred, Reevaluate(d[1], d[2])
  PROVE  WorkInv' /\ Delivered
  <1> DEFINE i == d[1]
             u == d[2]
             j == [Job EXCEPT !.deferred = @ \ {<<i, u>>}]
  <1>1. i \in Instances /\ u \in UpdateKeys /\ task[i] \in Task \cup {None}
    BY DEF JobInv, JobTypeOK
  <1>2. /\ j.task = task /\ j.events = events /\ j.update = update
        /\ j.lock = lock /\ j.updater = updater /\ j.deferred = deferred \ {<<i, u>>}
        /\ j.pulse = pulse
    BY DEF Job
  <1>3. CASE update[u].status \in AUTO_RESUME_STATES
    <2>1. Write(Evaluate(j, u, i, task[i]))
      BY <1>3 DEF Reevaluate
    <2>2. IsActive(u) /\ updater # None /\ updater.key = u
      BY <1>1, <1>3, StatusKinds DEF IsActive, JobInv, UpdaterFollowsStatus
    <2>3. Settled(j, u)
      BY <1>1, <2>2, NoticeTaken
    <2> HIDE DEF j, i, u
    <2>4. PICK o \in Evaluate(j, u, i, task[i]) : Commit(o)
      BY <2>1 DEF Write
    <2>5. Settled(o, u)
      BY <1>1, <1>2, <2>2, <2>3, EvaluateSettled
    <2>6. Sound(Job, u)
      BY <2>2 DEF WorkInv
    <2>7. /\ Instructed(j, u, j.updater)
          /\ Cardinality(ByState(j.updater, "WORKING")) <= GroupSize
      BY <1>2, <2>2, <2>6, JobFields DEF Sound, Instructed
    <2>8. ASSUME OneGroupAtATime
          PROVE  Noticed(j, u, i, task[i]) /\ (j.lock = u => Achieved(j.task, j.updater))
      <3>1. /\ \A k \in ByState(updater, "WORKING") : Attended(k, u, task[k], events, deferred)
            /\ lock = u => Achieved(task, updater)
        BY <2>2, <2>6, <2>8, JobFields DEF Sound
      <3>2. \A k \in ByState(updater, "WORKING") \ {i} :
              Attended(k, u, task[k], events, deferred \ {<<i, u>>})
        BY <3>1 DEF Attended
      <3> QED BY <1>2, <3>1, <3>2 DEF Noticed
    <2>9. Outcome(j, o, u)
      BY <1>1, <1>2, <2>2, <2>3, <2>7, <2>8, EvaluateOutcome
    <2>10. Asked(j.update) /\ \A v \in UpdateKeys \ {u} : j.update[v] = update[v]
      BY <1>2 DEF WorkInv
    <2> QED BY <1>1, <2>4, <2>5, <2>9, <2>10, CommitOutcome
  <1>4. CASE update[u].status \notin AUTO_RESUME_STATES
    <2>1. Commit(j)
      BY <1>4 DEF Reevaluate
    <2>2. /\ UNCHANGED <<task, events, update, lock, updater, pulse>>
          /\ deferred' = deferred \ {<<i, u>>}
      BY <1>2, <2>1 DEF Commit
    <2>3. updater # None => updater.key # u
      BY <1>1, <1>4 DEF JobInv, UpdaterFollowsStatus
    <2> HIDE DEF i, u
    <2>4. updater # None =>
            \A k \in ByState(updater, "WORKING") :
              Attended(k, updater.key, task[k], events, deferred) =>
                Attended(k, updater.key, task'[k], events', deferred')
      BY <2>2, <2>3 DEF Attended
    <2> QED BY <2>2, <2>4, QuietStep
  <1> QED BY <1>3, <1>4

(* A new leader starts from storage alone.                                 *)
LEMMA FailoverWork ==
  ASSUME JobInv, WorkInv, Failover
  PROVE  WorkInv' /\ Delivered
  <1> DEFINE r == Restored(Job)
  <1>1. r.task = task /\ r.update = update /\ r.updater = None
    BY DEF Restored, Job
  <1>2. ASSUME NEW u \in UpdateKeys, update[u].status \in AUTO_RESUME_STATES,
               Write(ChangeStatus(r, u, update[u].status))
        PROVE  WorkInv' /\ Delivered
    <2>1. Open(r, u)
      BY <1>2, RestoredOpen
    <2> HIDE DEF r
    <2>2. PICK o \in ChangeStatus(r, u, update[u].status) : Commit(o)
      BY <1>2 DEF Write
    <2>3. update[u].status \in ACTIVE_JOB_UPDATE_STATES
      BY <1>2, StatusKinds
    <2>4. update[u].status # "ROLLED_FORWARD" /\ update[u].status # "ROLLED_BACK"
      BY <1>2 DEF AUTO_RESUME_STATES
    <2>5. Settled(o, u) /\ Outcome(r, o, u)
      BY <1>1, <2>1, <2>3, <2>4, ChangeStatusSettled, ChangeStatusOutcome
    <2>6. Asked(r.update) /\ \A v \in UpdateKeys \ {u} : r.update[v] = update[v]
      BY <1>1 DEF WorkInv
    <2> QED BY <2>2, <2>5, <2>6, CommitOutcome
  <1>3. ASSUME Commit(r)
        PROVE  WorkInv' /\ Delivered
    <2>1. update' = update /\ updater' = None
      BY <1>1, <1>3 DEF Commit
    <2> QED BY <2>1 DEF WorkInv, Asked, Delivered
  <1> QED BY <1>2, <1>3 DEF Failover

-----------------------------------------------------------------------------

(* Every step keeps the work sound, and delivers what it completes.        *)
LEMMA WorkStep ==
  ASSUME JobInv, WorkInv, [JobNext]_updateVars
  PROVE  WorkInv' /\ Delivered
  <1>1. CASE UNCHANGED updateVars
    BY <1>1, PulseWork DEF updateVars
  <1>2. CASE \E u \in UpdateKeys : UserActs(u)
    <2>1. PICK u \in UpdateKeys : UserActs(u)
      BY <1>2
    <2>2. CASE \E c \in Configs, n \in Counts, scope \in Scopes, coordinated \in BOOLEAN :
                 Start(u, c, n, scope, coordinated)
      <3>1. PICK c \in Configs, n \in Counts, scope \in Scopes, coordinated \in BOOLEAN :
              Start(u, c, n, scope, coordinated)
        BY <2>2
      <3> QED BY <3>1, StartWork
    <2>3. CASE Pause(u) \/ Resume(u) \/ Abort(u) \/ Unblock(u)
      BY <2>3, RequestWork
    <2>4. CASE Pulse(u) \/ PulseTimeout(u)
      BY <2>4, PulseWork DEF Pulse, PulseTimeout
    <2> QED BY <2>1, <2>2, <2>3, <2>4 DEF UserActs
  <1>3. CASE \E i \in Instances : TaskActs(i)
    BY <1>3, TaskWork
  <1>4. CASE \E e \in events : InstanceChanged(e[1], e[2])
    BY <1>4, NoticeWork
  <1>5. CASE \E d \in deferred : Reevaluate(d[1], d[2])
    BY <1>5, ReevaluationWork
  <1>6. CASE AcquireLock \/ ReleaseLock
    BY <1>6, LockWork
  <1>7. CASE Failover
    BY <1>7, FailoverWork
  <1> QED BY <1>1, <1>2, <1>3, <1>4, <1>5, <1>6, <1>7 DEF JobNext

(***************************************************************************)
(* The work of the updater is sound in every state: it follows the         *)
(* instructions in storage, within the group size, and, when it waits for  *)
(* a group, every instance at work is attended and every one that is done  *)
(* stays as it should be for as long as the update holds the lock.         *)
(***************************************************************************)
THEOREM WorkSound == JobSpec => []WorkInv
  <1>1. JobInit => WorkInv
    <2>1. SUFFICES ASSUME JobInit
                   PROVE  WorkInv
      OBVIOUS
    <2>2. updater = None /\ \A u \in UpdateKeys : update[u].instances = {}
      BY <2>1 DEF JobInit, NoUpdate
    <2> QED BY <2>2 DEF WorkInv, Asked
  <1>2. JobInv /\ WorkInv /\ [JobNext]_updateVars => WorkInv'
    BY WorkStep
  <1> QED BY <1>1, <1>2, JobConsistent, PTL DEF JobSpec

(***************************************************************************)
(* Never more than updateGroupSize instances are being updated, whatever   *)
(* the strategy: not when several groups in a row have nothing to do, when *)
(* a group is filled up, or after an action has failed.                    *)
(***************************************************************************)
THEOREM GroupsBounded == JobSpec => []GroupBound
  <1>1. WorkInv => GroupBound
    BY JobFields DEF WorkInv, Sound, GroupBound
  <1> QED BY <1>1, WorkSound, PTL

(***************************************************************************)
(* With one group at a time, every instance at work is looked at again.    *)
(* When groups overlap it need not be: an action that throws leaves the    *)
(* instances that were started beside it without one.                      *)
(***************************************************************************)
THEOREM InstancesWatched ==
  ASSUME OneGroupAtATime
  PROVE  JobSpec => []InstancesAttended
  <1>1. WorkInv => InstancesAttended
    <2>1. SUFFICES ASSUME WorkInv, updater # None, NEW i \in ByState(updater, "WORKING")
                   PROVE  \/ <<i, updater.key>> \in deferred
                          \/ \E e \in events : e[1] = i
                          \/ task[i] # None /\ task[i].st \in {"PENDING", "STOPPING", "KILLING"}
      BY DEF InstancesAttended
    <2>2. Attended(i, updater.key, task[i], events, deferred)
      BY <2>1, JobFields DEF WorkInv, Sound
    <2>3. \A c : <<i, c>> \in events => \E e \in events : e[1] = i
      OBVIOUS
    <2> QED BY <2>2, <2>3 DEF Attended
  <1> QED BY <1>1, WorkSound, PTL

(***************************************************************************)
(* With one group at a time, an update of the whole job that is            *)
(* ROLLED_FORWARD or ROLLED_BACK has made of its instances what was asked  *)
(* for, or what they were, but for the failures tolerated: however late    *)
(* the notices, and across pauses, failed actions and failovers.           *)
(***************************************************************************)
THEOREM UpdatesDeliver ==
  ASSUME OneGroupAtATime, Scopes \subseteq {{}}
  PROVE  JobSpec => CompletedAsRequested
  <1>1. JobInv /\ WorkInv /\ [JobNext]_updateVars =>
          \A u \in UpdateKeys :
            LET Missed(want) == {i \in update'[u].instances : ~ Conforms(task'[i], want[i])}
            IN  update'[u].status # update[u].status =>
                  /\ update'[u].status = "ROLLED_FORWARD" =>
                       Cardinality(Missed(update'[u].proposed)) <= MaxFailedInstances
                  /\ update'[u].status = "ROLLED_BACK" =>
                       Cardinality(Missed(update'[u].initial)) <= MaxFailedInstances
    <2>1. SUFFICES ASSUME JobInv, WorkInv, [JobNext]_updateVars,
                          NEW u \in UpdateKeys, update'[u].status # update[u].status
                   PROVE  /\ update'[u].status = "ROLLED_FORWARD" =>
                               Cardinality({i \in update'[u].instances :
                                 ~ Conforms(task'[i], update'[u].proposed[i])}) <= MaxFailedInstances
                          /\ update'[u].status = "ROLLED_BACK" =>
                               Cardinality({i \in update'[u].instances :
                                 ~ Conforms(task'[i], update'[u].initial[i])}) <= MaxFailedInstances
      OBVIOUS
    <2>2. WorkInv' /\ Delivered
      BY <2>1, WorkStep
    <2>3. \A i \in update'[u].instances : update'[u].desired[i] = update'[u].proposed[i]
      BY <2>2 DEF WorkInv, Asked
    <2>4. {i \in update'[u].instances : ~ Conforms(task'[i], update'[u].desired[i])} =
            {i \in update'[u].instances : ~ Conforms(task'[i], update'[u].proposed[i])}
      BY <2>3
    <2> QED BY <2>1, <2>2, <2>4 DEF Delivered
  <1> QED BY <1>1, WorkSound, JobConsistent, PTL DEF JobSpec, CompletedAsRequested
=============================================================================
