------------------------------- MODULE Offers -------------------------------
(***************************************************************************)
(* The offers the scheduler holds (offers/OfferManager.java), the          *)
(* maintenance of the hosts they are for (state/MaintenanceController.java)*)
(* and the assignment of tasks to them (state/TaskAssigner.java).          *)
(*                                                                         *)
(* Transactions hold the write lock of the storage.  Rescinded offers are  *)
(* cancelled on the driver's thread, changed host attributes and lost      *)
(* connections are applied by the event bus (four threads, so in any       *)
(* order), offers are returned by a timer: none of these takes the lock,   *)
(* and all of them happen between the steps of a transaction.              *)
(***************************************************************************)
EXTENDS Naturals, FiniteSets

CONSTANTS
  OfferIds,
  Slaves,
  Hosts,
  TaskIds,             \* tasks of one job, each of a configuration (a group) of its own
  OfferSlave,          \* [OfferIds -> Slaves]
  SlaveHost,           \* [Slaves -> Hosts]: a host may have had several slaves
  Fits,                \* pairs of task and slave: dedication and value constraints match
  Suffices,            \* pairs of task and offer: the resources are enough
  Limit,               \* [TaskIds -> Nat]: its limit of tasks of the job on a host
  InitialTasks,        \* the task stores a leader may begin with
  MaxFaults,           \* bound on the connections to Mesos and the leaders that are lost
  MaxRequests,         \* bound on the requests of administrators
  None

MaintenanceMode == {"NONE", "SCHEDULED", "DRAINING", "DRAINED"}

ASSUME OfferAssumption ==
  /\ OfferSlave \in [OfferIds -> Slaves]
  /\ SlaveHost \in [Slaves -> Hosts]
  /\ Fits \subseteq TaskIds \X Slaves
  /\ MaxFaults \in Nat /\ MaxRequests \in Nat
  /\ None \notin OfferIds \cup Slaves \cup Hosts \cup TaskIds
  /\ None \notin MaintenanceMode

ASSUME TaskAssumption ==
  /\ Suffices \subseteq TaskIds \X OfferIds
  /\ Limit \in [TaskIds -> Nat]
  /\ InitialTasks \subseteq
       [TaskIds -> [st : {"PENDING"}, host : {None}] \cup [st : {"ACTIVE", "ENDED"}, host : Hosts]]

VARIABLES
  mode,        \* the attribute store: [Hosts -> MaintenanceMode, or None]
  task,        \* the task store: [TaskIds -> [st, host]]
  held,        \* offersById: [OfferIds -> the mode the offer is labelled with, or None]
  bySlave,     \* offersBySlave: [Slaves -> OfferIds, or None]
  byHost,      \* offersByHost: [Hosts -> OfferIds, or None]
  bans,        \* staticallyBannedOffers: pairs of offer and task (group)
  lock,        \* the transaction under way that takes several steps, or None
  changes,     \* HostAttributesChanged events not yet delivered: pairs of host and mode
  ended,       \* tasks whose end has not been handled by the maintenance controller
  master,      \* Mesos: what became of each offer
  inbox,       \* offers waiting in the executor of resourceOffers
  clears,      \* DriverDisconnected events not yet delivered
  faults,      \* connections and leaders lost so far
  requests     \* requests of administrators so far

index == <<held, bySlave, byHost, bans>>
net == <<master, inbox>>
links == <<clears, faults, requests>>
offerVars ==
  <<mode, task, index, lock, changes, ended, net, links>>

VETO_MODES == {"DRAINING", "DRAINED"}

\* ACTIVE stands for ASSIGNED to RUNNING, STOPPING for the states DRAINING leads
\* to; LATE is ACTIVE, on a host that was already DRAINING or DRAINED.
TaskStatus == {"PENDING", "ACTIVE", "LATE", "STOPPING", "ENDED"}
OnSlave == {"ACTIVE", "LATE", "STOPPING"}

HostOf(o) == SlaveHost[OfferSlave[o]]
IsHeld(o) == held[o] # None
ActiveOn(h) == {t \in TaskIds : task[t].st \in OnSlave /\ task[t].host = h}
Mode(h) == IF mode[h] = None THEN "NONE" ELSE mode[h]

-----------------------------------------------------------------------------
(* HostOffers: each operation is synchronized.  They map the record of the *)
(* indices to the record after them.                                       *)

Index == [held |-> held, bySlave |-> bySlave, byHost |-> byHost, bans |-> bans]

SetIndex(x) ==
  /\ held' = x.held
  /\ bySlave' = x.bySlave
  /\ byHost' = x.byHost
  /\ bans' = x.bans

Add(x, o, m) ==
  [x EXCEPT !.held[o] = m, !.bySlave[OfferSlave[o]] = o, !.byHost[HostOf(o)] = o]

\* The entries of the slave and of the host go, whichever offer they name.
Remove(x, o) ==
  IF x.held[o] = None THEN x
  ELSE [x EXCEPT !.held[o] = None, !.bySlave[OfferSlave[o]] = None,
                 !.byHost[HostOf(o)] = None, !.bans = {b \in @ : b[1] # o}]

\* Only the offer the host's entry names is labelled anew.
UpdateHostAttributes(x, h, m) ==
  LET o == x.byHost[h]
  IN  IF o = None THEN x ELSE Add(Remove([x EXCEPT !.byHost[h] = None], o), o, m)

AddStaticGroupBan(x, o, t) ==
  IF x.held[o] = None THEN x ELSE [x EXCEPT !.bans = @ \cup {<<o, t>>}]

Cleared ==
  [held    |-> [o \in OfferIds |-> None],
   bySlave |-> [s \in Slaves |-> None],
   byHost  |-> [h \in Hosts |-> None],
   bans    |-> {}]

\* The driver launches on an offer or declines it; either way it is used up.
Answer(os) ==
  master' = [o \in OfferIds |->
    IF o \notin os THEN master[o]
    ELSE IF master[o] \in {"open", "gone"} THEN "answered" ELSE "twice"]

-----------------------------------------------------------------------------
(* resourceOffers and addOffer.                                            *)

\* saveHostAttributes posts an event when it changes something.
Save(h, m) ==
  /\ mode' = [mode EXCEPT ![h] = m]
  /\ changes' = IF mode[h] = m THEN changes ELSE changes \cup {<<h, m>>}

\* Mutation: an offer is taken in without the write lock, and looked at once.
ResourceOffersUnlocked(o) ==
  /\ o \in inbox
  /\ inbox' = inbox \ {o}
  /\ Save(HostOf(o), Mode(HostOf(o)))
  /\ lock' = [op |-> "add", offer |-> o, same |-> None, label |-> Mode(HostOf(o))]
  /\ UNCHANGED <<task, index, ended, master, links>>

\* The transaction begins; addOffer looks for an offer of the same slave.
ResourceOffers(o) ==
  LET h == HostOf(o)
  IN  /\ lock = None
      /\ o \in inbox
      /\ inbox' = inbox \ {o}
      /\ Save(h, Mode(h))
      /\ lock' = [op |-> "add", offer |-> o, same |-> bySlave[OfferSlave[o]], label |-> Mode(h)]
      /\ UNCHANGED <<task, index, ended, master, links>>

\* Mutation: the earlier offer is declined whether or not it is still held.
AddOfferBlindly ==
  /\ lock # None /\ lock.op = "add"
  /\ IF lock.same # None
     THEN /\ SetIndex(Remove(Index, lock.same))
          /\ Answer({lock.offer, lock.same})
     ELSE /\ SetIndex(Add(Index, lock.offer, lock.label))
          /\ UNCHANGED master
  /\ lock' = None
  /\ UNCHANGED <<mode, task, changes, ended, inbox, links>>

\* addOffer goes on: both offers of a slave are handed back, to be merged, or the
\* offer is held (and its return scheduled when the transaction ends).
AddOffer ==
  /\ lock # None /\ lock.op = "add"
  /\ IF lock.same # None
     THEN /\ SetIndex(Remove(Index, lock.same))
          /\ Answer({lock.offer} \cup (IF IsHeld(lock.same) THEN {lock.same} ELSE {}))
     ELSE /\ SetIndex(Add(Index, lock.offer, lock.label))
          /\ UNCHANGED master
  /\ lock' = None
  /\ UNCHANGED <<mode, task, changes, ended, inbox, links>>

\* removeAndDecline, when the return delay is over; nothing if it is not held.
ReturnOffer(o) ==
  /\ IsHeld(o)
  /\ SetIndex(Remove(Index, o))
  /\ Answer({o})
  /\ UNCHANGED <<mode, task, lock, changes, ended, inbox, links>>

\* Mutation: an offer that changes its label is forgotten.
LabelAndForget(h, m) ==
  /\ <<h, m>> \in changes
  /\ changes' = changes \ {<<h, m>>}
  /\ byHost[h] # None
  /\ SetIndex(Remove(Index, byHost[h]))
  /\ UNCHANGED <<mode, task, lock, ended, net, links>>

HostAttributesChanged(h, m) ==
  /\ <<h, m>> \in changes
  /\ changes' = changes \ {<<h, m>>}
  /\ SetIndex(UpdateHostAttributes(Index, h, m))
  /\ UNCHANGED <<mode, task, lock, ended, net, links>>

DriverDisconnected ==
  /\ clears > 0
  /\ clears' = clears - 1
  /\ SetIndex(Cleared)
  /\ UNCHANGED <<mode, task, lock, changes, ended, net, faults, requests>>

-----------------------------------------------------------------------------
(* TaskAssigner.maybeAssign, in the transaction of TaskScheduler.schedule. *)

\* Mutation: bans are not looked at.
CandidatesWithBans(t) == {o \in OfferIds : IsHeld(o)}

Candidates(t) == {o \in OfferIds : IsHeld(o) /\ <<o, t>> \notin bans}

Preference(m) == CASE m = "NONE" -> 1 [] m = "SCHEDULED" -> 2
                   [] m = "DRAINING" -> 3 [] m = "DRAINED" -> 4

\* The first offer of the iterator, with the label it has now.
PickOffer(t) ==
  /\ lock = None
  /\ task[t].st = "PENDING"
  /\ \E o \in Candidates(t) :
       /\ \A p \in Candidates(t) : Preference(held[o]) <= Preference(held[p])
       /\ lock' = [op |-> "assign", task |-> t, offer |-> o, label |-> held[o]]
  /\ UNCHANGED <<mode, task, index, changes, ended, net, links>>

\* SchedulingFilter.filter and identifyGroup.  Maintenance comes first, then the
\* value constraints, the limit and the resources; the first that objects decides.
VetoOf(t, o, m) ==
  CASE m \in VETO_MODES \/ <<t, OfferSlave[o]>> \notin Fits -> "STATIC"
    [] OTHER ->
         IF Cardinality(ActiveOn(HostOf(o))) >= Limit[t] THEN "DYNAMIC"
         ELSE IF <<t, o>> \notin Suffices THEN "STATIC"
         ELSE "EMPTY"

Assigned(h) == [st |-> IF Mode(h) \in VETO_MODES THEN "LATE" ELSE "ACTIVE", host |-> h]

\* A veto ends the attempt, and bans the offer if it is static.  An offer that is
\* gone by now is not launched on, but the task stays assigned until it times out.
AssignOrBan ==
  /\ lock # None /\ lock.op = "assign"
  /\ LET veto == VetoOf(lock.task, lock.offer, lock.label)
     IN  \/ /\ veto = "STATIC"
            /\ SetIndex(AddStaticGroupBan(Index, lock.offer, lock.task))
            /\ UNCHANGED <<task, master>>
         \/ /\ veto = "DYNAMIC"
            /\ UNCHANGED <<task, master, index>>
         \/ /\ veto = "EMPTY"
            /\ SetIndex(Remove(Index, lock.offer))
            /\ Answer(IF IsHeld(lock.offer) THEN {lock.offer} ELSE {})
            /\ task' = [task EXCEPT ![lock.task] = Assigned(HostOf(lock.offer))]
  /\ lock' = None
  /\ UNCHANGED <<mode, changes, ended, inbox, links>>

-----------------------------------------------------------------------------
(* MaintenanceController.  A request for several hosts is one for each.    *)

Admin ==
  /\ lock = None
  /\ requests < MaxRequests
  /\ requests' = requests + 1

\* setMaintenanceMode: nothing is known of a host that has never been offered.
SetMaintenanceMode(h, m) ==
  IF mode[h] = None THEN UNCHANGED <<mode, changes>>
                    ELSE Save(h, m)

StartMaintenance(h) ==
  /\ Admin
  /\ SetMaintenanceMode(h, "SCHEDULED")
  /\ UNCHANGED <<task, index, lock, ended, net, clears, faults>>

EndMaintenance(h) ==
  /\ Admin
  /\ SetMaintenanceMode(h, "NONE")
  /\ UNCHANGED <<task, index, lock, ended, net, clears, faults>>

\* Mutation: the tasks are not looked at when the mode is set.
DrainAtOnce(h) ==
  /\ Admin
  /\ task' = [t \in TaskIds |->
       IF t \in ActiveOn(h) THEN [task[t] EXCEPT !.st = "STOPPING"] ELSE task[t]]
  /\ SetMaintenanceMode(h, "DRAINED")
  /\ UNCHANGED <<index, lock, ended, net, clears, faults>>

\* watchDrainingTasks
Drain(h) ==
  /\ Admin
  /\ task' = [t \in TaskIds |->
       IF t \in ActiveOn(h) THEN [task[t] EXCEPT !.st = "STOPPING"] ELSE task[t]]
  /\ SetMaintenanceMode(h, IF ActiveOn(h) = {} THEN "DRAINED" ELSE "DRAINING")
  /\ UNCHANGED <<index, lock, ended, net, clears, faults>>

\* taskChangedState, for a task that has ended: the last one of its host?
TaskChangedState(t) ==
  LET h == task[t].host
  IN  /\ lock = None
      /\ t \in ended
      /\ ended' = ended \ {t}
      /\ IF Mode(h) = "DRAINING" /\ ActiveOn(h) = {}
         THEN SetMaintenanceMode(h, "DRAINED")
         ELSE UNCHANGED <<mode, changes>>
      /\ UNCHANGED <<task, index, lock, net, links>>

-----------------------------------------------------------------------------
(* Tasks, Mesos and the leader.                                            *)

TaskEnds(t) ==
  /\ lock = None
  /\ task[t].st \in OnSlave
  /\ task' = [task EXCEPT ![t].st = "ENDED"]
  /\ ended' = ended \cup {t}
  /\ UNCHANGED <<mode, index, lock, changes, net, links>>

\* resourceOffers hands the offer to its executor.
OfferMade(o) ==
  /\ master[o] = "new"
  /\ master' = [master EXCEPT ![o] = "open"]
  /\ inbox' = inbox \cup {o}
  /\ UNCHANGED <<mode, task, index, lock, changes, ended, links>>

\* Mesos rescinds an offer, and the driver's thread cancels it at once; it may
\* not have been added yet.
OfferRescinded(o) ==
  /\ master[o] = "open"
  /\ master' = [master EXCEPT ![o] = "gone"]
  /\ SetIndex(Remove(Index, o))
  /\ UNCHANGED <<mode, task, lock, changes, ended, inbox, links>>

\* Without a connection no offer is valid any more.
Withdrawn == [o \in OfferIds |-> IF master[o] = "open" THEN "gone" ELSE master[o]]

Disconnect ==
  /\ faults < MaxFaults
  /\ faults' = faults + 1
  /\ clears' = clears + 1
  /\ master' = Withdrawn
  /\ UNCHANGED <<mode, task, index, lock, changes, ended, inbox, requests>>

\* Mutation: the events of the tasks in storage are not posted again.
FailoverSilently ==
  /\ faults < MaxFaults /\ lock = None
  /\ faults' = faults + 1
  /\ SetIndex(Cleared)
  /\ changes' = {} /\ clears' = 0
  /\ ended' = {}
  /\ master' = Withdrawn /\ inbox' = {}
  /\ UNCHANGED <<mode, task, lock, requests>>

\* A transaction that is cut short leaves no trace in storage; the next leader posts
\* an event for every task it finds.
Failover ==
  /\ faults < MaxFaults /\ lock = None
  /\ faults' = faults + 1
  /\ SetIndex(Cleared)
  /\ changes' = {} /\ clears' = 0
  /\ ended' = {t \in TaskIds : task[t].st = "ENDED"}
  /\ master' = Withdrawn /\ inbox' = {}
  /\ UNCHANGED <<mode, task, lock, requests>>

-----------------------------------------------------------------------------

\* A leader begins with the tasks in storage, and with the hosts they were on.
OffersInit ==
  /\ task \in InitialTasks
  /\ mode = [h \in Hosts |-> IF \E t \in TaskIds : task[t].host = h THEN "NONE" ELSE None]
  /\ held = Cleared.held /\ bySlave = Cleared.bySlave
  /\ byHost = Cleared.byHost /\ bans = Cleared.bans
  /\ lock = None
  /\ changes = {} /\ ended = {t \in TaskIds : task[t].st = "ENDED"}
  /\ master = [o \in OfferIds |-> "new"]
  /\ inbox = {}
  /\ clears = 0 /\ faults = 0 /\ requests = 0

OffersNext ==
  \/ \E o \in OfferIds :
       OfferMade(o) \/ ResourceOffers(o) \/ ReturnOffer(o) \/ OfferRescinded(o)
  \/ AddOffer \/ AssignOrBan
  \/ \E c \in changes : HostAttributesChanged(c[1], c[2])
  \/ \E t \in TaskIds : PickOffer(t) \/ TaskChangedState(t) \/ TaskEnds(t)
  \/ \E h \in Hosts : StartMaintenance(h) \/ EndMaintenance(h) \/ Drain(h)
  \/ DriverDisconnected \/ Disconnect \/ Failover

(***************************************************************************)
(* Fairness: threads that have the lock go on, the event bus delivers, a   *)
(* pending task is tried again and again, and a task that is told to stop  *)
(* ends (StateManager's timeouts see to that).  Nothing else is owed: no   *)
(* offer, no request, and no return of an offer.                           *)
(***************************************************************************)
OffersFairness ==
  /\ WF_offerVars(AddOffer \/ AssignOrBan)
  /\ \A t \in TaskIds :
       /\ SF_offerVars(PickOffer(t))
       /\ SF_offerVars(TaskChangedState(t))
       /\ SF_offerVars(task[t].st = "STOPPING" /\ TaskEnds(t))

OffersSpec == OffersInit /\ [][OffersNext]_offerVars /\ OffersFairness

-----------------------------------------------------------------------------
(* Properties.                                                             *)

\* Stores, indices, the lock, queues and messages keep their types.
OffersTypeOK ==
  /\ mode \in [Hosts -> MaintenanceMode \cup {None}]
  /\ task \in [TaskIds -> [st : TaskStatus, host : Hosts \cup {None}]]
  /\ \A t \in TaskIds : task[t].st # "PENDING" => mode[task[t].host] # None
  /\ held \in [OfferIds -> MaintenanceMode \cup {None}]
  /\ bySlave \in [Slaves -> OfferIds \cup {None}]
  /\ byHost \in [Hosts -> OfferIds \cup {None}]
  /\ bans \subseteq OfferIds \X TaskIds
  /\ \/ lock = None
     \/ lock \in [op : {"add"}, offer : OfferIds, same : OfferIds \cup {None},
                  label : MaintenanceMode]
     \/ lock \in [op : {"assign"}, task : TaskIds, offer : OfferIds, label : MaintenanceMode]
  /\ changes \subseteq Hosts \X MaintenanceMode
  /\ ended \subseteq TaskIds
  /\ master \in [OfferIds -> {"new", "open", "gone", "answered", "twice"}]
  /\ inbox \subseteq OfferIds
  /\ {clears, faults, requests} \subseteq Nat

(***************************************************************************)
(* Every offer is answered at most once, by one launch or one refusal,     *)
(* although the launch, the return timer, the next offer of the slave, a   *)
(* rescission and a lost connection compete for it without a common lock.  *)
(***************************************************************************)
AnsweredOnce == \A o \in OfferIds : master[o] # "twice"

(***************************************************************************)
(* A slave has at most one offer, which its index finds, and the indices   *)
(* and bans name held offers only: since offers are added under the write  *)
(* lock, the race the comment of addOffer accepts does not happen between  *)
(* two offers, and a ban that comes after its offer's end is not kept.     *)
(***************************************************************************)
IndicesAgree ==
  /\ \A o \in OfferIds : IsHeld(o) => bySlave[OfferSlave[o]] = o
  /\ \A s \in Slaves : bySlave[s] # None => IsHeld(bySlave[s]) /\ OfferSlave[bySlave[s]] = s
  /\ \A h \in Hosts : byHost[h] # None => IsHeld(byHost[h]) /\ HostOf(byHost[h]) = h
  /\ \A b \in bans : IsHeld(b[1])

(***************************************************************************)
(* A host is DRAINED only when every task has left it that was there when  *)
(* it was drained; what runs on it was assigned later, by an offer still   *)
(* labelled with an earlier mode.                                          *)
(***************************************************************************)
DrainedIsEmpty ==
  \A h \in Hosts : Mode(h) = "DRAINED" => \A t \in ActiveOn(h) : task[t].st = "LATE"

(***************************************************************************)
(* An offer that is still open is dropped without an answer only by the    *)
(* event of a lost connection (which clears later offers as well).         *)
(***************************************************************************)
DroppedOnDisconnectOnly ==
  [][\A o \in OfferIds :
       IsHeld(o) /\ ~ IsHeld(o)' /\ master'[o] = "open" => DriverDisconnected]_offerVars

LateOn(h) == \E t \in ActiveOn(h) : task[t].st = "LATE"

(***************************************************************************)
(* The drain of a host comes to an end, across failovers, unless a task    *)
(* was assigned to the host meanwhile or the administrator ends it: the    *)
(* event of the last task is never lost.                                   *)
(***************************************************************************)
DrainEnds ==
  \A h \in Hosts :
    Mode(h) = "DRAINING" /\ ~ LateOn(h) ~> Mode(h) # "DRAINING" \/ LateOn(h)

Matches(t, o) ==
  /\ task[t].st = "PENDING"
  /\ o \in Candidates(t)
  /\ VetoOf(t, o, held[o]) = "EMPTY"

\* An offer that comes no later than o vetoes t for now, which bans nothing.
Hidden(t, o) ==
  \E p \in Candidates(t) :
    Preference(held[p]) <= Preference(held[o]) /\ VetoOf(t, p, held[p]) = "DYNAMIC"

(***************************************************************************)
(* A pending task goes on missing an offer that matches only while an      *)
(* offer on a host at the limit of its job may come first: an attempt ends *)
(* at the first veto, a static veto bans the offer, a dynamic one does not *)
(* and meets the next attempt again, until the limit or the offer is gone. *)
(***************************************************************************)
MatchIsFound ==
  \A t \in TaskIds : ~ <>[](\E o \in OfferIds : Matches(t, o) /\ ~ Hidden(t, o))
=============================================================================
