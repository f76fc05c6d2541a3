---------------------------- MODULE Offers_proofs ----------------------------
(***************************************************************************)
(* Proofs about Offers, for any offers, slaves, hosts and tasks.           *)
(***************************************************************************)
EXTENDS Offers, TLAPS

(* The indices of HostOffers as one record, and what IndicesAgree says of  *)
(* them.                                                                   *)
IndexRecords ==
  [held    : [OfferIds -> MaintenanceMode \cup {None}],
   bySlave : [Slaves -> OfferIds \cup {None}],
   byHost  : [Hosts -> OfferIds \cup {None}],
   bans    : SUBSET (OfferIds \X TaskIds)]

Agrees(x) ==
  /\ \A o \in OfferIds : x.held[o] # None => x.bySlave[OfferSlave[o]] = o
  /\ \A s \in Slaves : x.bySlave[s] # None =>
       x.held[x.bySlave[s]] # None /\ OfferSlave[x.bySlave[s]] = s
  /\ \A h \in Hosts : x.byHost[h] # None =>
       x.held[x.byHost[h]] # None /\ HostOf(x.byHost[h]) = h
  /\ \A b \in x.bans : x.held[b[1]] # None

IndexOK(x) == x \in IndexRecords /\ Agrees(x)

Valid == {"open", "gone"}

(* Where an offer is: waiting to be added, being added or held, and in all *)
(* three cases not yet answered.  What addOffer has read of the slave's    *)
(* entry is still true when it says that there was no offer.               *)
OfferOnce ==
  /\ \A o \in inbox : master[o] \in Valid /\ ~ IsHeld(o)
  /\ \A o \in OfferIds : IsHeld(o) => master[o] \in Valid /\ mode[HostOf(o)] # None
  /\ lock # None => mode[HostOf(lock.offer)] # None
  /\ lock # None /\ lock.op = "add" =>
       /\ master[lock.offer] \in Valid
       /\ ~ IsHeld(lock.offer)
       /\ lock.offer \notin inbox
       /\ lock.same = None => bySlave[OfferSlave[lock.offer]] = None

TasksHoused ==
  /\ \A t \in TaskIds : task[t].st # "PENDING" => task[t].host \in Hosts
  /\ \A t \in ended : task[t].st = "ENDED"
  /\ lock # None /\ lock.op = "assign" => task[lock.task].st = "PENDING"

OffersInv ==
  /\ OffersTypeOK /\ IndicesAgree /\ OfferOnce /\ TasksHoused
  /\ AnsweredOnce /\ DrainedIsEmpty

-----------------------------------------------------------------------------
(* The operations of HostOffers.                                           *)

LEMMA HostsOfOffers == \A o \in OfferIds : OfferSlave[o] \in Slaves /\ HostOf(o) \in Hosts
BY OfferAssumption DEF OfferAssumption, HostOf

(* remove() takes one offer out and leaves the others where they are.      *)
LEMMA RemoveOK ==
  ASSUME NEW x, IndexOK(x), NEW o \in OfferIds
  PROVE  /\ IndexOK(Remove(x, o))
         /\ Remove(x, o).held = [x.held EXCEPT ![o] = None]
         /\ \A s \in Slaves : Remove(x, o).bySlave[s] \in {x.bySlave[s], None}
         /\ x.held[o] # None => Remove(x, o).bySlave[OfferSlave[o]] = None
<1> USE OfferAssumption, HostsOfOffers DEF OfferAssumption
<1> DEFINE y == Remove(x, o)
<1>1. x \in IndexRecords /\ Agrees(x)
  BY DEF IndexOK
<1>2. CASE x.held[o] = None
  <2>1. y = x
    BY <1>2 DEF Remove
  <2> QED
    BY <1>1, <1>2, <2>1 DEF IndexOK, IndexRecords
<1>3. CASE x.held[o] # None
  <2>1. /\ y.held = [x.held EXCEPT ![o] = None]
        /\ y.bySlave = [x.bySlave EXCEPT ![OfferSlave[o]] = None]
        /\ y.byHost = [x.byHost EXCEPT ![HostOf(o)] = None]
        /\ y.bans = {b \in x.bans : b[1] # o}
        /\ y \in IndexRecords
    BY <1>1, <1>3 DEF Remove, IndexRecords
  <2>2. \A p \in OfferIds \ {o} : y.held[p] = x.held[p]
    BY <1>1, <2>1 DEF IndexRecords
  <2>3. \A p \in OfferIds : y.held[p] # None => y.bySlave[OfferSlave[p]] = p
    BY <1>1, <1>3, <2>1, <2>2 DEF IndexRecords, Agrees
  <2>4. \A s \in Slaves : y.bySlave[s] # None =>
          y.held[y.bySlave[s]] # None /\ OfferSlave[y.bySlave[s]] = s
    BY <1>1, <1>3, <2>1, <2>2 DEF IndexRecords, Agrees
  <2>5. \A h \in Hosts : y.byHost[h] # None =>
          y.held[y.byHost[h]] # None /\ HostOf(y.byHost[h]) = h
    BY <1>1, <1>3, <2>1, <2>2 DEF IndexRecords, Agrees
  <2>6. \A b \in y.bans : y.held[b[1]] # None
    BY <1>1, <2>1, <2>2 DEF IndexRecords, Agrees
  <2>7. IndexOK(y)
    BY <2>1, <2>3, <2>4, <2>5, <2>6 DEF IndexOK, Agrees
  <2>8. \A s \in Slaves : y.bySlave[s] \in {x.bySlave[s], None}
    BY <1>1, <2>1 DEF IndexRecords
  <2>9. y.bySlave[OfferSlave[o]] = None
    BY <1>1, <2>1 DEF IndexRecords
  <2> QED
    BY <2>1, <2>7, <2>8, <2>9
<1> QED
  BY <1>2, <1>3

(* add() keeps the indices in agreement if the slave has no other offer.   *)
LEMMA AddOK ==
  ASSUME NEW x, IndexOK(x), NEW o \in OfferIds, NEW m \in MaintenanceMode,
         x.bySlave[OfferSlave[o]] = None
  PROVE  /\ IndexOK(Add(x, o, m))
         /\ Add(x, o, m).held = [x.held EXCEPT ![o] = m]
         /\ Add(x, o, m).bySlave = [x.bySlave EXCEPT ![OfferSlave[o]] = o]
<1> USE OfferAssumption, HostsOfOffers DEF OfferAssumption
<1> DEFINE y == Add(x, o, m)
<1>1. x \in IndexRecords /\ Agrees(x)
  BY DEF IndexOK
<1>2. /\ y.held = [x.held EXCEPT ![o] = m]
      /\ y.bySlave = [x.bySlave EXCEPT ![OfferSlave[o]] = o]
      /\ y.byHost = [x.byHost EXCEPT ![HostOf(o)] = o]
      /\ y.bans = x.bans
      /\ y \in IndexRecords
  BY <1>1 DEF Add, IndexRecords
<1>3. y.held[o] # None /\ \A p \in OfferIds : x.held[p] # None => y.held[p] # None
  BY <1>1, <1>2 DEF IndexRecords
<1>4. \A p \in OfferIds \ {o} : y.held[p] # None =>
        x.held[p] # None /\ OfferSlave[p] # OfferSlave[o]
  BY <1>1, <1>2 DEF IndexRecords, Agrees
<1>5. \A p \in OfferIds : y.held[p] # None => y.bySlave[OfferSlave[p]] = p
  BY <1>1, <1>2, <1>4 DEF IndexRecords, Agrees
<1>6. \A s \in Slaves : y.bySlave[s] # None =>
        y.held[y.bySlave[s]] # None /\ OfferSlave[y.bySlave[s]] = s
  BY <1>1, <1>2, <1>3 DEF IndexRecords, Agrees
<1>7. \A h \in Hosts : y.byHost[h] # None =>
        y.held[y.byHost[h]] # None /\ HostOf(y.byHost[h]) = h
  BY <1>1, <1>2, <1>3 DEF IndexRecords, Agrees
<1>8. \A b \in y.bans : y.held[b[1]] # None
  BY <1>1, <1>2, <1>3 DEF IndexRecords, Agrees
<1>9. IndexOK(y)
  BY <1>2, <1>5, <1>6, <1>7, <1>8 DEF IndexOK, Agrees
<1> QED
  BY <1>2, <1>9

(* updateHostAttributes() changes labels only.                             *)
LEMMA LabelOK ==
  ASSUME NEW x, IndexOK(x), NEW h \in Hosts, NEW m \in MaintenanceMode
  PROVE  /\ IndexOK(UpdateHostAttributes(x, h, m))
         /\ \A p \in OfferIds : UpdateHostAttributes(x, h, m).held[p] = None <=> x.held[p] = None
         /\ \A s \in Slaves : UpdateHostAttributes(x, h, m).bySlave[s] = x.bySlave[s]
<1> USE OfferAssumption, HostsOfOffers DEF OfferAssumption
<1> DEFINE o == x.byHost[h]
           y == UpdateHostAttributes(x, h, m)
           z == [x EXCEPT !.byHost[h] = None]
<1>1. x \in IndexRecords /\ Agrees(x)
  BY DEF IndexOK
<1>2. CASE o = None
  BY <1>1, <1>2 DEF UpdateHostAttributes, IndexOK
<1>3. CASE o # None
  <2>1. o \in OfferIds /\ x.held[o] # None /\ x.bySlave[OfferSlave[o]] = o
    BY <1>1, <1>3 DEF IndexRecords, Agrees
  <2>2. /\ z \in IndexRecords /\ z.held = x.held /\ z.bySlave = x.bySlave /\ z.bans = x.bans
        /\ z.byHost = [x.byHost EXCEPT ![h] = None]
    BY <1>1 DEF IndexRecords
  <2>3. IndexOK(z)
    BY <1>1, <2>2 DEF IndexRecords, IndexOK, Agrees
  <2> DEFINE w == Remove(z, o)
  <2>4. /\ IndexOK(w) /\ w.held = [x.held EXCEPT ![o] = None]
        /\ w.bySlave[OfferSlave[o]] = None
    <3> HIDE DEF z, o
    <3>1. IndexOK(w)
      BY <2>1, <2>3, RemoveOK
    <3>2. w.held = [z.held EXCEPT ![o] = None]
      BY <2>1, <2>3, RemoveOK
    <3>3. z.held[o] # None
      BY <2>1, <2>2
    <3>4. w.bySlave[OfferSlave[o]] = None
      BY <2>1, <2>3, <3>3, RemoveOK
    <3> QED
      BY <2>2, <3>1, <3>2, <3>4
  <2>5. w.bySlave = [x.bySlave EXCEPT ![OfferSlave[o]] = None]
    BY <2>1, <2>2, SMTT(30) DEF Remove, IndexRecords
  <2>6. y = Add(w, o, m)
    BY <1>3 DEF UpdateHostAttributes
  <2>7. /\ IndexOK(y) /\ y.held = [w.held EXCEPT ![o] = m]
        /\ y.bySlave = [w.bySlave EXCEPT ![OfferSlave[o]] = o]
    BY <2>1, <2>4, <2>6, AddOK
  <2>8. \A p \in OfferIds : y.held[p] = None <=> x.held[p] = None
    BY <1>1, <2>1, <2>4, <2>7 DEF IndexRecords
  <2>9. \A s \in Slaves : y.bySlave[s] = x.bySlave[s]
    BY <1>1, <2>1, <2>5, <2>7 DEF IndexRecords
  <2> QED
    BY <2>7, <2>8, <2>9
<1> QED
  BY <1>2, <1>3

LEMMA BanOK ==
  ASSUME NEW x, IndexOK(x), NEW o \in OfferIds, NEW t \in TaskIds
  PROVE  /\ IndexOK(AddStaticGroupBan(x, o, t))
         /\ AddStaticGroupBan(x, o, t).held = x.held
         /\ AddStaticGroupBan(x, o, t).bySlave = x.bySlave
<1> DEFINE y == AddStaticGroupBan(x, o, t)
<1>1. x \in IndexRecords /\ Agrees(x)
  BY DEF IndexOK
<1>2. CASE x.held[o] = None
  BY <1>1, <1>2 DEF AddStaticGroupBan, IndexOK
<1>3. CASE x.held[o] # None
  <2>1. /\ y \in IndexRecords /\ y.held = x.held /\ y.bySlave = x.bySlave
        /\ y.byHost = x.byHost /\ y.bans = x.bans \cup {<<o, t>>}
    BY <1>1, <1>3 DEF AddStaticGroupBan, IndexRecords
  <2>2. \A b \in y.bans : y.held[b[1]] # None
    BY <1>1, <1>3, <2>1 DEF Agrees
  <2> QED
    BY <1>1, <2>1, <2>2 DEF IndexOK, Agrees
<1> QED
  BY <1>2, <1>3

LEMMA ClearedOK == IndexOK(Cleared)
BY OfferAssumption, HostsOfOffers DEF OfferAssumption, IndexOK, IndexRecords, Agrees, Cleared

(* The record of the indices stands for the four variables.                *)
LEMMA IndexIsOK ==
  ASSUME OffersTypeOK, IndicesAgree
  PROVE  IndexOK(Index)
BY DEF OffersTypeOK, IndicesAgree, IsHeld, IndexOK, IndexRecords, Agrees, Index

LEMMA SetIndexOK ==
  ASSUME NEW x, IndexOK(x), SetIndex(x)
  PROVE  /\ held' \in [OfferIds -> MaintenanceMode \cup {None}]
         /\ bySlave' \in [Slaves -> OfferIds \cup {None}]
         /\ byHost' \in [Hosts -> OfferIds \cup {None}]
         /\ bans' \subseteq OfferIds \X TaskIds
         /\ IndicesAgree'
BY DEF IndicesAgree, IsHeld, IndexOK, IndexRecords, Agrees, SetIndex

-----------------------------------------------------------------------------
(* What the steps have in common.                                          *)

LEMMA SetRemoved ==
  ASSUME OffersTypeOK, IndicesAgree, NEW o \in OfferIds, SetIndex(Remove(Index, o))
  PROVE  /\ held' = [held EXCEPT ![o] = None]
         /\ \A s \in Slaves : bySlave'[s] \in {bySlave[s], None}
         /\ held' \in [OfferIds -> MaintenanceMode \cup {None}]
         /\ bySlave' \in [Slaves -> OfferIds \cup {None}]
         /\ byHost' \in [Hosts -> OfferIds \cup {None}]
         /\ bans' \subseteq OfferIds \X TaskIds
         /\ IndicesAgree'
<1> DEFINE x == Index
<1>1. IndexOK(x) /\ x.held = held /\ x.bySlave = bySlave
  BY IndexIsOK DEF Index
<1> HIDE DEF x
<1>2. /\ IndexOK(Remove(x, o))
      /\ Remove(x, o).held = [x.held EXCEPT ![o] = None]
      /\ \A s \in Slaves : Remove(x, o).bySlave[s] \in {x.bySlave[s], None}
  BY <1>1, RemoveOK
<1>3. SetIndex(Remove(x, o))
  BY DEF x
<1> DEFINE y == Remove(x, o)
<1> HIDE DEF y
<1>4. IndexOK(y) /\ SetIndex(y)
  BY <1>2, <1>3 DEF y
<1>5. held' = y.held /\ bySlave' = y.bySlave
  BY <1>4 DEF SetIndex
<1>6. /\ held' = [held EXCEPT ![o] = None]
      /\ \A s \in Slaves : bySlave'[s] \in {bySlave[s], None}
  BY <1>1, <1>2, <1>5 DEF y
<1> QED
  BY <1>4, <1>6, SetIndexOK

(* The driver is told of offers that are not yet answered.                 *)
LEMMA AnswerOK ==
  ASSUME OffersTypeOK, AnsweredOnce, NEW os \in SUBSET OfferIds, Answer(os),
         \A o \in os : master[o] \in Valid
  PROVE  /\ master' \in [OfferIds -> {"new", "open", "gone", "answered", "twice"}]
         /\ \A o \in OfferIds \ os : master'[o] = master[o]
         /\ AnsweredOnce'
BY DEF OffersTypeOK, AnsweredOnce, Answer, Valid

LEMMA SaveOK ==
  ASSUME OffersTypeOK, NEW h \in Hosts, NEW m \in MaintenanceMode, Save(h, m)
  PROVE  /\ mode' = [mode EXCEPT ![h] = m]
         /\ mode' \in [Hosts -> MaintenanceMode \cup {None}]
         /\ changes' \subseteq Hosts \X MaintenanceMode
         /\ \A g \in Hosts : mode[g] # None => mode'[g] # None
         /\ mode'[h] # None
BY OfferAssumption DEF OfferAssumption, OffersTypeOK, Save

(* A mode that is set leaves the indices, the offers and the tasks alone;  *)
(* what has to be shown is that it may be DRAINED.                         *)
LEMMA ModeSet ==
  ASSUME OffersInv, NEW h \in Hosts, NEW m \in MaintenanceMode,
         SetMaintenanceMode(h, m),
         m = "DRAINED" => ActiveOn(h) = {},
         UNCHANGED <<task, index, lock, net, clears, faults>>,
         ended' \subseteq ended, requests' \in Nat
  PROVE  OffersInv'
<1> USE DEF index, net
<1>1. CASE mode[h] = None
  <2>1. UNCHANGED <<mode, changes>>
    BY <1>1 DEF SetMaintenanceMode
  <2>2. OffersTypeOK'
    BY <2>1 DEF OffersInv, OffersTypeOK
  <2>3. IndicesAgree' /\ OfferOnce' /\ TasksHoused' /\ AnsweredOnce'
    BY <2>1 DEF OffersInv, IndicesAgree, IsHeld, OfferOnce, TasksHoused, AnsweredOnce, HostOf
  <2>4. DrainedIsEmpty'
    BY <2>1 DEF OffersInv, DrainedIsEmpty, Mode, ActiveOn
  <2> QED
    BY <2>2, <2>3, <2>4 DEF OffersInv
<1>2. CASE mode[h] # None
  <2>1. Save(h, m)
    BY <1>2 DEF SetMaintenanceMode
  <2>2. /\ mode' = [mode EXCEPT ![h] = m]
        /\ mode' \in [Hosts -> MaintenanceMode \cup {None}]
        /\ changes' \subseteq Hosts \X MaintenanceMode
        /\ \A g \in Hosts : mode[g] # None => mode'[g] # None
    BY <2>1, SaveOK DEF OffersInv
  <2>3. OffersTypeOK'
    BY <2>2 DEF OffersInv, OffersTypeOK, TasksHoused
  <2>4. IndicesAgree' /\ TasksHoused' /\ AnsweredOnce'
    BY DEF OffersInv, IndicesAgree, IsHeld, TasksHoused, AnsweredOnce
  <2>5. OfferOnce'
    BY <2>2, HostsOfOffers DEF OffersInv, OffersTypeOK, OfferOnce, IsHeld, HostOf
  <2>6. DrainedIsEmpty'
    BY <2>2, OfferAssumption
    DEF OfferAssumption, OffersInv, OffersTypeOK, DrainedIsEmpty, Mode, ActiveOn
  <2> QED
    BY <2>3, <2>4, <2>5, <2>6 DEF OffersInv
<1> QED
  BY <1>1, <1>2

(* An offer is taken out of the indices, answered or lost at Mesos.        *)
LEMMA OfferGoes ==
  ASSUME OffersInv, NEW o \in OfferIds, SetIndex(Remove(Index, o)),
         master' \in [OfferIds -> {"new", "open", "gone", "answered", "twice"}],
         \A p \in OfferIds \ {o} : master'[p] = master[p],
         IsHeld(o) \/ master'[o] \in Valid,
         AnsweredOnce',
         UNCHANGED <<mode, task, lock, changes, ended, inbox, links>>
  PROVE  OffersInv'
<1>1. OffersTypeOK /\ IndicesAgree /\ OfferOnce
  BY DEF OffersInv
<1>2. /\ held' = [held EXCEPT ![o] = None]
      /\ \A s \in Slaves : bySlave'[s] \in {bySlave[s], None}
      /\ held' \in [OfferIds -> MaintenanceMode \cup {None}]
      /\ bySlave' \in [Slaves -> OfferIds \cup {None}]
      /\ byHost' \in [Hosts -> OfferIds \cup {None}]
      /\ bans' \subseteq OfferIds \X TaskIds
      /\ IndicesAgree'
  BY <1>1, SetRemoved
<1>3. OffersTypeOK'
  BY <1>1, <1>2 DEF OffersTypeOK, links
<1>4. OfferOnce'
  <2>1. \A p \in OfferIds : IsHeld(p)' => IsHeld(p) /\ p # o
    BY <1>1, <1>2 DEF OffersTypeOK, IsHeld
  <2>2. \A p \in OfferIds : ~ IsHeld(p) => (master'[p] = master[p] \/ master'[p] \in Valid)
    BY DEF IsHeld
  <2>3. \A p \in inbox' : master'[p] \in Valid /\ ~ IsHeld(p)'
    BY <1>1, <2>1, <2>2 DEF OfferOnce, OffersTypeOK
  <2>4. \A p \in OfferIds : IsHeld(p)' => master'[p] \in Valid /\ mode'[HostOf(p)] # None
    BY <1>1, <2>1 DEF OfferOnce
  <2>5. ASSUME lock # None, lock.op = "add"
        PROVE  /\ master'[lock.offer] \in Valid
               /\ held'[lock.offer] = None
               /\ lock.offer \notin inbox
               /\ lock.same = None => bySlave'[OfferSlave[lock.offer]] = None
    <3>1. lock.offer \in OfferIds /\ OfferSlave[lock.offer] \in Slaves
      BY <1>1, <2>5, HostsOfOffers DEF OffersTypeOK
    <3>2. /\ master[lock.offer] \in Valid
          /\ ~ IsHeld(lock.offer)
          /\ lock.offer \notin inbox
          /\ lock.same = None => bySlave[OfferSlave[lock.offer]] = None
      BY <1>1, <2>5 DEF OfferOnce
    <3>3. master'[lock.offer] \in Valid /\ held'[lock.offer] = None
      BY <2>1, <2>2, <3>1, <3>2 DEF IsHeld
    <3> QED
      BY <1>2, <3>1, <3>2, <3>3
  <2>6. lock # None => mode'[HostOf(lock.offer)] # None
    BY <1>1 DEF OfferOnce
  <2>7. lock' = lock /\ inbox' = inbox
    OBVIOUS
  <2> QED
    BY <2>3, <2>4, <2>5, <2>6, <2>7 DEF OfferOnce, HostOf, IsHeld
<1>5. TasksHoused' /\ DrainedIsEmpty'
  BY DEF OffersInv, TasksHoused, DrainedIsEmpty, Mode, ActiveOn
<1> QED
  BY <1>2, <1>3, <1>4, <1>5 DEF OffersInv

-----------------------------------------------------------------------------
(* The steps of offers.                                                    *)

LEMMA OfferMadeKeeps ==
  ASSUME OffersInv, NEW o \in OfferIds, OfferMade(o)
  PROVE  OffersInv'
<1> USE DEF OfferMade, index, links
<1>1. OffersTypeOK /\ OfferOnce
  BY DEF OffersInv
<1>2. OffersTypeOK'
  BY <1>1 DEF OffersTypeOK
<1>3. ~ IsHeld(o) /\ (lock # None /\ lock.op = "add" => lock.offer # o)
  BY <1>1 DEF OfferOnce, Valid
<1>4. \A p \in OfferIds : master[p] \in Valid => master'[p] \in Valid
  BY <1>1 DEF OffersTypeOK, Valid
<1>5. lock # None => lock.offer \in OfferIds
  BY <1>1 DEF OffersTypeOK
<1>6. master'[o] \in Valid
  BY <1>1 DEF OffersTypeOK, Valid
<1>7. OfferOnce'
  BY <1>1, <1>3, <1>4, <1>5, <1>6 DEF OfferOnce, OffersTypeOK, IsHeld, HostOf
<1>8. IndicesAgree' /\ TasksHoused' /\ DrainedIsEmpty'
  BY DEF OffersInv, IndicesAgree, IsHeld, TasksHoused, DrainedIsEmpty, Mode, ActiveOn
<1>9. AnsweredOnce'
  BY <1>1 DEF OffersInv, OffersTypeOK, AnsweredOnce
<1> QED
  BY <1>2, <1>7, <1>8, <1>9 DEF OffersInv

LEMMA ResourceOffersKeeps ==
  ASSUME OffersInv, NEW o \in OfferIds, ResourceOffers(o)
  PROVE  OffersInv'
<1> USE DEF index, links
<1> DEFINE h == HostOf(o)
<1>1. OffersTypeOK /\ OfferOnce /\ h \in Hosts /\ Mode(h) \in MaintenanceMode
  BY HostsOfOffers DEF OffersInv, OffersTypeOK, Mode, MaintenanceMode
<1>2. /\ o \in inbox /\ inbox' = inbox \ {o} /\ Save(h, Mode(h))
      /\ lock' = [op |-> "add", offer |-> o, same |-> bySlave[OfferSlave[o]], label |-> Mode(h)]
      /\ UNCHANGED <<task, index, ended, master, links>>
  BY DEF ResourceOffers
<1> HIDE DEF h
<1>3. /\ mode' = [mode EXCEPT ![h] = Mode(h)]
      /\ mode' \in [Hosts -> MaintenanceMode \cup {None}]
      /\ changes' \subseteq Hosts \X MaintenanceMode
      /\ \A g \in Hosts : mode[g] # None => mode'[g] # None
      /\ mode'[h] # None
  BY <1>1, <1>2, SaveOK
<1>4. OffersTypeOK'
  <2>1. lock' \in [op : {"add"}, offer : OfferIds, same : OfferIds \cup {None},
                   label : MaintenanceMode]
    BY <1>1, <1>2, HostsOfOffers DEF OffersTypeOK
  <2> QED
    BY <1>1, <1>2, <1>3, <2>1 DEF OffersInv, OffersTypeOK, TasksHoused
<1>5. OfferOnce'
  <2>1. \A p \in inbox' : master'[p] \in Valid /\ ~ IsHeld(p)'
    BY <1>1, <1>2 DEF OfferOnce, IsHeld
  <2>2. \A p \in OfferIds : IsHeld(p)' => master'[p] \in Valid /\ mode'[HostOf(p)] # None
    BY <1>1, <1>2, <1>3, HostsOfOffers DEF OfferOnce, IsHeld
  <2>3. lock'.offer = o /\ lock'.same = bySlave[OfferSlave[o]] /\ mode'[HostOf(o)] # None
    BY <1>2, <1>3 DEF h
  <2>4. master'[o] \in Valid /\ held'[o] = None /\ o \notin inbox' /\ bySlave' = bySlave
    BY <1>1, <1>2 DEF OfferOnce, IsHeld
  <2> QED
    BY <2>1, <2>2, <2>3, <2>4 DEF OfferOnce, HostOf, IsHeld
<1>6. IndicesAgree' /\ TasksHoused' /\ AnsweredOnce'
  BY <1>2 DEF OffersInv, IndicesAgree, IsHeld, TasksHoused, AnsweredOnce
<1>7. DrainedIsEmpty'
  <2>1. \A g \in Hosts : Mode(g)' = Mode(g)
    BY <1>1, <1>3, OfferAssumption DEF OfferAssumption, OffersTypeOK, Mode
  <2> QED
    BY <1>2, <2>1 DEF OffersInv, DrainedIsEmpty, ActiveOn
<1> QED
  BY <1>4, <1>5, <1>6, <1>7 DEF OffersInv

LEMMA AddOfferKeeps ==
  ASSUME OffersInv, AddOffer
  PROVE  OffersInv'
<1> USE DEF links
<1> DEFINE o == lock.offer
<1>1. OffersTypeOK /\ IndicesAgree /\ OfferOnce /\ AnsweredOnce
  BY DEF OffersInv
<1>2. /\ lock # None /\ lock.op = "add" /\ lock' = None
      /\ UNCHANGED <<mode, task, changes, ended, inbox, links>>
  BY DEF AddOffer
<1>3. /\ o \in OfferIds /\ lock.same \in OfferIds \cup {None} /\ lock.label \in MaintenanceMode
      /\ master[o] \in Valid /\ ~ IsHeld(o) /\ o \notin inbox /\ mode[HostOf(o)] # None
      /\ lock.same = None => bySlave[OfferSlave[o]] = None
  BY <1>1, <1>2 DEF OffersTypeOK, OfferOnce
<1>4. TasksHoused' /\ DrainedIsEmpty'
  BY <1>2 DEF OffersInv, TasksHoused, DrainedIsEmpty, Mode, ActiveOn
<1>5. CASE lock.same # None
  <2> DEFINE p == lock.same
             os == {o} \cup (IF IsHeld(p) THEN {p} ELSE {})
  <2>1. p \in OfferIds /\ SetIndex(Remove(Index, p)) /\ Answer(os)
    BY <1>3, <1>5 DEF AddOffer
  <2>2. os \in SUBSET OfferIds /\ \A q \in os : master[q] \in Valid
    BY <1>1, <1>3, <2>1 DEF OfferOnce
  <2> HIDE DEF o, p
  <2>3. /\ held' = [held EXCEPT ![p] = None]
        /\ held' \in [OfferIds -> MaintenanceMode \cup {None}]
        /\ bySlave' \in [Slaves -> OfferIds \cup {None}]
        /\ byHost' \in [Hosts -> OfferIds \cup {None}]
        /\ bans' \subseteq OfferIds \X TaskIds
        /\ IndicesAgree'
    BY <1>1, <2>1, SetRemoved
  <2> HIDE DEF os
  <2>4. /\ master' \in [OfferIds -> {"new", "open", "gone", "answered", "twice"}]
        /\ \A q \in OfferIds \ os : master'[q] = master[q]
        /\ AnsweredOnce'
    BY <1>1, <2>1, <2>2, AnswerOK
  <2>5. OffersTypeOK'
    BY <1>1, <1>2, <2>3, <2>4 DEF OffersTypeOK
  <2>6. \A q \in OfferIds : held'[q] # None => IsHeld(q) /\ q \notin os
    BY <1>1, <1>3, <2>1, <2>3 DEF OffersTypeOK, IsHeld, os, o
  <2>7. \A q \in inbox : q \notin os /\ held'[q] = None
    BY <1>1, <1>3, <2>1, <2>3 DEF OffersTypeOK, OfferOnce, IsHeld, os, o
  <2>8. OfferOnce'
    BY <1>1, <1>2, <2>4, <2>6, <2>7 DEF OffersTypeOK, OfferOnce, IsHeld, HostOf
  <2> QED
    BY <1>4, <2>3, <2>4, <2>5, <2>8 DEF OffersInv
<1>6. CASE lock.same = None
  <2> DEFINE x == Index
             m == lock.label
             y == Add(x, o, m)
  <2>1. SetIndex(Add(x, o, m)) /\ UNCHANGED master
    BY <1>6 DEF AddOffer
  <2>2. IndexOK(x) /\ x.held = held /\ x.bySlave = bySlave /\ m \in MaintenanceMode
    BY <1>1, <1>3, IndexIsOK DEF Index
  <2> HIDE DEF x, o, m
  <2>3. o \in OfferIds /\ x.bySlave[OfferSlave[o]] = None
    BY <1>3, <1>6, <2>2 DEF o
  <2>4. /\ IndexOK(Add(x, o, m))
        /\ \A q \in OfferIds \ {o} : Add(x, o, m).held[q] = x.held[q]
    <3>1. IndexOK(Add(x, o, m))
      BY <2>2, <2>3, AddOK
    <3>2. \A q \in OfferIds \ {o} : Add(x, o, m).held[q] = x.held[q]
      <4>1. x \in IndexRecords
        BY <2>2 DEF IndexOK
      <4> QED
        BY <2>3, <4>1, HostsOfOffers DEF Add, IndexRecords
    <3> QED
      BY <3>1, <3>2
  <2>5. IndexOK(y) /\ SetIndex(y) /\ \A q \in OfferIds \ {o} : y.held[q] = held[q]
    BY <2>1, <2>2, <2>4
  <2> HIDE DEF y
  <2>6. /\ held' \in [OfferIds -> MaintenanceMode \cup {None}]
        /\ bySlave' \in [Slaves -> OfferIds \cup {None}]
        /\ byHost' \in [Hosts -> OfferIds \cup {None}]
        /\ bans' \subseteq OfferIds \X TaskIds
        /\ IndicesAgree'
    BY <2>5, SetIndexOK
  <2>7. \A q \in OfferIds \ {o} : held'[q] = held[q]
    BY <2>5 DEF SetIndex
  <2>8. OffersTypeOK' /\ AnsweredOnce'
    BY <1>1, <1>2, <2>1, <2>6 DEF OffersTypeOK, AnsweredOnce
  <2>9. \A q \in OfferIds : held'[q] # None => IsHeld(q) \/ q = o
    BY <1>1, <2>7 DEF OffersTypeOK, IsHeld
  <2>10. \A q \in inbox : held'[q] = None
    BY <1>1, <1>3, <2>9 DEF OffersTypeOK, OfferOnce, IsHeld, o
  <2>11. master[o] \in Valid /\ mode[HostOf(o)] # None
    BY <1>3 DEF o
  <2>12. OfferOnce'
    BY <1>1, <1>2, <2>1, <2>9, <2>10, <2>11 DEF OfferOnce, IsHeld, HostOf
  <2> QED
    BY <1>4, <2>6, <2>8, <2>12 DEF OffersInv
<1> QED
  BY <1>5, <1>6

LEMMA ReturnOfferKeeps ==
  ASSUME OffersInv, NEW o \in OfferIds, ReturnOffer(o)
  PROVE  OffersInv'
<1>1. OffersTypeOK /\ AnsweredOnce /\ {o} \in SUBSET OfferIds /\ master[o] \in Valid
  BY DEF OffersInv, OfferOnce, ReturnOffer
<1>2. Answer({o})
  BY DEF ReturnOffer
<1>3. /\ master' \in [OfferIds -> {"new", "open", "gone", "answered", "twice"}]
      /\ \A p \in OfferIds \ {o} : master'[p] = master[p]
      /\ AnsweredOnce'
  BY <1>1, <1>2, AnswerOK
<1> QED
  BY <1>3, OfferGoes DEF ReturnOffer

LEMMA OfferRescindedKeeps ==
  ASSUME OffersInv, NEW o \in OfferIds, OfferRescinded(o)
  PROVE  OffersInv'
<1>1. master' = [master EXCEPT ![o] = "gone"]
  BY DEF OfferRescinded
<1>2. /\ master' \in [OfferIds -> {"new", "open", "gone", "answered", "twice"}]
      /\ \A p \in OfferIds \ {o} : master'[p] = master[p]
      /\ master'[o] \in Valid
      /\ AnsweredOnce'
  BY <1>1 DEF OffersInv, OffersTypeOK, AnsweredOnce, Valid
<1> QED
  BY <1>2, OfferGoes DEF OfferRescinded

LEMMA HostAttributesChangedKeeps ==
  ASSUME OffersInv, NEW c \in changes, HostAttributesChanged(c[1], c[2])
  PROVE  OffersInv'
<1> USE DEF net, links
<1> DEFINE x == Index
           h == c[1]
           m == c[2]
           y == UpdateHostAttributes(x, h, m)
<1>1. OffersTypeOK /\ IndicesAgree /\ OfferOnce
  BY DEF OffersInv
<1>2. IndexOK(x) /\ x.held = held /\ x.bySlave = bySlave
  BY <1>1, IndexIsOK DEF Index
<1>3. h \in Hosts /\ m \in MaintenanceMode
  BY <1>1 DEF OffersTypeOK
<1>4. /\ changes' = changes \ {<<h, m>>} /\ SetIndex(UpdateHostAttributes(x, h, m))
      /\ UNCHANGED <<mode, task, lock, ended, net, links>>
  BY DEF HostAttributesChanged
<1> HIDE DEF x, h, m
<1>5. IndexOK(y)
  BY <1>2, <1>3, LabelOK
<1>6. \A p \in OfferIds : y.held[p] = None <=> x.held[p] = None
  BY <1>2, <1>3, LabelOK
<1>7. \A s \in Slaves : y.bySlave[s] = x.bySlave[s]
  BY <1>2, <1>3, LabelOK
<1>8. SetIndex(y)
  BY <1>4
<1> HIDE DEF y
<1>9. /\ held' \in [OfferIds -> MaintenanceMode \cup {None}]
      /\ bySlave' \in [Slaves -> OfferIds \cup {None}]
      /\ byHost' \in [Hosts -> OfferIds \cup {None}]
      /\ bans' \subseteq OfferIds \X TaskIds
      /\ IndicesAgree'
  BY <1>5, <1>8, SetIndexOK
<1>10. \A p \in OfferIds : held'[p] = None <=> held[p] = None
  BY <1>2, <1>6, <1>8 DEF SetIndex
<1>11. \A s \in Slaves : bySlave'[s] = bySlave[s]
  BY <1>2, <1>7, <1>8 DEF SetIndex
<1>12. OffersTypeOK'
  BY <1>1, <1>4, <1>9 DEF OffersTypeOK
<1>13. lock # None => lock.offer \in OfferIds /\ OfferSlave[lock.offer] \in Slaves
  BY <1>1, HostsOfOffers DEF OffersTypeOK
<1>14. OfferOnce'
  BY <1>1, <1>4, <1>10, <1>11, <1>13 DEF OffersTypeOK, OfferOnce, IsHeld, HostOf
<1>15. TasksHoused' /\ AnsweredOnce' /\ DrainedIsEmpty'
  BY <1>4 DEF OffersInv, TasksHoused, AnsweredOnce, DrainedIsEmpty, Mode, ActiveOn
<1> QED
  BY <1>9, <1>12, <1>14, <1>15 DEF OffersInv

(* The event of a lost connection empties the indices, and so does a new   *)
(* leader; Mesos withdraws what is open.                                   *)
LEMMA ClearingKeeps ==
  ASSUME OffersInv, SetIndex(Cleared) \/ UNCHANGED index,
         master' \in {master, Withdrawn}, inbox' \subseteq inbox,
         changes' \subseteq changes, \A t \in ended' : t \in TaskIds /\ task[t].st = "ENDED",
         {clears', faults', requests'} \subseteq Nat,
         UNCHANGED <<mode, task, lock>>
  PROVE  OffersInv'
<1>1. OffersTypeOK /\ IndicesAgree /\ OfferOnce
  BY DEF OffersInv
<1>2. /\ held' \in [OfferIds -> MaintenanceMode \cup {None}]
      /\ bySlave' \in [Slaves -> OfferIds \cup {None}]
      /\ byHost' \in [Hosts -> OfferIds \cup {None}]
      /\ bans' \subseteq OfferIds \X TaskIds
      /\ IndicesAgree'
      /\ \A p \in OfferIds : held'[p] # None => held[p] # None
      /\ \A s \in Slaves : bySlave'[s] \in {bySlave[s], None}
  <2>1. CASE SetIndex(Cleared)
    <3>1. held' = Cleared.held /\ bySlave' = Cleared.bySlave
      BY <2>1 DEF SetIndex
    <3> QED
      BY <2>1, <3>1, ClearedOK, SetIndexOK DEF Cleared
  <2>2. CASE UNCHANGED index
    BY <1>1, <2>2 DEF OffersTypeOK, IndicesAgree, IsHeld, index
  <2> QED
    BY <2>1, <2>2
<1>3. /\ master' \in [OfferIds -> {"new", "open", "gone", "answered", "twice"}]
      /\ \A p \in OfferIds : master[p] \in Valid => master'[p] \in Valid
      /\ AnsweredOnce'
  BY <1>1 DEF OffersInv, OffersTypeOK, AnsweredOnce, Withdrawn, Valid
<1>4. OffersTypeOK'
  BY <1>1, <1>2, <1>3 DEF OffersTypeOK
<1>5. lock # None => lock.offer \in OfferIds /\ OfferSlave[lock.offer] \in Slaves
  BY <1>1, HostsOfOffers DEF OffersTypeOK
<1>6. OfferOnce'
  BY <1>1, <1>2, <1>3, <1>5 DEF OffersTypeOK, OfferOnce, IsHeld, HostOf
<1>7. TasksHoused' /\ DrainedIsEmpty'
  BY DEF OffersInv, TasksHoused, DrainedIsEmpty, Mode, ActiveOn
<1> QED
  BY <1>2, <1>3, <1>4, <1>6, <1>7 DEF OffersInv

-----------------------------------------------------------------------------
(* The steps of tasks and hosts.                                           *)

LEMMA PickOfferKeeps ==
  ASSUME OffersInv, NEW t \in TaskIds, PickOffer(t)
  PROVE  OffersInv'
<1> USE DEF index, net, links
<1>1. OffersTypeOK /\ OfferOnce
  BY DEF OffersInv
<1>2. PICK o \in OfferIds :
        /\ IsHeld(o)
        /\ lock' = [op |-> "assign", task |-> t, offer |-> o, label |-> held[o]]
  BY DEF PickOffer, Candidates
<1>3. UNCHANGED <<mode, task, index, changes, ended, net, links>>
  BY DEF PickOffer
<1>4. held[o] \in MaintenanceMode
  BY <1>1, <1>2 DEF OffersTypeOK, IsHeld
<1>5. lock' \in [op : {"assign"}, task : TaskIds, offer : OfferIds, label : MaintenanceMode]
  BY <1>2, <1>4
<1>6. OffersTypeOK'
  BY <1>1, <1>3, <1>5 DEF OffersTypeOK
<1>7. lock'.op = "assign" /\ lock'.offer = o /\ mode[HostOf(o)] # None
  BY <1>1, <1>2 DEF OfferOnce
<1>8. OfferOnce'
  BY <1>1, <1>3, <1>7 DEF OfferOnce, IsHeld, HostOf
<1>9. IndicesAgree' /\ AnsweredOnce' /\ DrainedIsEmpty'
  BY <1>3 DEF OffersInv, IndicesAgree, IsHeld, AnsweredOnce, DrainedIsEmpty, Mode, ActiveOn
<1>10. task[t].st = "PENDING" /\ lock'.task = t
  BY <1>2 DEF PickOffer
<1>11. TasksHoused'
  BY <1>3, <1>10 DEF OffersInv, TasksHoused
<1> QED
  BY <1>6, <1>8, <1>9, <1>11 DEF OffersInv

LEMMA AssignOrBanKeeps ==
  ASSUME OffersInv, AssignOrBan
  PROVE  OffersInv'
<1> USE DEF links
<1> DEFINE o == lock.offer
           t == lock.task
<1>1. OffersTypeOK /\ IndicesAgree /\ OfferOnce /\ AnsweredOnce /\ TasksHoused
  BY DEF OffersInv
<1>2. /\ lock # None /\ lock.op = "assign" /\ lock' = None
      /\ UNCHANGED <<mode, changes, ended, inbox, links>>
  BY DEF AssignOrBan
<1>3. o \in OfferIds /\ t \in TaskIds /\ mode[HostOf(o)] # None /\ HostOf(o) \in Hosts
  BY <1>1, <1>2, HostsOfOffers DEF OffersTypeOK, OfferOnce
<1>4. CASE VetoOf(t, o, lock.label) = "STATIC"
  <2> DEFINE x == Index
             y == AddStaticGroupBan(x, o, t)
  <2>1. SetIndex(y) /\ UNCHANGED <<task, master>>
    BY <1>4 DEF AssignOrBan
  <2>2. IndexOK(x) /\ x.held = held /\ x.bySlave = bySlave
    BY <1>1, IndexIsOK DEF Index
  <2> HIDE DEF x, o, t
  <2>3. IndexOK(y) /\ y.held = x.held
    BY <1>3, <2>2, BanOK
  <2> HIDE DEF y
  <2>4. /\ held' \in [OfferIds -> MaintenanceMode \cup {None}]
        /\ bySlave' \in [Slaves -> OfferIds \cup {None}]
        /\ byHost' \in [Hosts -> OfferIds \cup {None}]
        /\ bans' \subseteq OfferIds \X TaskIds
        /\ IndicesAgree'
    BY <2>1, <2>3, SetIndexOK
  <2>5. held' = held
    BY <2>1, <2>2, <2>3 DEF SetIndex
  <2>6. OffersTypeOK'
    BY <1>1, <1>2, <2>1, <2>4 DEF OffersTypeOK
  <2>7. OfferOnce' /\ TasksHoused' /\ AnsweredOnce'
    BY <1>1, <1>2, <2>1, <2>5 DEF OfferOnce, IsHeld, HostOf, TasksHoused, AnsweredOnce
  <2>8. DrainedIsEmpty'
    BY <1>2, <2>1 DEF OffersInv, DrainedIsEmpty, Mode, ActiveOn
  <2> QED
    BY <2>4, <2>6, <2>7, <2>8 DEF OffersInv
<1>5. CASE VetoOf(t, o, lock.label) = "EMPTY"
  <2> DEFINE os == IF IsHeld(o) THEN {o} ELSE {}
             h == HostOf(o)
  <2>1. /\ SetIndex(Remove(Index, o)) /\ Answer(os)
        /\ task' = [task EXCEPT ![t] = Assigned(h)]
    BY <1>5 DEF AssignOrBan
  <2>2. os \in SUBSET OfferIds /\ \A q \in os : master[q] \in Valid
    BY <1>1, <1>3 DEF OfferOnce
  <2> HIDE DEF o, t
  <2>3. /\ held' = [held EXCEPT ![o] = None]
        /\ held' \in [OfferIds -> MaintenanceMode \cup {None}]
        /\ bySlave' \in [Slaves -> OfferIds \cup {None}]
        /\ byHost' \in [Hosts -> OfferIds \cup {None}]
        /\ bans' \subseteq OfferIds \X TaskIds
        /\ IndicesAgree'
    BY <1>1, <1>3, <2>1, SetRemoved
  <2>4. \A q \in OfferIds : held'[q] # None => IsHeld(q) /\ q \notin os
    BY <1>1, <1>3, <2>3 DEF OffersTypeOK, IsHeld
  <2>5. \A q \in inbox : q \notin os /\ held'[q] = None
    BY <1>1, <1>3, <2>3 DEF OffersTypeOK, OfferOnce, IsHeld
  <2> HIDE DEF os
  <2>6. /\ master' \in [OfferIds -> {"new", "open", "gone", "answered", "twice"}]
        /\ \A q \in OfferIds \ os : master'[q] = master[q]
        /\ AnsweredOnce'
    BY <1>1, <2>1, <2>2, AnswerOK
  <2>7. OfferOnce'
    BY <1>1, <1>2, <2>4, <2>5, <2>6 DEF OffersTypeOK, OfferOnce, IsHeld, HostOf
  <2> HIDE DEF h
  <2>8. h \in Hosts /\ mode[h] # None
    BY <1>3 DEF h
  <2>9. /\ Assigned(h) \in [st : TaskStatus, host : Hosts \cup {None}]
        /\ Assigned(h).host = h
        /\ Assigned(h).st \in {"ACTIVE", "LATE"}
        /\ Mode(h) = "DRAINED" => Assigned(h).st = "LATE"
    BY <2>8 DEF Assigned, TaskStatus, VETO_MODES
  <2>10. task' \in [TaskIds -> [st : TaskStatus, host : Hosts \cup {None}]]
    BY <1>1, <1>3, <2>1, <2>9 DEF OffersTypeOK
  <2>11. \A u \in TaskIds : task'[u] = IF u = t THEN Assigned(h) ELSE task[u]
    BY <1>1, <1>3, <2>1 DEF OffersTypeOK
  <2>12. OffersTypeOK'
    <3>1. \A u \in TaskIds : task'[u].st # "PENDING" => mode[task'[u].host] # None
      BY <1>1, <2>8, <2>9, <2>11 DEF OffersTypeOK
    <3> QED
      BY <1>1, <1>2, <2>3, <2>6, <2>10, <3>1 DEF OffersTypeOK
  <2>13. t \notin ended
    <3>1. task[t].st = "PENDING"
      BY <1>1, <1>2 DEF TasksHoused, t
    <3> QED
      BY <1>1, <3>1 DEF TasksHoused
  <2>14. TasksHoused'
    BY <1>1, <1>2, <2>8, <2>9, <2>11, <2>13 DEF OffersTypeOK, TasksHoused
  <2>15. DrainedIsEmpty'
    BY <1>2, <2>9, <2>11 DEF OffersInv, DrainedIsEmpty, Mode, ActiveOn
  <2> QED
    BY <2>3, <2>6, <2>7, <2>12, <2>14, <2>15 DEF OffersInv
<1>6. CASE VetoOf(t, o, lock.label) = "DYNAMIC"
  <2>1. UNCHANGED <<task, master, index>>
    BY <1>6 DEF AssignOrBan
  <2>2. OffersTypeOK' /\ IndicesAgree'
    BY <1>1, <1>2, <2>1 DEF OffersTypeOK, IndicesAgree, IsHeld, HostOf, index
  <2>3. OfferOnce' /\ TasksHoused' /\ AnsweredOnce'
    BY <1>1, <1>2, <2>1 DEF OfferOnce, IsHeld, HostOf, TasksHoused, AnsweredOnce, index
  <2>4. DrainedIsEmpty'
    BY <1>2, <2>1 DEF OffersInv, DrainedIsEmpty, Mode, ActiveOn
  <2> QED
    BY <2>2, <2>3, <2>4 DEF OffersInv
<1> QED
  BY <1>4, <1>5, <1>6 DEF AssignOrBan

LEMMA DrainKeeps ==
  ASSUME OffersInv, NEW h \in Hosts, Drain(h)
  PROVE  OffersInv'
<1> USE DEF index, net
<1> DEFINE on == ActiveOn(h)
           m == IF on = {} THEN "DRAINED" ELSE "DRAINING"
<1>1. OffersTypeOK /\ OfferOnce /\ TasksHoused /\ requests \in Nat /\ m \in MaintenanceMode
  BY DEF OffersInv, OffersTypeOK, MaintenanceMode
<1>2. /\ lock = None /\ requests' = requests + 1
      /\ task' = [t \in TaskIds |->
           IF t \in on THEN [task[t] EXCEPT !.st = "STOPPING"] ELSE task[t]]
      /\ SetMaintenanceMode(h, m)
      /\ UNCHANGED <<index, lock, ended, net, clears, faults>>
  BY DEF Drain, Admin
<1>3. on = {} => m = "DRAINED"
  OBVIOUS
<1>4. on # {} => m = "DRAINING"
  OBVIOUS
<1>5. \A t \in on : t \in TaskIds /\ task[t].st \in OnSlave /\ task[t].host = h
  BY DEF ActiveOn
<1>6. \A t \in TaskIds : task[t].st \in OnSlave /\ task[t].host = h => t \in on
  BY DEF ActiveOn
<1> HIDE DEF on, m
<1>7. \A t \in TaskIds :
        /\ task'[t] \in [st : TaskStatus, host : Hosts \cup {None}]
        /\ task'[t].host = task[t].host
        /\ t \in on => task'[t].st = "STOPPING"
        /\ t \notin on => task'[t].st = task[t].st
  BY <1>1, <1>2 DEF OffersTypeOK, TaskStatus
<1>8. task' \in [TaskIds -> [st : TaskStatus, host : Hosts \cup {None}]]
  BY <1>2, <1>7
<1>9. /\ mode' \in [Hosts -> MaintenanceMode \cup {None}]
      /\ changes' \subseteq Hosts \X MaintenanceMode
      /\ \A g \in Hosts : mode[g] # None => mode'[g] # None
      /\ \A g \in Hosts \ {h} : mode'[g] = mode[g]
      /\ mode[h] # None => mode'[h] = m
      /\ mode[h] = None => mode' = mode
  <2>1. CASE mode[h] = None
    BY <1>1, <1>2, <2>1 DEF SetMaintenanceMode, OffersTypeOK
  <2>2. CASE mode[h] # None
    <3>1. Save(h, m)
      BY <1>2, <2>2 DEF SetMaintenanceMode
    <3>2. /\ mode' = [mode EXCEPT ![h] = m]
          /\ mode' \in [Hosts -> MaintenanceMode \cup {None}]
          /\ changes' \subseteq Hosts \X MaintenanceMode
          /\ \A g \in Hosts : mode[g] # None => mode'[g] # None
      BY <1>1, <3>1, SaveOK
    <3> QED
      BY <1>1, <2>2, <3>2 DEF OffersTypeOK
  <2> QED
    BY <2>1, <2>2
<1>10. \A t \in TaskIds : task'[t].st # "PENDING" => task[t].st # "PENDING"
  BY <1>5, <1>7 DEF OnSlave
<1>11. OffersTypeOK'
  <2>1. \A t \in TaskIds : task'[t].st # "PENDING" => mode'[task'[t].host] # None
    BY <1>1, <1>7, <1>9, <1>10 DEF OffersTypeOK, TasksHoused
  <2> QED
    BY <1>1, <1>2, <1>8, <1>9, <2>1 DEF OffersTypeOK
<1>12. TasksHoused'
  <2>1. \A t \in ended : task'[t].st = "ENDED"
    BY <1>1, <1>5, <1>7 DEF OffersTypeOK, TasksHoused, OnSlave
  <2> QED
    BY <1>1, <1>2, <1>7, <1>10, <2>1 DEF TasksHoused
<1>13. OfferOnce'
  BY <1>1, <1>2, <1>9, HostsOfOffers DEF OfferOnce, IsHeld, HostOf
<1>14. IndicesAgree' /\ AnsweredOnce'
  BY <1>2 DEF OffersInv, IndicesAgree, IsHeld, AnsweredOnce
<1>15. DrainedIsEmpty'
  <2>1. SUFFICES ASSUME NEW g \in Hosts, Mode(g)' = "DRAINED", NEW t \in TaskIds,
                        task'[t].st \in OnSlave, task'[t].host = g
                 PROVE  task'[t].st = "LATE"
    BY DEF DrainedIsEmpty, ActiveOn
  <2>2. task[t].host = g /\ task[t].st \in OnSlave
    BY <1>5, <1>7, <2>1
  <2>3. CASE g = h
    <3>1. t \in on /\ m = "DRAINING"
      BY <1>4, <1>6, <2>2, <2>3
    <3>2. mode[h] # None
      BY <1>1, <2>2, <2>3 DEF OffersTypeOK, OnSlave
    <3> QED
      BY <1>9, <2>1, <2>3, <3>1, <3>2 DEF Mode
  <2>4. CASE g # h
    <3>1. Mode(g) = "DRAINED" /\ t \notin on
      BY <1>5, <1>9, <2>1, <2>2, <2>4 DEF Mode
    <3> QED
      BY <1>7, <2>2, <3>1 DEF OffersInv, DrainedIsEmpty, ActiveOn
  <2> QED
    BY <2>3, <2>4
<1> QED
  BY <1>11, <1>12, <1>13, <1>14, <1>15 DEF OffersInv

LEMMA TaskChangedStateKeeps ==
  ASSUME OffersInv, NEW t \in TaskIds, TaskChangedState(t)
  PROVE  OffersInv'
<1> USE DEF index, net, links
<1> DEFINE h == task[t].host
<1>1. /\ ended' = ended \ {t} /\ t \in ended
      /\ UNCHANGED <<task, index, lock, net, links>>
  BY DEF TaskChangedState
<1>2. h \in Hosts /\ requests \in Nat
  BY <1>1 DEF OffersInv, TasksHoused, OffersTypeOK
<1>3. CASE Mode(h) = "DRAINING" /\ ActiveOn(h) = {}
  <2>1. SetMaintenanceMode(h, "DRAINED") /\ "DRAINED" \in MaintenanceMode
    BY <1>3 DEF TaskChangedState, MaintenanceMode
  <2> QED
    BY <1>1, <1>2, <1>3, <2>1, ModeSet
<1>4. CASE ~ (Mode(h) = "DRAINING" /\ ActiveOn(h) = {})
  <2>1. UNCHANGED <<mode, changes>>
    BY <1>4 DEF TaskChangedState
  <2>2. OffersTypeOK'
    BY <1>1, <2>1 DEF OffersInv, OffersTypeOK
  <2>3. IndicesAgree' /\ OfferOnce' /\ TasksHoused' /\ AnsweredOnce'
    BY <1>1, <2>1 DEF OffersInv, IndicesAgree, IsHeld, OfferOnce, TasksHoused, AnsweredOnce, HostOf
  <2>4. DrainedIsEmpty'
    BY <1>1, <2>1 DEF OffersInv, DrainedIsEmpty, Mode, ActiveOn
  <2> QED
    BY <2>2, <2>3, <2>4 DEF OffersInv
<1> QED
  BY <1>3, <1>4

LEMMA TaskEndsKeeps ==
  ASSUME OffersInv, NEW t \in TaskIds, TaskEnds(t)
  PROVE  OffersInv'
<1> USE DEF index, net, links
<1>1. /\ lock = None /\ task[t].st \in OnSlave
      /\ task' = [task EXCEPT ![t].st = "ENDED"] /\ ended' = ended \cup {t}
      /\ UNCHANGED <<mode, index, lock, changes, net, links>>
  BY DEF TaskEnds
<1>2. /\ task' \in [TaskIds -> [st : TaskStatus, host : Hosts \cup {None}]]
      /\ \A u \in TaskIds : task'[u].host = task[u].host
      /\ \A u \in TaskIds : task'[u].st = IF u = t THEN "ENDED" ELSE task[u].st
  BY <1>1 DEF OffersInv, OffersTypeOK, TaskStatus
<1>3. task[t].st # "PENDING"
  BY <1>1 DEF OnSlave
<1>4. OffersTypeOK'
  BY <1>1, <1>2, <1>3 DEF OffersInv, OffersTypeOK
<1>5. TasksHoused'
  BY <1>1, <1>2, <1>3 DEF OffersInv, OffersTypeOK, TasksHoused
<1>6. IndicesAgree' /\ OfferOnce' /\ AnsweredOnce'
  BY <1>1 DEF OffersInv, IndicesAgree, IsHeld, OfferOnce, AnsweredOnce, HostOf
<1>7. DrainedIsEmpty'
  BY <1>1, <1>2 DEF OffersInv, DrainedIsEmpty, Mode, ActiveOn, OnSlave
<1> QED
  BY <1>4, <1>5, <1>6, <1>7 DEF OffersInv

-----------------------------------------------------------------------------
(* The invariant, and what it gives.                                       *)

LEMMA OffersStart ==
  ASSUME OffersInit
  PROVE  OffersInv
<1> USE DEF OffersInit, Cleared
<1>1. /\ task \in [TaskIds -> [st : {"PENDING"}, host : {None}]
                                \cup [st : {"ACTIVE", "ENDED"}, host : Hosts]]
      /\ ended = {t \in TaskIds : task[t].st = "ENDED"}
  BY TaskAssumption DEF TaskAssumption
<1>2. \A t \in TaskIds :
        \/ task[t] \in [st : {"PENDING"}, host : {None}]
        \/ task[t] \in [st : {"ACTIVE", "ENDED"}, host : Hosts]
  BY <1>1
<1>3. \A h \in Hosts : mode[h] \in {"NONE", None} /\ Mode(h) = "NONE"
  BY OfferAssumption DEF OfferAssumption, Mode
<1>4. \A t \in TaskIds : task[t].st # "PENDING" =>
        task[t].host \in Hosts /\ mode[task[t].host] # None
  BY <1>2, OfferAssumption DEF OfferAssumption, MaintenanceMode
<1>5. task \in [TaskIds -> [st : TaskStatus, host : Hosts \cup {None}]]
  <2>1. \A t \in TaskIds : task[t] \in [st : TaskStatus, host : Hosts \cup {None}]
    BY <1>2 DEF TaskStatus
  <2> QED
    BY <1>1, <2>1
<1>6. mode \in [Hosts -> MaintenanceMode \cup {None}]
  BY DEF MaintenanceMode
<1>7. OffersTypeOK
  BY <1>1, <1>4, <1>5, <1>6 DEF OffersTypeOK
<1>8. IndicesAgree /\ OfferOnce /\ TasksHoused /\ AnsweredOnce
  BY <1>1, <1>4, HostsOfOffers DEF IndicesAgree, IsHeld, OfferOnce, TasksHoused, AnsweredOnce
<1>9. DrainedIsEmpty
  BY <1>3 DEF DrainedIsEmpty
<1> QED
  BY <1>7, <1>8, <1>9 DEF OffersInv

LEMMA OffersSteps ==
  ASSUME OffersInv, [OffersNext]_offerVars
  PROVE  OffersInv'
<1>1. CASE UNCHANGED offerVars
  <2> USE <1>1 DEF offerVars, index, net, links
  <2>1. OffersTypeOK'
    BY DEF OffersInv, OffersTypeOK
  <2>2. IndicesAgree' /\ OfferOnce' /\ TasksHoused' /\ AnsweredOnce'
    BY DEF OffersInv, IndicesAgree, IsHeld, OfferOnce, TasksHoused, AnsweredOnce, HostOf
  <2>3. DrainedIsEmpty'
    BY DEF OffersInv, DrainedIsEmpty, Mode, ActiveOn
  <2> QED
    BY <2>1, <2>2, <2>3 DEF OffersInv
<1>2. ASSUME NEW o \in OfferIds,
             OfferMade(o) \/ ResourceOffers(o) \/ ReturnOffer(o) \/ OfferRescinded(o)
      PROVE  OffersInv'
  BY <1>2, OfferMadeKeeps, ResourceOffersKeeps, ReturnOfferKeeps, OfferRescindedKeeps
<1>3. CASE AddOffer \/ AssignOrBan
  BY <1>3, AddOfferKeeps, AssignOrBanKeeps
<1>4. ASSUME NEW c \in changes, HostAttributesChanged(c[1], c[2])
      PROVE  OffersInv'
  BY <1>4, HostAttributesChangedKeeps
<1>5. ASSUME NEW t \in TaskIds, PickOffer(t) \/ TaskChangedState(t) \/ TaskEnds(t)
      PROVE  OffersInv'
  BY <1>5, PickOfferKeeps, TaskChangedStateKeeps, TaskEndsKeeps
<1>6. ASSUME NEW h \in Hosts, StartMaintenance(h) \/ EndMaintenance(h) \/ Drain(h)
      PROVE  OffersInv'
  <2>1. \A m \in {"SCHEDULED", "NONE"} : m \in MaintenanceMode /\ m # "DRAINED"
    BY DEF MaintenanceMode
  <2>2. requests \in Nat => requests + 1 \in Nat
    OBVIOUS
  <2>3. requests \in Nat
    BY DEF OffersInv, OffersTypeOK
  <2>4. CASE StartMaintenance(h)
    BY <2>1, <2>2, <2>3, <2>4, ModeSet DEF StartMaintenance, Admin
  <2>5. CASE EndMaintenance(h)
    BY <2>1, <2>2, <2>3, <2>5, ModeSet DEF EndMaintenance, Admin
  <2> QED
    BY <1>6, <2>4, <2>5, DrainKeeps
<1>7. CASE DriverDisconnected \/ Disconnect \/ Failover
  <2>1. /\ {clears, faults, requests} \subseteq Nat
        /\ \A t \in ended : t \in TaskIds /\ task[t].st = "ENDED"
    BY DEF OffersInv, OffersTypeOK, TasksHoused
  <2>2. CASE DriverDisconnected
    BY <2>1, <2>2, ClearingKeeps DEF DriverDisconnected, net
  <2>3. CASE Disconnect
    BY <2>1, <2>3, ClearingKeeps DEF Disconnect
  <2>4. CASE Failover
    BY <2>1, <2>4, ClearingKeeps DEF Failover
  <2> QED
    BY <1>7, <2>2, <2>3, <2>4
<1> QED
  BY <1>1, <1>2, <1>3, <1>4, <1>5, <1>6, <1>7 DEF OffersNext

LEMMA OffersInvariant == OffersSpec => []OffersInv
BY OffersStart, OffersSteps, PTL DEF OffersSpec

(* Stores, indices, the lock and the messages keep their types, and a task *)
(* that was assigned is on a host the attribute store knows.               *)
THEOREM OffersTypes == OffersSpec => []OffersTypeOK
<1>1. OffersInv => OffersTypeOK
  BY DEF OffersInv
<1> QED
  BY <1>1, OffersInvariant, PTL

(* However launches, returns, rescissions, merges, lost connections and    *)
(* new leaders interleave, the driver is told of an offer at most once.    *)
THEOREM OffersAnsweredOnce == OffersSpec => []AnsweredOnce
<1>1. OffersInv => AnsweredOnce
  BY DEF OffersInv
<1> QED
  BY <1>1, OffersInvariant, PTL

(* HostOffers holds at most one offer of a slave, and its indices and bans *)
(* name held offers only, for any number of slaves on a host.              *)
THEOREM IndicesKept == OffersSpec => []IndicesAgree
<1>1. OffersInv => IndicesAgree
  BY DEF OffersInv
<1> QED
  BY <1>1, OffersInvariant, PTL

(* A DRAINED host runs only tasks that were assigned to it after its drain *)
(* began, for any number of requests, failovers and hosts.                 *)
THEOREM DrainedHostsEmpty == OffersSpec => []DrainedIsEmpty
<1>1. OffersInv => DrainedIsEmpty
  BY DEF OffersInv
<1> QED
  BY <1>1, OffersInvariant, PTL
(* Every step but the event of a lost connection either keeps an open      *)
(* offer or has answered it: for any number of slaves, offers and tasks.   *)
THEOREM OpenOffersKept == OffersSpec => DroppedOnDisconnectOnly
<1>1. ASSUME OffersInv, [OffersNext]_offerVars, NEW o \in OfferIds,
             IsHeld(o), ~IsHeld(o)', master'[o] = "open"
      PROVE  DriverDisconnected
  <2>1. OffersTypeOK /\ IndicesAgree /\ IndexOK(Index)
    BY <1>1, IndexIsOK DEF OffersInv
  <2>2. held'[o] = None /\ held[o] # None
    BY <1>1 DEF IsHeld
  <2>3. ~ UNCHANGED held
    BY <2>2
  <2>4. ~ UNCHANGED index
    BY <2>3 DEF index
  <2>5. \A p \in OfferIds : SetIndex(Remove(Index, p)) => p = o
    BY <2>1, <2>2, SetRemoved DEF OffersTypeOK
  <2>6. \A os : Answer(os) => o \notin os
    BY <1>1 DEF Answer
  <2>7. \A p \in OfferIds : ~ OfferMade(p) /\ ~ ResourceOffers(p)
    BY <2>4 DEF OfferMade, ResourceOffers
  <2>8. \A p \in OfferIds : ~ ReturnOffer(p)
    BY <2>5, <2>6 DEF ReturnOffer
  <2>9. \A p \in OfferIds : ~ OfferRescinded(p)
    BY <1>1, <2>1, <2>5 DEF OfferRescinded, OffersTypeOK
  <2>10. ~ AddOffer
    <3> SUFFICES ASSUME AddOffer PROVE FALSE
      OBVIOUS
    <3>1. /\ lock.same \in OfferIds \cup {None} /\ lock.offer \in OfferIds
          /\ lock.label \in MaintenanceMode
      BY <2>1 DEF AddOffer, OffersTypeOK
    <3>2. CASE lock.same # None
      BY <1>1, <2>5, <2>6, <3>1, <3>2 DEF AddOffer
    <3>3. CASE lock.same = None
      BY <2>1, <2>2, <3>1, <3>3, OfferAssumption
      DEF AddOffer, SetIndex, Add, Index, OffersTypeOK, OfferAssumption
    <3> QED
      BY <3>2, <3>3
  <2>11. ~ AssignOrBan
    <3> SUFFICES ASSUME AssignOrBan PROVE FALSE
      OBVIOUS
    <3>1. lock.offer \in OfferIds /\ lock.task \in TaskIds
      BY <2>1 DEF AssignOrBan, OffersTypeOK
    <3>2. CASE VetoOf(lock.task, lock.offer, lock.label) = "STATIC"
      BY <2>1, <2>3, <3>1, <3>2, BanOK DEF AssignOrBan, SetIndex, Index
    <3>3. CASE VetoOf(lock.task, lock.offer, lock.label) = "EMPTY"
      BY <1>1, <2>5, <2>6, <3>1, <3>3 DEF AssignOrBan
    <3>4. CASE VetoOf(lock.task, lock.offer, lock.label) = "DYNAMIC"
      BY <2>4, <3>4 DEF AssignOrBan
    <3> QED
      BY <3>2, <3>3, <3>4 DEF AssignOrBan
  <2>12. \A c \in changes : ~ HostAttributesChanged(c[1], c[2])
    <3> SUFFICES ASSUME NEW c \in changes, HostAttributesChanged(c[1], c[2]) PROVE FALSE
      OBVIOUS
    <3>1. c[1] \in Hosts /\ c[2] \in MaintenanceMode
      BY <2>1 DEF OffersTypeOK
    <3> QED
      BY <2>1, <2>2, <3>1, LabelOK DEF HostAttributesChanged, SetIndex, Index
  <2>13. \A t \in TaskIds : ~ PickOffer(t) /\ ~ TaskChangedState(t) /\ ~ TaskEnds(t)
    BY <2>4 DEF PickOffer, TaskChangedState, TaskEnds
  <2>14. \A h \in Hosts : ~ StartMaintenance(h) /\ ~ EndMaintenance(h) /\ ~ Drain(h)
    BY <2>4 DEF StartMaintenance, EndMaintenance, Drain
  <2>15. ~ Disconnect
    BY <2>4 DEF Disconnect
  <2>16. ~ Failover
    BY <1>1, <2>1 DEF Failover, Withdrawn, OffersTypeOK
  <2>17. ~ UNCHANGED offerVars
    BY <2>3 DEF offerVars, index
  <2> QED
    BY <1>1, <2>7, <2>8, <2>9, <2>10, <2>11, <2>12, <2>13, <2>14, <2>15, <2>16, <2>17
    DEF OffersNext
<1>2. OffersInv /\ [OffersNext]_offerVars =>
        [\A o \in OfferIds :
           IsHeld(o) /\ ~ IsHeld(o)' /\ master'[o] = "open" => DriverDisconnected]_offerVars
  BY <1>1
<1> QED
  BY <1>2, OffersInvariant, PTL DEF OffersSpec, DroppedOnDisconnectOnly
=============================================================================
