--------------------------- MODULE SchedulerPages ---------------------------
(***************************************************************************)
(* The update pages of the scheduler's web interface (controllers.js and   *)
(* services.js under assets/js): the page of an update and the page of its *)
(* job, which poll the scheduler until the update is over, and the page    *)
(* with the lists of all updates.  Of the scheduler, they see the status   *)
(* of an update and its instance events, as JobUpdateControllerImpl.java   *)
(* records them from what a OneWayJobUpdater makes of the instances.       *)
(***************************************************************************)
EXTENDS Integers, Sequences, FiniteSets, SequencesExt, TLC

CONSTANTS initialState,   \* the ranges of instances before the update
          desiredState,   \* the ranges of instances after it, <<>> if it is absent
          updateOnlyTheseInstances,  \* the ranges of its scope, <<>> for all
          MaxFailedInstances,
          RollbackOnFailure,
          MaxResumes,     \* bound: how often the update gets a new updater
          MaxLost         \* bound: calls answered without a result

ASSUME LostAssumption == MaxLost \in Nat

ASSUME RangesAssumption ==
  {initialState, desiredState, updateOnlyTheseInstances}
    \subseteq Seq([first : Nat, last : Nat])

ASSUME SettingsAssumption ==
  MaxFailedInstances \in Nat /\ RollbackOnFailure \in BOOLEAN /\ MaxResumes \in Nat

VARIABLES
  status,          \* the status of the update at the scheduler
  events,          \* [instances -> the actions of its events, by their time]
  inst,            \* [instances -> what the updater, in memory, makes of it]
  resumes,
  worked,          \* history: the instances an evaluation left at work
  unsaved,         \* history: those with a change that was rolled back in storage only
  route,           \* the page that is open: "update", "job" or "updates"
  poll,            \* its call for the details of the update
  shown,           \* what it shows of them
  lists,           \* the two lists of the page of all updates, and their calls
  lost,
  broken           \* history: a call for the details came back without what it should show

updateVars == <<status, events, inst, resumes, worked, unsaved>>
pageVars == <<route, poll, shown, lists, lost, broken>>
pagesVars == <<updateVars, pageVars>>

-----------------------------------------------------------------------------
(* updateUtil. *)

UPDATE_TERMINAL == {"ROLLED_FORWARD", "ROLLED_BACK", "ABORTED", "ERROR", "FAILED"}

isInProgress(s) == s \notin UPDATE_TERMINAL

idsFromRanges(rs) == UNION {rs[i].first..rs[i].last : i \in DOMAIN rs}

oldIds == idsFromRanges(initialState)
newIds == idsFromRanges(desiredState)

getAllInstanceIds == newIds \cup oldIds

(* The latest event of each instance, among those with one of the actions.   *)
getLatestInstanceEvents(es, actions) ==
  LET of(i) == {k \in DOMAIN es[i] : es[i][k] \in actions}
  IN  [i \in {j \in DOMAIN es : of(j) # {}} |-> es[i][Max(of(i))]]

JobUpdateAction ==
  {"INSTANCE_UPDATING", "INSTANCE_UPDATED", "INSTANCE_UPDATE_FAILED",
   "INSTANCE_ROLLING_BACK", "INSTANCE_ROLLED_BACK", "INSTANCE_ROLLBACK_FAILED"}

isInstanceSuccessful(action) == action = "INSTANCE_UPDATED"

progressFromEvents(es) ==
  LET successful == {a \in JobUpdateAction : isInstanceSuccessful(a)}
  IN  Cardinality(DOMAIN getLatestInstanceEvents(es, successful))

getUpdateStats(es) ==
  [total |-> Cardinality(getAllInstanceIds), updated |-> progressFromEvents(es)]

fillInstanceSummary(es) ==
  LET latest == getLatestInstanceEvents(es, JobUpdateAction)
      class(i) == IF i \notin DOMAIN latest THEN "pending"
                  ELSE IF isInstanceSuccessful(latest[i]) /\ i \in oldIds \ newIds
                  THEN "instance-removed" ELSE latest[i]
  IN  [i \in getAllInstanceIds |-> class(i)]

-----------------------------------------------------------------------------
(* The scheduler: OneWayJobUpdater and JobUpdateControllerImpl.  Which idle  *)
(* instances an evaluation starts, if any, is left open, as is why an        *)
(* instance's update goes on, succeeds or fails.  A paused update stands for *)
(* one that awaits a pulse, too.                                             *)

instances == IF updateOnlyTheseInstances = <<>> THEN getAllInstanceIds
             ELSE idsFromRanges(updateOnlyTheseInstances)

AllIdle == [i \in instances |-> "IDLE"]

ByState(states, c) == {i \in instances : states[i] = c}

TooManyFailed(states) == Cardinality(ByState(states, "FAILED")) > MaxFailedInstances

(* OneWayJobUpdater.evaluate: at most one instance at work is re-evaluated,  *)
(* and idle ones are started unless the update has failed.                   *)
NextStates(old) ==
  {new \in [instances -> {"IDLE", "WORKING", "SUCCEEDED", "FAILED"}] :
     /\ \A i \in instances :
          \/ new[i] = old[i]
          \/ old[i] = "WORKING" /\ new[i] # "IDLE"
          \/ old[i] = "IDLE" /\ new[i] # "FAILED" /\ ~TooManyFailed(new)
     /\ Cardinality({i \in ByState(old, "WORKING") : new[i] # "WORKING"}) <= 1}

(* computeJobUpdateStatus, and the status of the update that it leads to.    *)
StatusAfter(s, states) ==
  IF TooManyFailed(states)
  THEN IF s = "ROLLING_FORWARD" /\ RollbackOnFailure THEN "ROLLING_BACK" ELSE "FAILED"
  ELSE IF ByState(states, "IDLE") \cup ByState(states, "WORKING") # {} THEN s
  ELSE IF s = "ROLLING_FORWARD" THEN "ROLLED_FORWARD" ELSE "ROLLED_BACK"

STATE_MAP ==
  [ROLLING_FORWARD |-> [WORKING |-> "INSTANCE_UPDATING", SUCCEEDED |-> "INSTANCE_UPDATED",
                        FAILED |-> "INSTANCE_UPDATE_FAILED"],
   ROLLING_BACK |-> [WORKING |-> "INSTANCE_ROLLING_BACK", SUCCEEDED |-> "INSTANCE_ROLLED_BACK",
                     FAILED |-> "INSTANCE_ROLLBACK_FAILED"]]

(* An action is issued once in the life of an update.                        *)
Save(es, action) == IF action \in Range(es) THEN es ELSE Append(es, action)

\* Mutation: what needs nothing is suppressed although there are events.
RecordSuppressed(es, s, old, new) ==
  CASE old = new -> es
    [] old = "IDLE" /\ new = "WORKING" -> Save(es, STATE_MAP[s].WORKING)
    [] old = "IDLE" /\ new = "SUCCEEDED" -> es
    [] OTHER -> Save(es, STATE_MAP[s][new])

(* The events of an instance after its update has changed from old to new: a *)
(* first evaluation that finds nothing to do leaves no event.                *)
Record(es, s, old, new) ==
  CASE old = new -> es
    [] old = "IDLE" /\ new = "WORKING" -> Save(es, STATE_MAP[s].WORKING)
    [] old = "IDLE" /\ new = "SUCCEEDED" ->
         IF es = <<>> THEN es
         ELSE Save(Save(es, STATE_MAP[s].WORKING), STATE_MAP[s].SUCCEEDED)
    [] OTHER -> Save(es, STATE_MAP[s][new])

(* evaluateUpdater maps an update to what may become of it.                  *)
Evaluated(u, new) ==
  LET s == StatusAfter(u.status, new)
  IN  [status |-> s,
       inst |-> IF s = u.status THEN new ELSE AllIdle,
       events |-> [i \in instances |-> Record(u.events[i], u.status, u.inst[i], new[i])],
       worked |-> u.worked \cup ByState(new, "WORKING")]

Evaluations(u) == {Evaluated(u, new) : new \in NextStates(u.inst)}

PauseState(s) ==
  IF s = "ROLLING_FORWARD" THEN "ROLL_FORWARD_PAUSED" ELSE "ROLL_BACK_PAUSED"

RollingState(s) ==
  IF s \in {"ROLLING_FORWARD", "ROLL_FORWARD_PAUSED"} THEN "ROLLING_FORWARD"
  ELSE "ROLLING_BACK"

(* changeJobUpdateStatus to a rolling state: a new updater starts at once,   *)
(* unless the pulse has expired.                                             *)
FirstEvaluation(u, s) ==
  LET n == [u EXCEPT !.status = s, !.inst = AllIdle]
  IN  Evaluations(n) \cup {[n EXCEPT !.status = PauseState(s)]}

Update == [status |-> status, inst |-> inst, events |-> events, worked |-> worked]

TurnsInto(u) ==
  /\ status' = u.status /\ inst' = u.inst
  /\ events' = u.events /\ worked' = u.worked

evaluateUpdater ==
  /\ status \in {"ROLLING_FORWARD", "ROLLING_BACK"}
  /\ \E u \in Evaluations(Update) :
       IF status = "ROLLING_FORWARD" /\ u.status = "ROLLING_BACK"
       THEN \E v \in FirstEvaluation(u, "ROLLING_BACK") : TurnsInto(v)
       ELSE TurnsInto(u)
  /\ UNCHANGED <<resumes, unsaved, pageVars>>

(* An action on the re-evaluated instance throws: storage is rolled back,    *)
(* but not the updater.                                                      *)
EvaluationThrows ==
  /\ status \in {"ROLLING_FORWARD", "ROLLING_BACK"}
  /\ ByState(inst, "WORKING") # {}
  /\ \E new \in NextStates(inst) :
       /\ ByState(inst, "WORKING") \subseteq ByState(new, "WORKING")
       /\ inst' = new
       /\ unsaved' = unsaved \cup {i \in instances : new[i] # inst[i]}
  /\ UNCHANGED <<status, events, resumes, worked, pageVars>>

(* pause, and a pulse that has expired.                                      *)
pause ==
  /\ status \in {"ROLLING_FORWARD", "ROLLING_BACK"}
  /\ status' = PauseState(status)
  /\ inst' = AllIdle
  /\ UNCHANGED <<events, resumes, worked, unsaved, pageVars>>

(* resume, and systemResume after a failover.                                *)
resume ==
  /\ isInProgress(status)
  /\ resumes < MaxResumes
  /\ resumes' = resumes + 1
  /\ \E u \in FirstEvaluation(Update, RollingState(status)) : TurnsInto(u)
  /\ UNCHANGED <<unsaved, pageVars>>

(* abort, and the loss of the job's lock.                                    *)
abort ==
  /\ isInProgress(status)
  /\ status' \in {"ABORTED", "ERROR"}
  /\ inst' = AllIdle
  /\ UNCHANGED <<events, resumes, worked, unsaved, pageVars>>

-----------------------------------------------------------------------------
(* JobController: only an update in progress when the page is opened is      *)
(* followed.                                                                 *)
getUpdatesForJob ==
  /\ poll = "summaries"
  /\ poll' = IF isInProgress(status) THEN "sent" ELSE "none"
  /\ UNCHANGED <<updateVars, route, shown, lists, lost, broken>>

(* UpdateController: getUpdateProgress(); the loop of JobController differs   *)
(* in what it shows.                                                         *)

getUpdateProgress ==
  /\ poll = "timer"
  /\ poll' = "sent"
  /\ UNCHANGED <<updateVars, route, shown, lists, lost, broken>>

Details == [status |-> status, stats |-> getUpdateStats(events),
            summary |-> fillInstanceSummary(events)]

\* Mutation: polling ends when all instances are updated.
ProgressUntilUpdated ==
  /\ poll = "sent"
  /\ shown' = Details
  /\ poll' = IF isInProgress(status) /\ shown'.stats.updated < shown'.stats.total
             THEN "timer" ELSE "none"
  /\ UNCHANGED <<updateVars, route, lists, lost, broken>>

(* Of an update without a desired state, getAllInstanceIds throws: there are *)
(* no stats, and no next timer.                                              *)
ProgressAnswered ==
  /\ poll = "sent"
  /\ shown' = IF desiredState = <<>> THEN shown ELSE Details
  /\ poll' = IF desiredState # <<>> /\ isInProgress(status) THEN "timer" ELSE "none"
  /\ broken' = (broken \/ desiredState = <<>>)
  /\ UNCHANGED <<updateVars, route, lists, lost>>

(* An answer without a result has no details: the handler throws before it   *)
(* sets the next timer.                                                      *)
ProgressLost ==
  /\ poll = "sent"
  /\ lost < MaxLost
  /\ lost' = lost + 1
  /\ poll' = "none"
  /\ broken' = TRUE
  /\ UNCHANGED <<updateVars, route, shown, lists>>

-----------------------------------------------------------------------------
(* AllUpdatesController: inProgressUpdates() and completedUpdates(), two     *)
(* loops that never end.  `has` says whether the list has the update.        *)

Listed(which) == isInProgress(status) <=> which = "inProgress"

ListAsked(which) ==
  /\ lists[which].call = "timer"
  /\ lists' = [lists EXCEPT ![which].call = "sent"]
  /\ UNCHANGED <<updateVars, route, poll, shown, lost, broken>>

ListAnswered(which) ==
  /\ lists[which].call = "sent"
  /\ lists' = [lists EXCEPT ![which] = [call |-> "timer", has |-> Listed(which)]]
  /\ UNCHANGED <<updateVars, route, poll, shown, lost, broken>>

ListLost(which) ==
  /\ lists[which].call = "sent"
  /\ lost < MaxLost
  /\ lost' = lost + 1
  /\ lists' = [lists EXCEPT ![which] = [call |-> "timer", has |-> FALSE]]
  /\ UNCHANGED <<updateVars, route, poll, shown, broken>>

-----------------------------------------------------------------------------
PagesInit ==
  /\ \E u \in FirstEvaluation([status |-> "ROLLING_FORWARD", inst |-> AllIdle, worked |-> {},
                                events |-> [i \in instances |-> <<>>]], "ROLLING_FORWARD") :
       /\ status = u.status /\ inst = u.inst
       /\ events = u.events /\ worked = u.worked
  /\ resumes = 0 /\ unsaved = {}
  /\ route \in {"update", "job", "updates"}
  /\ poll = CASE route = "update" -> "sent"
              [] route = "job" -> "summaries"
              [] OTHER -> "none"
  /\ shown = [status |-> "none"]
  /\ lists = [which \in {"inProgress", "completed"} |->
               [call |-> IF route = "updates" THEN "sent" ELSE "none", has |-> FALSE]]
  /\ lost = 0 /\ broken = FALSE

PagesNext ==
  \/ evaluateUpdater \/ EvaluationThrows \/ pause \/ resume \/ abort
  \/ getUpdatesForJob \/ getUpdateProgress \/ ProgressAnswered \/ ProgressLost
  \/ \E which \in DOMAIN lists : ListAsked(which) \/ ListAnswered(which) \/ ListLost(which)

(* While a page is open every call is answered and every timer fires. *)
PagesFairness ==
  /\ WF_pagesVars(getUpdatesForJob)
  /\ WF_pagesVars(getUpdateProgress)
  /\ WF_pagesVars(ProgressAnswered)
  /\ \A which \in {"inProgress", "completed"} :
       /\ WF_pagesVars(ListAsked(which))
       /\ WF_pagesVars(ListAnswered(which))

PagesSpec == PagesInit /\ [][PagesNext]_pagesVars /\ PagesFairness

-----------------------------------------------------------------------------
(* The calls and what is shown have their types. *)
PagesTypeOK ==
  /\ poll \in {"none", "summaries", "sent", "timer"}
  /\ \A which \in DOMAIN lists : lists[which].call \in {"none", "sent", "timer"}
  /\ shown.status # "none" => DOMAIN shown.summary = getAllInstanceIds
  /\ lost \in 0..MaxLost

\* The instances that have been updated at some time.
Been == {i \in instances : "INSTANCE_UPDATED" \in Range(events[i])}

(* The page says that all instances are updated only if every one has been,  *)
(* those that the update removes included.  Shown with an update that has    *)
(* rolled forward or back, no instance is in progress, and one is pending    *)
(* exactly if there was nothing to do for it, whatever was paused, resumed   *)
(* or restarted in between; failures that were tolerated show as failures.   *)
(* Not for an instance with a change that storage rolled back and the        *)
(* updater did not; and a scope may name instances the page does not count.  *)
ProgressIsHonest ==
  shown.status # "none" =>
    /\ instances \subseteq getAllInstanceIds =>
         /\ shown.stats.updated <= shown.stats.total
         /\ shown.stats.updated = shown.stats.total => Been = oldIds \cup newIds
    /\ shown.status \in {"ROLLED_FORWARD", "ROLLED_BACK"} =>
         \A i \in getAllInstanceIds \ unsaved :
           /\ shown.summary[i] \notin {"INSTANCE_UPDATING", "INSTANCE_ROLLING_BACK"}
           /\ shown.summary[i] = "pending" <=> i \notin worked

(* The page of an update, and the page of a job that found an update in      *)
(* progress, shows its final state in the end, unless a call came back       *)
(* without a result, or the update without a desired state.                  *)
FinalStateShown ==
  (route = "update" \/ poll \in {"sent", "timer"} \/ shown.status # "none")
    /\ ~isInProgress(status) ~> shown.status = status \/ broken

(* The lists of all updates settle, whatever calls came back without result: *)
(* an update that is over is among the completed ones only.                  *)
ListsSettle ==
  route = "updates" /\ ~isInProgress(status)
    ~> [](lists["completed"].has /\ ~lists["inProgress"].has)

(* Each of the pages shows in the end that the update is over, and how.      *)
PagesSettle == FinalStateShown /\ ListsSettle

-----------------------------------------------------------------------------
=============================================================================
