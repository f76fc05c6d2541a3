------------------------------ MODULE WebPages ------------------------------
(***************************************************************************)
(* A browser with one of the pages of the web interfaces open.  The pages  *)
(* share no state; a page that is not open stays in an initial state.  The *)
(* parser of the graph page is a parameter.                                *)
(***************************************************************************)
EXTENDS LogPailer, Grapher, JobConsole, SchedulerPages

VARIABLE page   \* the page that is open

webVars == <<page, pailerVars, graphVars, consoleVars, pagesVars>>

(* A page that is not open stays in one of its initial states. *)
WebInit ==
  /\ page \in {"log", "graph", "console", "updates"}
  /\ PailerInit /\ GraphInit /\ ConsoleInit /\ PagesInit
  /\ page # "log" => file = 0
  /\ page # "console" => jobData = <<>>
  /\ page # "updates" => route = "update" /\ status = "ROLL_FORWARD_PAUSED"

WebNext ==
  /\ \/ /\ page = "log" /\ PailerNext
        /\ UNCHANGED <<graphVars, consoleVars, pagesVars>>
     \/ /\ page = "graph" /\ GraphNext
        /\ UNCHANGED <<pailerVars, consoleVars, pagesVars>>
     \/ /\ page = "console" /\ ConsoleNext
        /\ UNCHANGED <<pailerVars, graphVars, pagesVars>>
     \/ /\ page = "updates" /\ PagesNext
        /\ UNCHANGED <<pailerVars, graphVars, consoleVars>>
  /\ UNCHANGED page

WebSpec ==
  /\ WebInit /\ [][WebNext]_webVars
  /\ \A slot \in Slots :
       /\ WF_pailerVars(page = "log" /\ Answered(slot) /\ overlap' = Disturbed)
       /\ WF_pailerVars(page = "log" /\ TimerFires(slot) /\ overlap' = Disturbed)
  /\ WF_pailerVars(page = "log" /\ ScrollEvent /\ overlap' = Disturbed)
  /\ WF_graphVars(page = "graph" /\ Tick)
  /\ WF_graphVars(page = "graph" /\ Answer)
  /\ WF_consoleVars(page = "console" /\ OpenSucceeds)
  /\ WF_consoleVars(page = "console" /\ DatabaseRuns)
  /\ WF_pagesVars(page = "updates" /\ getUpdatesForJob)
  /\ WF_pagesVars(page = "updates" /\ getUpdateProgress)
  /\ WF_pagesVars(page = "updates" /\ ProgressAnswered)
  /\ \A which \in {"inProgress", "completed"} :
       /\ WF_pagesVars(page = "updates" /\ ListAsked(which))
       /\ WF_pagesVars(page = "updates" /\ ListAnswered(which))

(* The variables of every page keep their types, across calls answered late. *)
WebTypeOK == PailerTypeOK /\ GraphTypeOK /\ ConsoleTypeOK /\ PagesTypeOK

(* TailCatchesUp, for a browser with the page of the log open. *)
LogIsFollowed == page = "log" => TailCatchesUp

=============================================================================
