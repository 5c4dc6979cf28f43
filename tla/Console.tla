------------------------------- MODULE Console -------------------------------
(***************************************************************************)
(* The web console: the gate, and behind it the pages App.tsx routes to,   *)
(* one of which is mounted at a time.  Pages share nothing but the session *)
(* and are mounted anew when they are opened, so a behaviour of the console *)
(* is a behaviour of the gate or of one mounted page; what is not mounted  *)
(* stays as it is when it is mounted.                                      *)
(***************************************************************************)
EXTENDS LogsView, MessageSearch, Panel, AuthGate

VARIABLE page  \* what runs: the gate, a page with a model of its own, a panel

consoleVars == <<page, logVars, searchVars, panelVars, gateVars>>

besideLogs == <<page, searchVars, panelVars, gateVars>>
besideSearch == <<page, logVars, panelVars, gateVars>>
besidePanel == <<page, logVars, searchVars, gateVars>>
besideGate == <<page, logVars, searchVars, panelVars>>

AnyPanel == CHOOSE c \in Panels : TRUE

ConsoleInit ==
  /\ page \in {"gate", "logs", "search", "panel"}
  /\ LogsInit
  /\ SearchInit
  /\ PanelInit /\ (page # "panel" => comp = AnyPanel)
  /\ GateInit /\ (page # "gate" => fresh /\ member[Admin] = Orgs)

ConsoleNext ==
  \/ page = "logs" /\ LogsNext /\ UNCHANGED besideLogs
  \/ page = "search" /\ SearchNext /\ UNCHANGED besideSearch
  \/ page = "panel" /\ PanelNext /\ UNCHANGED besidePanel
  \/ page = "gate" /\ GateNext /\ UNCHANGED besideGate

(* The fairness of each part, while it is the one that runs: every call is *)
(* answered or fails, and a running timer ends.                            *)
ConsoleFairness ==
  /\ WF_logVars(page = "logs" /\ ApplyText)
  /\ WF_logVars(page = "logs" /\ (FirstPageArrives \/ FirstPageFails))
  /\ WF_logVars(page = "logs" /\ (MorePageArrives \/ MorePageFails))
  /\ \A k \in 1..MaxCalls : WF_searchVars(page = "search" /\ AnswerChange(k))
  /\ WF_searchVars(page = "search" /\ Run)
  /\ \A s \in 1..MaxReads : WF_panelVars(page = "panel" /\ ReadEnds(s))
  /\ \A i \in WriteIds : WF_panelVars(page = "panel" /\ WriteEnds(i))
  /\ \A try \in {"first", "retry"} :
       WF_gateVars(page = "gate" /\ FetchEnds(try))
  /\ WF_gateVars(page = "gate" /\ SignedOut)

ConsoleSpec == ConsoleInit /\ [][ConsoleNext]_consoleVars /\ ConsoleFairness

-----------------------------------------------------------------------------
(* The text left standing in the search box is what the log list shows in  *)
(* the end, or an error: the timer that the next key stroke cleared, the   *)
(* answers that were dropped and the loads that filters started over do    *)
(* not leave the list of an earlier text (the debounce and first-page      *)
(* effects of LogsView.tsx).                                               *)
StandingTextIsShown ==
  \A t \in Texts :
    page = "logs" /\ qInput = t
      ~> qInput # t \/ failed \/ (logs # <<>> /\ logs[1].q.text = t)

(* The log list does not stay in its loading state: every way out of the   *)
(* load that is still wanted ends it.  The fairness assumes that some      *)
(* wanted load is answered before the next change of the filters, so a     *)
(* user who goes on changing them faster than answers come is left out.    *)
LoadingEnds == page = "logs" /\ loading ~> ~loading

(* The filters left standing in the editor of the Messages page are those  *)
(* of the last search in the end, whoever put them there: the user, a view *)
(* that was selected, the saved views that arrived or could not be read, a *)
(* deletion whose answer came late (the debounce effect of Search.tsx).    *)
StandingFiltersAreSearched ==
  \A f \in Filters :
    page = "search" /\ draft = f
      ~> draft # f \/ search = [filters |-> f, sent |-> TRUE]

(* A save on the Messages page does not disable its button for good: it    *)
(* ends, whatever other save, renaming or deletion is under way beside it. *)
SavingEnds == page = "search" /\ saving ~> ~saving

(* In every panel a flag that disables a button is lowered again, or the   *)
(* panel closes: the finally blocks.                                       *)
FlagsAreLowered == \A f \in Flags : page = "panel" /\ f \in flags ~> f \notin flags

(* The page does not stay at "Loading": every outcome of fetchMe, the      *)
(* second try included, decides what is rendered.                          *)
GateSettles == page = "gate" /\ gate = "loading" ~> gate # "loading"

(* Signing out ends on the sign-in page, or the page is loaded anew, even  *)
(* when the server cannot be told.                                         *)
SignOutEnds == leaving ~> gate \in {"out", "loading"}

=============================================================================
