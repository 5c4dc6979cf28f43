---------------------------- MODULE ConsoleProofs ----------------------------
(***************************************************************************)
(* The console refines each of its parts.  What PageProofs, PanelProofs    *)
(* and AuthGateProofs prove of the log list, the Messages page, a panel    *)
(* and the gate alone therefore holds of them in the console.              *)
(***************************************************************************)
EXTENDS Console, PageProofs, PanelProofs, AuthGateProofs

(* A step of the console is a step of the part that is mounted, and moves  *)
(* no other.                                                               *)
LEMMA ConsoleStep ==
  ASSUME [ConsoleNext]_consoleVars
  PROVE  /\ [LogsNext]_logVars /\ [SearchNext]_searchVars
         /\ [PanelNext]_panelVars /\ [GateNext]_gateVars
BY DEF ConsoleNext, consoleVars, besideLogs, besideSearch, besidePanel, besideGate

(* The console does to the log list, the Messages page, a panel and the    *)
(* session only what each of them does alone: no page reaches into the     *)
(* state of another (App.tsx mounts one route at a time).                  *)
THEOREM ConsoleImplementsParts ==
  ConsoleSpec => LogsSpec /\ SearchSpec /\ PanelSpec /\ GateSpec
<1>1. ConsoleInit => LogsInit /\ SearchInit /\ PanelInit /\ GateInit
  BY DEF ConsoleInit
<1>2. [ConsoleNext]_consoleVars =>
        /\ [LogsNext]_logVars /\ [SearchNext]_searchVars
        /\ [PanelNext]_panelVars /\ [GateNext]_gateVars
  BY ConsoleStep
<1> QED BY <1>1, <1>2, PTL DEF ConsoleSpec, LogsSpec, SearchSpec, PanelSpec, GateSpec

(* In the console, whatever page is open and in whatever order answers     *)
(* come: the log list starts with the first page of the filters on screen  *)
(* and lists no page twice; the rail of the Messages page is never empty;  *)
(* a panel settles on the key it is about and shows no change that failed; *)
(* a sign-in page leaves no pin.                                           *)
THEOREM ConsoleSafe ==
  ConsoleSpec =>
    [](/\ FirstPageIsCurrent /\ NoPageTwice /\ RailNeverEmpty
       /\ SettledOnKey /\ NoGhosts /\ OutUnpinned)
BY ConsoleImplementsParts, LogsFirstPageIsCurrent, LogsNoPageTwice,
   SearchRailNeverEmpty, PanelSettledOnKey, PanelNoGhosts, GateOutUnpinned,
   PTL

(* In the console too, a panel that reads its own writes comes to rest only *)
(* with every change on screen that it has reported as made.               *)
THEOREM ConsoleImplementsFreshView == ConsoleSpec => ImplementsFreshView
BY ConsoleImplementsParts, PanelImplementsFreshView, PTL

=============================================================================
