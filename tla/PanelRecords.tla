----------------------------- MODULE PanelRecords -----------------------------
(***************************************************************************)
(* The vocabulary in which the panels of the console are written down as   *)
(* records of Panel.                                                       *)
(***************************************************************************)

(* A change whose failure is shown in the panel.                           *)
Op(flag, needs, then) ==
  [flag |-> flag, needs |-> needs, eager |-> FALSE, then |-> then,
   fail |-> "report"]

(* One whose failure goes to an alert box, to the caller or nowhere.       *)
Silent(flag, needs, then) ==
  [Op(flag, needs, then) EXCEPT !.fail = "keep"]

(* One that is on screen before the server has answered.                   *)
Eager(flag, needs, then, fail) ==
  [Op(flag, needs, then) EXCEPT !.eager = TRUE, !.fail = fail]

(* One whose finally block reads again, after a failure too.               *)
Redo(flag, needs) ==
  [Op(flag, needs, "redo") EXCEPT !.fail = "reload"]

Readless(ops) ==
  [load |-> "none", drop |-> "never", wipe |-> FALSE, empty |-> FALSE,
   brittle |-> FALSE, poll |-> "no", ops |-> ops]

Mounted(ops) == [Readless(ops) EXCEPT !.load = "mount"]

Keyed(drop, ops) == [Readless(ops) EXCEPT !.load = "keyed", !.drop = drop]

Wiping(p) == [p EXCEPT !.wipe = TRUE]

Emptying(p) == [p EXCEPT !.empty = TRUE]

Brittle(p) == [p EXCEPT !.brittle = TRUE]

Polling(p) == [p EXCEPT !.poll = "timer"]

Refreshable(p) == [p EXCEPT !.poll = "button"]

=============================================================================
