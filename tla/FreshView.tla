------------------------------ MODULE FreshView ------------------------------
(***************************************************************************)
(* What a panel promises to the user who works in it: it forgets nothing   *)
(* that it reported as made, and whenever it comes to rest, every such     *)
(* change is on screen.  While calls are under way the screen may show     *)
(* anything; at rest it does not move.                                     *)
(***************************************************************************)
VARIABLES
  made,   \* the changes that were reported as made
  onView, \* the changes the user has no reason to miss on the screen
  quiet   \* nothing is under way

viewVars == <<made, onView, quiet>>

ViewInit == made = {} /\ ~quiet

(* A change is sent, or the panel reads again.                             *)
GetBusy ==
  /\ quiet
  /\ ~quiet'
  /\ made' = made

Work ==
  /\ ~quiet
  /\ ~quiet'
  /\ made \subseteq made'

(* The last call was answered.                                             *)
ComeToRest ==
  /\ ~quiet
  /\ quiet'
  /\ made \subseteq made'
  /\ made' \subseteq onView'

ViewNext == GetBusy \/ Work \/ ComeToRest

ViewSpec == ViewInit /\ [][ViewNext]_viewVars

=============================================================================
