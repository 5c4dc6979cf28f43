---------------------------- MODULE MCAlertEngine ----------------------------
(***************************************************************************)
(* Instances of AlertEngine for TLC: a is a check of its own, f and g are  *)
(* checks of one integration whose profile groups per integration.         *)
(***************************************************************************)
EXTENDS AlertEngine

CONSTANTS a, f, g

\* All checks are of one signal.
OneLoop == [c \in Checks |-> 1]

\* Maintenance of the whole organisation, or none.
NoScope  == {{}}
OrgScope == {{}, Checks}
=============================================================================
