------------------------------ MODULE MCConsole ------------------------------
(***************************************************************************)
(* The instance of Console for TLC: every panel of the source, and small   *)
(* sets of whatever a user can type, choose, save or belong to.            *)
(***************************************************************************)
EXTENDS Console, PagePanels
=============================================================================
