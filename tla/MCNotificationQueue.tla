------------------------- MODULE MCNotificationQueue -------------------------
(***************************************************************************)
(* Instances of NotificationQueue for TLC.  The configurations differ in   *)
(* the number of processes, in the ratio of BatchLimit * MaxDelivery to    *)
(* StuckAfter, and in whether a poisonous delivery exists.                 *)
(***************************************************************************)
EXTENDS NotificationQueue, TLC

CONSTANTS w1, w2, i1, i2, c1, c2

\* Processes are interchangeable; used for safety runs only.
WorkerSymmetry == Permutations(Workers)
=============================================================================
