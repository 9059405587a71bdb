----------------------------- MODULE MCNotifications -----------------------------
(***************************************************************************)
(* Small instances of Notifications for TLC.                               *)
(***************************************************************************)
EXTENDS Notifications

\* Two times of one day, one of the next and one of a day that is not reached.
MCTimes == {2, 3, 4, 7}
===============================================================================
