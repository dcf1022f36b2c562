-------------------------- MODULE MCNotifications --------------------------
(* Model checking Notifications.  Its constants are given in the .cfg files. *)
EXTENDS Notifications
=============================================================================
