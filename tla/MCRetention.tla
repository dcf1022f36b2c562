---------------------------- MODULE MCRetention ----------------------------
(* Model checking Retention, with an hour as the unit. *)
EXTENDS Retention
=============================================================================
