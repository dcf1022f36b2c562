-------------------------- MODULE MCSocketClient --------------------------
(* Model checking SocketClient.  Its constants are given in the .cfg files. *)
EXTENDS SocketClient
=============================================================================
