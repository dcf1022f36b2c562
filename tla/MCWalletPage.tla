--------------------------- MODULE MCWalletPage ---------------------------
(* Model checking WalletPage.  Its constants are given in the .cfg files. *)
EXTENDS WalletPage
=============================================================================
