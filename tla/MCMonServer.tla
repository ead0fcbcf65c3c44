----------------------------- MODULE MCMonServer -----------------------------
(* Values for the constants of MonServer that a .cfg cannot write. *)
EXTENDS MonServer

BothCallers == {"apibmon", "test"}
=============================================================================
