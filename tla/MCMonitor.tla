------------------------------ MODULE MCMonitor ------------------------------
(* Values for the constants of Monitor that a .cfg cannot write. *)
EXTENDS Monitor

AllFaults == FaultKinds
WithWarmup == {"warmup"}
=============================================================================
