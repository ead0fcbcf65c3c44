----------------------------- MODULE MCReporting -----------------------------
(* Values for the constants of Reporting that a .cfg cannot write. *)
EXTENDS Reporting

Either == {FALSE, TRUE}
WarmupOrRun == {"warmup", "run"}
=============================================================================
