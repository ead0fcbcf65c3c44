------------------------------ MODULE MCProgram ------------------------------
(* Values for the constants of Program that a .cfg cannot write. *)
EXTENDS Program

SomeConnections == {0, 2, 5}
SomeThreads == {-1, 3}
SomeDurations == {0, 3}
SomeLimits == {2, 6}
=============================================================================
