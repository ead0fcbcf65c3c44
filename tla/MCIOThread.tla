----------------------------- MODULE MCIOThread -----------------------------
(* Values for the constants of IOThread that a .cfg cannot write. *)
EXTENDS IOThread

OneUrl == {"a"}
ThreeUrls == {"a", "a2", "b"}  \* a and a2 are on the same server
Server(u) == IF u = "b" THEN "B" ELSE "A"

AddressOf == [u \in URLs |-> Server(u)]
Plain == [u \in URLs |-> FALSE]
AllTls == [u \in URLs |-> TRUE]
OnlyBTls == [u \in URLs |-> u = "b"]

SameLength == [u \in URLs |-> {1}]
TwoWrites == [u \in URLs |-> {2}]
Unequal == [u \in URLs |-> IF u = "a2" THEN {1} ELSE {2}]

Load == {FALSE}          \* a normal run
Either == {FALSE, TRUE}

NoResize == {}
UpTo2 == {0, 1, 2}
None == {0}

NoFaults == {}
AllFaults == FaultKinds
OnlyEof == {"eof"}
=============================================================================
