------------------------------ MODULE MCURLList ------------------------------
(* Values for the constants of URLList that a .cfg cannot write. *)
EXTENDS URLList

CONSTANTS h, i

BothReaders == {"file", "socket"}
TwoHosts == {h, i}
\* A line of three bytes is no URL; the others are on two hosts that share a machine,
\* the last with the port of https written for http.
FourTexts ==
  <<[host |-> h, isSsl |-> FALSE, port |-> 0], [host |-> i, isSsl |-> TRUE, port |-> 0],
    BadURL, [host |-> h, isSsl |-> FALSE, port |-> 443]>>
TwoMachines == [n \in TwoHosts |-> IF n = h THEN <<1, 2>> ELSE <<1>>]
=============================================================================
