------------------------------- MODULE MCData --------------------------------
(***************************************************************************)
(* Values for the constants of Results and OAuth that a .cfg cannot write, *)
(* and one specification of the two, which share nothing: one of them goes *)
(* through its behaviours while the other rests at its start.              *)
(***************************************************************************)
EXTENDS Results, OAuth

ThreeLatencies == {1, 3, 16}

\* a, & and { by name; nothing, a line feed, a space, %, =, ~ and the two bytes
\* "a%" by value.
SomeNames == {<<97>>, <<38>>, <<123>>}
SomeValues == {<<>>, <<10>>, <<32>>, <<37>>, <<61>>, <<126>>, <<97, 37>>}
\* Two of OAuth's own, one of which sorts between those of the request.
TwoOAuthParams == << << <<111>>, <<49>> >>, << <<97>>, <<47>> >> >>
Post == <<80, 38, 104>>

DataInit == ResultsInit /\ Init

DataNext ==
  \/ ResultsNext /\ at = "request" /\ params = <<>> /\ UNCHANGED vars
  \/ Next /\ accumulatedResults = << <<>> >> /\ UNCHANGED accumulatedResults

DataSpec == DataInit /\ [][DataNext]_<<vars, accumulatedResults>>
=============================================================================
