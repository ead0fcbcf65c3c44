------------------------------ MODULE LoadPool ------------------------------
(***************************************************************************)
(* What an I/O thread promises to the rest of the program, with no         *)
(* sockets, watchers, queues or callbacks: a pool of slots that each carry *)
(* one request at a time.  A slot retires only when the run is ending or   *)
(* the slot was dismissed, never comes back, and once the run is ending    *)
(* begins at most one more request.  IOThread implements it (RefinesPool). *)
(***************************************************************************)
EXTENDS Naturals

CONSTANT Slots

VARIABLES
  slot,    \* "none" (not opened yet), "idle", "busy" (with a request), "done"
  kept,    \* the slots the pool wants to have
  phase,   \* "running", "ending", "over"
  last     \* the slots that have begun a request since the run is ending

poolVars == <<slot, kept, phase, last>>

PoolInit ==
  /\ slot = [s \in Slots |-> "none"]
  /\ kept = {}
  /\ phase = "running"
  /\ last = {}

MayBegin(s) == phase = "running" \/ s \notin last
Begun(S) == IF phase = "running" THEN last ELSE last \cup S

\* New slots open, some of them with their first request at once.
Open(S) ==
  /\ phase # "over"
  /\ \A s \in S : slot[s] = "none"
  /\ kept' = kept \cup S
  /\ \E busy \in SUBSET S :
       /\ slot' = [s \in Slots |-> IF s \in busy THEN "busy"
                                   ELSE IF s \in S THEN "idle" ELSE slot[s]]
       /\ last' = Begun(busy)
  /\ UNCHANGED phase

Dismiss(S) ==
  /\ kept' = kept \ S
  /\ UNCHANGED <<slot, phase, last>>

\* A request begins, in a slot that waited or right behind the previous one.
Begin(s) ==
  /\ phase # "over"
  /\ slot[s] \in {"idle", "busy"} /\ MayBegin(s)
  /\ slot' = [slot EXCEPT ![s] = "busy"]
  /\ last' = Begun({s})
  /\ UNCHANGED <<kept, phase>>

Finish(s) ==
  /\ phase # "over"
  /\ slot[s] = "busy"
  /\ slot' = [slot EXCEPT ![s] = "idle"]
  /\ UNCHANGED <<kept, phase, last>>

Retire(s) ==
  /\ phase # "over"
  /\ slot[s] \in {"idle", "busy"}
  /\ phase = "ending" \/ s \notin kept
  /\ slot' = [slot EXCEPT ![s] = "done"]
  /\ UNCHANGED <<kept, phase, last>>

BeginEnding ==
  /\ phase = "running"
  /\ phase' = "ending"
  /\ UNCHANGED <<slot, kept, last>>

\* The pool may be cut short with requests in flight.
End ==
  /\ phase = "ending"
  /\ phase' = "over"
  /\ UNCHANGED <<slot, kept, last>>

\* The owner gives the pool up.
Drop ==
  /\ phase = "over"
  /\ slot' = [s \in Slots |-> "none"]
  /\ kept' = {} /\ last' = {}
  /\ UNCHANGED phase

PoolNext ==
  \/ \E S \in SUBSET Slots : Open(S) \/ Dismiss(S)
  \/ \E s \in Slots : Begin(s) \/ Finish(s) \/ Retire(s)
  \/ BeginEnding
  \/ End
  \/ Drop

PoolSpec == PoolInit /\ [][PoolNext]_poolVars
=============================================================================
