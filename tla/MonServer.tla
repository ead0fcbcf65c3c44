------------------------------ MODULE MonServer ------------------------------
(***************************************************************************)
(* The server side of remote monitoring (apib_mon.cc): MonServer with its  *)
(* loop and its accept thread, the detached thread of each connection, and *)
(* the two programs that use them: apibmon, which starts the server and    *)
(* joins it for ever, and mon_test, which starts it and stops it.          *)
(*                                                                         *)
(* What a command says is of no matter here, only whether it ends the      *)
(* connection ("bye"), does not ("ask"), or does not fit the buffer        *)
(* ("long"); that lines are found however they arrive is LineState, what   *)
(* apib's main makes of the answers is Monitor.                            *)
(***************************************************************************)
EXTENDS Integers, FiniteSets, SequencesExt

CONSTANTS
  Clients,
  Callers,         \* which program: "apibmon", "test"
  ListenBacklog,   \* LISTEN_BACKLOG
  MaxDescriptors,  \* descriptors the process may have
  MaxCommands      \* bound: commands of a client

ASSUME MonServerAssumption ==
  /\ IsFiniteSet(Clients) /\ Callers \subseteq {"apibmon", "test"}
  /\ ListenBacklog \in Nat \ {0} /\ MaxDescriptors \in Nat \ {0} /\ MaxCommands \in Nat

Commands == {"ask", "bye", "long"}

VARIABLES
  caller, callerAt,  \* the program and where it is
  process,           \* "up", "killed" by a signal, or "over"
  loop,              \* the accept thread's: "none", "looping", "ended"
  refs,              \* libev's count of what keeps ev_run going
  asyncSent,         \* ev_async_send has been called and not been seen
  listening,         \* listenfd_ is open and listens
  used,              \* descriptors the process has open
  backlog,           \* connections that are not accepted yet
  client,            \* each client: "away", "here", "gone" or "refused"
  wire,              \* its connection, see Wires
  toServer,          \* its commands that are not read yet
  thread,            \* its connection's thread: "none", "reading", "answering", "ended"
  buffered,          \* complete lines its thread has read
  \* History: commands sent, answers written, answers the client has read, its
  \* commands whose answers it had not read when it left, and which step of start
  \* failed.
  sent, answered, received, left, startFailed

serverVars == <<caller, callerAt, loop, refs, asyncSent, listening, startFailed>>
clientVars == <<client, sent, received, left>>
connectionVars == <<wire, toServer, thread, buffered, answered>>
vars == <<serverVars, clientVars, connectionVars, process, used, backlog>>

\* "answered": the client has closed and an answer reaches its host that nobody
\* reads, be it that it was on its way or in the client's socket then, or that it
\* was written later; "reset": the host's refusal has come.  A write then raises
\* SIGPIPE, which nothing handles or blocks.
Wires == {"open", "closed", "answered", "reset"}

TypeOK ==
  /\ caller \in Callers /\ callerAt \in {"start", "serving", "joining", "stopped", "failed"}
  /\ process \in {"up", "killed", "over"} /\ loop \in {"none", "looping", "ended"}
  /\ refs \in 0 .. 2 /\ asyncSent \in BOOLEAN /\ listening \in BOOLEAN
  /\ used \in 0 .. MaxDescriptors
  /\ backlog \in Seq(Clients) /\ Len(backlog) <= ListenBacklog
  /\ client \in [Clients -> {"away", "here", "gone", "refused"}]
  /\ wire \in [Clients -> Wires] /\ toServer \in [Clients -> Seq(Commands)]
  /\ thread \in [Clients -> {"none", "reading", "answering", "ended"}]
  /\ buffered \in [Clients -> Seq(Commands)]
  /\ sent \in [Clients -> 0 .. MaxCommands]
  /\ \A c \in Clients : /\ answered[c] \in 0 .. sent[c] /\ left[c] \in 0 .. sent[c]
                        /\ received[c] \in 0 .. answered[c]
  /\ startFailed \in {"no", "cpu", "socket", "mode", "bind", "listen"}

Init ==
  /\ caller \in Callers /\ callerAt = "start" /\ process = "up"
  /\ loop = "none" /\ refs = 0 /\ asyncSent = FALSE /\ listening = FALSE
  /\ used = 0 /\ backlog = <<>>
  /\ client = [c \in Clients |-> "away"] /\ wire = [c \in Clients |-> "open"]
  /\ toServer = [c \in Clients |-> <<>>] /\ thread = [c \in Clients |-> "none"]
  /\ buffered = [c \in Clients |-> <<>>]
  /\ sent = [c \in Clients |-> 0] /\ answered = [c \in Clients |-> 0]
  /\ received = [c \in Clients |-> 0] /\ left = [c \in Clients |-> 0] /\ startFailed = "no"

-----------------------------------------------------------------------------
(***************************************************************************)
(* The server.                                                             *)
(***************************************************************************)
\* A socket whose address is taken is left open; one that cannot be made not to
\* block, or does not listen, is closed.
StartFails(step) ==
  /\ process = "up" /\ callerAt = "start"
  /\ used' = IF step = "bind" THEN 1 ELSE 0
  /\ startFailed' = step /\ callerAt' = "failed"
  /\ UNCHANGED <<caller, loop, refs, asyncSent, listening, clientVars, connectionVars,
                 process, backlog>>

\* One reference for each watcher: shutdownev_ and listenev_.
Start ==
  /\ process = "up" /\ callerAt = "start"
  /\ listening' = TRUE /\ used' = 1 /\ refs' = 2 /\ loop' = "looping"
  /\ callerAt' = "serving"
  /\ UNCHANGED <<caller, asyncSent, startFailed, clientVars, connectionVars, process, backlog>>

\* stop() as far as the join.
Stop ==
  /\ process = "up" /\ callerAt = "serving" /\ caller = "test"
  /\ asyncSent' = TRUE /\ callerAt' = "joining"
  /\ UNCHANGED <<caller, loop, refs, listening, startFailed, clientVars, connectionVars,
                 process, used, backlog>>

\* Mutant: only the accept thread's own reference is given back.
handleShutdown_OneRef ==
  /\ process = "up" /\ loop = "looping" /\ asyncSent
  /\ asyncSent' = FALSE /\ refs' = refs - 1
  /\ UNCHANGED <<caller, callerAt, loop, listening, startFailed, clientVars, connectionVars,
                 process, used, backlog>>

handleShutdown ==
  /\ process = "up" /\ loop = "looping" /\ asyncSent
  /\ asyncSent' = FALSE /\ refs' = refs - 2
  /\ UNCHANGED <<caller, callerAt, loop, listening, startFailed, clientVars, connectionVars,
                 process, used, backlog>>

\* ev_run returns.
LoopEnds ==
  /\ process = "up" /\ loop = "looping" /\ refs = 0
  /\ loop' = "ended"
  /\ UNCHANGED <<caller, callerAt, refs, asyncSent, listening, startFailed, clientVars,
                 connectionVars, process, used, backlog>>

\* The rest of stop().  Who was not accepted is refused.
Stopped ==
  /\ process = "up" /\ callerAt = "joining" /\ loop = "ended"
  /\ listening' = FALSE /\ used' = used - 1 /\ callerAt' = "stopped"
  /\ client' = [c \in Clients |->
       IF Contains(backlog, c) /\ client[c] = "here" THEN "refused" ELSE client[c]]
  /\ backlog' = <<>>
  /\ UNCHANGED <<caller, loop, refs, asyncSent, startFailed, sent, received, left,
                 connectionVars, process>>

\* main returns, and with it go the connections' threads.
Exit ==
  /\ process = "up" /\ callerAt \in {"stopped", "failed"}
  /\ process' = "over"
  /\ UNCHANGED <<serverVars, clientVars, connectionVars, used, backlog>>

\* Mutant: the watcher is stopped by its handler.
acceptOne_OneShot ==
  /\ process = "up" /\ loop = "looping" /\ backlog # <<>> /\ used < MaxDescriptors
  /\ refs > 0 /\ refs' = refs - 1
  /\ used' = used + 1
  /\ thread' = [thread EXCEPT ![Head(backlog)] = "reading"]
  /\ backlog' = Tail(backlog)
  /\ UNCHANGED <<caller, callerAt, loop, asyncSent, listening, startFailed, clientVars, wire,
                 toServer, buffered, answered, process>>

\* Without a free descriptor accept fails, and as the watcher is level-triggered
\* it is called again at once: no step of the model until one is free.
acceptOne ==
  /\ process = "up" /\ loop = "looping" /\ backlog # <<>> /\ used < MaxDescriptors
  /\ used' = used + 1
  /\ thread' = [thread EXCEPT ![Head(backlog)] = "reading"]
  /\ backlog' = Tail(backlog)
  /\ UNCHANGED <<serverVars, clientVars, wire, toServer, buffered, answered, process>>

-----------------------------------------------------------------------------
(***************************************************************************)
(* The thread of a connection (MonServerConnection::socketLoop).           *)
(***************************************************************************)
\* close(fd_), delete this.
Ends(c) ==
  /\ thread' = [thread EXCEPT ![c] = "ended"]
  /\ used' = used - 1
  /\ buffered' = [buffered EXCEPT ![c] = <<>>]

\* Mutant: leaving the loop for a command closes nothing.
Answer_ByeLeaks(c) ==
  /\ process = "up" /\ thread[c] = "answering" /\ Head(buffered[c]) # "long"
  /\ answered' = [answered EXCEPT ![c] = @ + 1]
  /\ wire' = [wire EXCEPT ![c] = IF @ = "closed" THEN "answered" ELSE @]
  /\ buffered' = [buffered EXCEPT ![c] = Tail(@)]
  /\ thread' = [thread EXCEPT ![c] = IF Head(buffered[c]) = "bye" THEN "ended"
                                     ELSE IF Len(buffered[c]) = 1 THEN "reading" ELSE @]
  /\ UNCHANGED <<serverVars, clientVars, toServer, process, used, backlog>>

\* Some of what has come, or the end.
Read(c) ==
  /\ process = "up" /\ thread[c] = "reading"
  /\ \/ /\ toServer[c] # <<>> /\ wire[c] # "reset"
        /\ \E n \in 1 .. Len(toServer[c]) :
             /\ buffered' = [buffered EXCEPT ![c] = SubSeq(toServer[c], 1, n)]
             /\ toServer' = [toServer EXCEPT ![c] = SubSeq(@, n + 1, Len(@))]
        /\ thread' = [thread EXCEPT ![c] = "answering"]
        /\ UNCHANGED used
     \/ /\ wire[c] = "reset" \/ (wire[c] # "open" /\ toServer[c] = <<>>)
        /\ Ends(c) /\ UNCHANGED toServer
  /\ UNCHANGED <<serverVars, clientVars, wire, answered, process, backlog>>

\* Mutant: the answer is written first and its newline after it.
Killed_TwoWrites(c) ==
  /\ process = "up" /\ thread[c] = "answering" /\ Head(buffered[c]) # "long"
  /\ wire[c] \in {"closed", "answered", "reset"}
  /\ process' = "killed"
  /\ UNCHANGED <<serverVars, clientVars, connectionVars, used, backlog>>

\* processCommand writes to a connection that its client has reset.
Killed(c) ==
  /\ process = "up" /\ thread[c] = "answering" /\ Head(buffered[c]) # "long"
  /\ wire[c] = "reset"
  /\ process' = "killed"
  /\ UNCHANGED <<serverVars, clientVars, connectionVars, used, backlog>>

\* Mutant: of several lines read at once only the first is looked at.
Answer_FirstLine(c) ==
  /\ process = "up" /\ thread[c] = "answering" /\ Head(buffered[c]) # "long"
  /\ answered' = [answered EXCEPT ![c] = @ + 1]
  /\ wire' = [wire EXCEPT ![c] = IF @ = "closed" THEN "answered" ELSE @]
  /\ buffered' = [buffered EXCEPT ![c] = <<>>]
  /\ IF Head(buffered[c]) = "bye"
     THEN Ends(c)
     ELSE thread' = [thread EXCEPT ![c] = "reading"] /\ UNCHANGED used
  /\ UNCHANGED <<serverVars, clientVars, toServer, process, backlog>>

\* The rest of the buffer is a line without its end: consume() finds no room.
TooLong(c) ==
  /\ process = "up" /\ thread[c] = "answering" /\ Head(buffered[c]) = "long"
  /\ Ends(c)
  /\ UNCHANGED <<serverVars, clientVars, wire, toServer, answered, process, backlog>>

\* processCommand; nobody looks at what sendBack returns.  Also on a connection
\* that is reset: where the client's close was the reset itself, the first write
\* is told so as an error.
Answer(c) ==
  /\ process = "up" /\ thread[c] = "answering" /\ Head(buffered[c]) # "long"
  /\ answered' = [answered EXCEPT ![c] = @ + 1]
  /\ wire' = [wire EXCEPT ![c] = IF @ = "closed" THEN "answered" ELSE @]
  /\ IF Head(buffered[c]) = "bye"
     THEN Ends(c)
     ELSE /\ buffered' = [buffered EXCEPT ![c] = Tail(@)]
          /\ thread' = [thread EXCEPT ![c] = IF buffered'[c] = <<>> THEN "reading" ELSE @]
          /\ UNCHANGED used
  /\ UNCHANGED <<serverVars, clientVars, toServer, process, backlog>>

-----------------------------------------------------------------------------
(***************************************************************************)
(* The clients, apib among them.                                           *)
(***************************************************************************)
ClientConnects(c) ==
  /\ process = "up" /\ listening /\ client[c] = "away" /\ Len(backlog) < ListenBacklog
  /\ client' = [client EXCEPT ![c] = "here"] /\ backlog' = Append(backlog, c)
  /\ UNCHANGED <<serverVars, connectionVars, sent, received, left, process, used>>

\* Also while the connection waits in the backlog.
ClientSends(c, command) ==
  /\ process = "up" /\ client[c] = "here" /\ sent[c] < MaxCommands
  /\ sent' = [sent EXCEPT ![c] = @ + 1]
  /\ toServer' = [toServer EXCEPT ![c] = Append(@, command)]
  /\ UNCHANGED <<serverVars, client, received, left, wire, thread, buffered, answered,
                 process, used, backlog>>

ClientReads(c) ==
  /\ process = "up" /\ client[c] = "here" /\ received[c] < answered[c]
  /\ received' = [received EXCEPT ![c] = @ + 1]
  /\ UNCHANGED <<serverVars, client, sent, left, connectionVars, process, used, backlog>>

\* An answer that it has not read is refused.
ClientLeaves(c) ==
  /\ process = "up" /\ client[c] = "here"
  /\ client' = [client EXCEPT ![c] = "gone"]
  /\ left' = [left EXCEPT ![c] = sent[c] - received[c]]
  /\ wire' = [wire EXCEPT ![c] = IF received[c] < answered[c] THEN "answered" ELSE "closed"]
  /\ UNCHANGED <<serverVars, sent, received, toServer, thread, buffered, answered,
                 process, used, backlog>>

ResetArrives(c) ==
  /\ process = "up" /\ wire[c] = "answered"
  /\ wire' = [wire EXCEPT ![c] = "reset"]
  /\ UNCHANGED <<serverVars, clientVars, toServer, thread, buffered, answered, process, used, backlog>>

-----------------------------------------------------------------------------
ConnectionStep(c) == Read(c) \/ Answer(c) \/ TooLong(c) \/ Killed(c)

\* The loop waits, or the process is no more.
Idle == (process # "up" \/ loop = "looping") /\ UNCHANGED vars

Next ==
  \/ \E step \in {"cpu", "socket", "mode", "bind", "listen"} : StartFails(step)
  \/ Start \/ Stop \/ handleShutdown \/ LoopEnds \/ Stopped \/ Exit \/ acceptOne
  \/ \E c \in Clients :
       \/ ConnectionStep(c)
       \/ ClientConnects(c)
       \/ \E command \in Commands : ClientSends(c, command)
       \/ ClientReads(c)
       \/ ClientLeaves(c)
       \/ ResetArrives(c)
  \/ Idle

Spec == Init /\ [][Next]_vars

\* The accept thread's loop looks at every watcher in every round, and the
\* threads are scheduled.  Nothing is assumed of clients, nor that stop is called.
Fairness ==
  /\ WF_vars(handleShutdown) /\ WF_vars(LoopEnds) /\ WF_vars(Stopped) /\ WF_vars(acceptOne)
  /\ \A c \in Clients : WF_vars(ConnectionStep(c))
FairSpec == Spec /\ Fairness

-----------------------------------------------------------------------------
(***************************************************************************)
(* Properties.                                                             *)
(***************************************************************************)
Serving(c) == thread[c] \in {"reading", "answering"}

\* Every descriptor is closed once and none is lost, however connections, start
\* and stop end; only a start that could not bind leaves its socket open.  (And
\* every variable has its type.)
DescriptorsAccount ==
  /\ TypeOK
  /\ used = (IF listening \/ startFailed = "bind" THEN 1 ELSE 0)
            + Cardinality({c \in Clients : Serving(c)})

\* The loop ends if stop() was called and not before: what start() and
\* handleShutdown do to its references adds up, with connections or without.
LoopWhileWanted ==
  /\ loop = "ended" => callerAt \in {"joining", "stopped"}
  /\ loop = "looping" /\ refs = 0 => callerAt = "joining" /\ ~asyncSent

\* The process survives its clients as long as none leaves with two commands or
\* more whose answers it has not read: the first answer may be refused, be it on
\* its way already when the client leaves, and the second be the process's end.
SurvivesPoliteClients ==
  process = "killed" => \E c \in Clients : left[c] >= 2

\* stop() returns, whatever clients do.
StopCompletes == callerAt = "joining" ~> (callerAt = "stopped" \/ process = "killed")

\* No client is forgotten, not even after accept has failed: one that stays, and
\* for which again and again there is a descriptor or the thread it has already,
\* is answered, unless it has said goodbye, has sent a line too long for the
\* buffer, is refused, or the server ends.
Unanswered(c) == client[c] = "here" /\ answered[c] < sent[c] /\ thread[c] # "ended"
ClientsAnswered ==
  \A c \in Clients :
    []<>(used < MaxDescriptors \/ Serving(c)) =>
      (Unanswered(c) ~> (~Unanswered(c) \/ process # "up" \/ loop = "ended"))
=============================================================================
