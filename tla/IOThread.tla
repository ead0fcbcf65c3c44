------------------------------ MODULE IOThread ------------------------------
(***************************************************************************)
(* An I/O thread (class IOThread), the connections it drives from its      *)
(* libev loop, and the thread that owns it and calls Start,                *)
(* SetNumConnections, RequestStop and Join.                                *)
(*                                                                         *)
(* The two threads share the command queue (every access under its mutex)  *)
(* and the async watcher.  A callback of the loop is atomic except where   *)
(* the other thread can see or change something half way: each iteration   *)
(* of processCommands, readReady and writeReady is a step of its own.      *)
(* Time is abstract: a timer that is active may fire.                      *)
(***************************************************************************)
EXTENDS ConnectionState, Sequences, FiniteSets

CONSTANTS
  NumConnections,   \* numConnections at Start
  Modes,            \* whether main was asked for one request only ("-1")
  ResizeTargets,    \* arguments SetNumConnections is called with
  MaxResizes,       \* bound: calls of SetNumConnections
  MaxConnections,   \* bound: ConnectionState objects ever allocated
  CallerWaits       \* the caller issues no command before the loop runs

ASSUME ThreadAssumption ==
  /\ NumConnections \in Nat /\ MaxConnections \in Nat /\ MaxResizes \in Nat
  /\ NumConnections <= MaxConnections
  /\ Modes \subseteq BOOLEAN /\ CallerWaits \in BOOLEAN
  /\ ResizeTargets \subseteq Nat

VARIABLES
  JustOnce,       \* "-1" was given: keepRunning is set to -1 before Start
  callerAt,       \* where the calling thread is
  budget,         \* calls of SetNumConnections left
  requested,      \* history: the last number of connections asked for
  threadAt,       \* where the I/O thread is; loop_ exists from "async" on
  keepRunning,
  commands,       \* CommandQueue::commands_
  asyncSent,      \* the async watcher has been signalled
  callback,       \* the callback that is in the middle of its loop
  shutdownTimer,  \* shutdownTimer_ is active
  refs,           \* the loop's count of active watchers plus ev_ref - ev_unref
  loopDone,       \* ev_break was called
  conns,          \* every ConnectionState allocated, in order
  connections     \* connections_: which of them the thread still lists

callerVars == <<JustOnce, callerAt, budget, requested>>
loopVars   == <<threadAt, keepRunning, shutdownTimer, loopDone>>
vars == <<callerVars, loopVars, commands, asyncSent, callback, refs, conns, connections>>

Command == [cmd : {"STOP"}] \cup [cmd : {"SET_CONNECTIONS"}, newNumConnections : ResizeTargets]
Ids == 1 .. Len(conns)
shouldKeepRunning == keepRunning # 0

TypeOK ==
  /\ JustOnce \in BOOLEAN
  /\ callerAt \in {"new", "ready", "signalResize", "signalStop", "join",
                   "joined", "destroyed", "crashed"}
  /\ budget \in Nat
  /\ requested \in ResizeTargets \cup {NumConnections}
  /\ threadAt \in {"none", "create", "async", "connect", "run", "exited"}
  /\ keepRunning \in {-1, 0, 1}
  /\ commands \in Seq(Command)
  /\ asyncSent \in BOOLEAN
  /\ callback \in {0, -1} \cup Ids
  /\ shutdownTimer \in BOOLEAN
  /\ refs \in Int
  /\ loopDone \in BOOLEAN
  /\ conns \in Seq(Connection) /\ Len(conns) <= MaxConnections
  /\ connections \in Seq(Ids)

\* Values of callback other than the index of a connection.
Idle == 0
ProcessingCommands == -1

Init ==
  /\ JustOnce \in Modes
  /\ callerAt = "new" /\ budget = MaxResizes /\ requested = NumConnections
  /\ threadAt = "none" /\ keepRunning = IF JustOnce THEN -1 ELSE 1
  /\ commands = <<>> /\ asyncSent = FALSE /\ callback = Idle
  /\ shutdownTimer = FALSE /\ refs = 0 /\ loopDone = FALSE
  /\ conns = <<>> /\ connections = <<>>

-----------------------------------------------------------------------------
(***************************************************************************)
(* The calling thread.                                                     *)
(***************************************************************************)
Start ==
  /\ callerAt = "new"
  /\ callerAt' = "ready"
  /\ keepRunning' = IF keepRunning < 0 THEN 0 ELSE 1
  /\ threadAt' = "create"
  /\ UNCHANGED <<JustOnce, budget, requested, commands, asyncSent, callback, shutdownTimer,
                 refs, loopDone, conns, connections>>

\* Mutant: RequestStop with "-1" too, when the loop ends by itself.
MayCommand_EvenOnce == callerAt = "ready" /\ (CallerWaits => threadAt = "run")

MayCommand == callerAt = "ready" /\ ~JustOnce /\ (CallerWaits => threadAt = "run")

\* First half of SetNumConnections: the command is in the queue.
SetNumConnections(n) ==
  /\ MayCommand
  /\ budget > 0
  /\ budget' = budget - 1
  /\ requested' = n
  /\ commands' = Append(commands, [cmd |-> "SET_CONNECTIONS", newNumConnections |-> n])
  /\ callerAt' = "signalResize"
  /\ UNCHANGED <<JustOnce, loopVars, asyncSent, callback, refs, conns, connections>>

\* First half of RequestStop.
RequestStop ==
  /\ MayCommand
  /\ commands' = Append(commands, [cmd |-> "STOP"])
  /\ callerAt' = "signalStop"
  /\ UNCHANGED <<JustOnce, budget, requested, loopVars, asyncSent, callback, refs, conns, connections>>

\* Second half of both: ev_async_send(loop_, &async_).  Before threadLoopBody
\* has assigned loop_ this passes a null loop; ev_loop_destroy frees it.
ev_async_send ==
  /\ callerAt \in {"signalResize", "signalStop"}
  /\ IF threadAt \in {"none", "create", "exited"}
     THEN callerAt' = "crashed" /\ UNCHANGED asyncSent
     ELSE /\ callerAt' = IF callerAt = "signalStop" THEN "join" ELSE "ready"
          /\ asyncSent' = TRUE
  /\ UNCHANGED <<JustOnce, budget, requested, loopVars, commands, callback, refs, conns, connections>>

\* With "-1" the caller goes from Start straight to Join.
Join ==
  /\ \/ callerAt = "join"
     \/ callerAt = "ready" /\ JustOnce
  /\ threadAt = "exited"
  /\ callerAt' = "joined"
  /\ UNCHANGED <<JustOnce, budget, requested, loopVars, commands, asyncSent, callback, refs,
                 conns, connections>>

\* ~IOThread frees the connections it lists; those it dropped are leaked, and
\* nothing refers to them any more.
Destroy ==
  /\ callerAt = "joined"
  /\ callerAt' = "destroyed"
  /\ conns' = <<>> /\ connections' = <<>>
  /\ UNCHANGED <<JustOnce, budget, requested, loopVars, commands, asyncSent, callback, refs>>

-----------------------------------------------------------------------------
(***************************************************************************)
(* The I/O thread before ev_run.                                           *)
(***************************************************************************)
\* loop_ = ev_loop_new(...)
CreateLoop ==
  /\ threadAt = "create"
  /\ threadAt' = "async"
  /\ UNCHANGED <<callerVars, keepRunning, shutdownTimer, loopDone, commands, asyncSent,
                 callback, refs, conns, connections>>

\* ev_async_start adds a watcher and clears the watcher's sent flag; the
\* ev_unref takes the watcher out of the count again.
StartAsync ==
  /\ threadAt = "async"
  /\ threadAt' = "connect"
  /\ asyncSent' = FALSE
  /\ refs' = refs + 1 - 1
  /\ UNCHANGED <<callerVars, keepRunning, shutdownTimer, loopDone, commands,
                 callback, conns, connections>>

\* Watchers of one connection that the loop counts.
Watching(c) == (IF c.io # "none" THEN 1 ELSE 0) + (IF c.timer THEN 1 ELSE 0)

\* k new objects are allocated, started and pushed to the back of connections_.
AddConnections(k) ==
  \E new \in [1 .. k -> StartConnect(NewConnection, shouldKeepRunning)] :
    /\ Len(conns) + k <= MaxConnections
    /\ conns' = conns \o new
    /\ connections' = connections \o [j \in 1 .. k |-> Len(conns) + j]
    /\ refs' = refs + Cardinality({j \in 1 .. k : new[j].io # "none"})
                    + Cardinality({j \in 1 .. k : new[j].timer})

StartConnection ==
  /\ threadAt = "connect"
  /\ Len(connections) < NumConnections
  /\ AddConnections(1)
  /\ UNCHANGED <<callerVars, loopVars, commands, asyncSent, callback>>

\* Mutant: the extra reference is taken whatever keepRunning says.
EnterLoop_AlwaysRefs ==
  /\ threadAt = "connect"
  /\ Len(connections) = NumConnections
  /\ threadAt' = "run"
  /\ refs' = refs + 1
  /\ UNCHANGED <<callerVars, keepRunning, shutdownTimer, loopDone, commands, asyncSent,
                 callback, conns, connections>>

\* The extra reference keeps the loop open with no connections at all.
EnterLoop ==
  /\ threadAt = "connect"
  /\ Len(connections) = NumConnections
  /\ threadAt' = "run"
  /\ refs' = IF shouldKeepRunning THEN refs + 1 ELSE refs
  /\ UNCHANGED <<callerVars, keepRunning, shutdownTimer, loopDone, commands, asyncSent,
                 callback, conns, connections>>

-----------------------------------------------------------------------------
(***************************************************************************)
(* Commands.                                                               *)
(***************************************************************************)
\* The loop sees the async watcher's flag, clears it and calls processCommands.
AsyncReady ==
  /\ threadAt = "run" /\ callback = Idle
  /\ asyncSent
  /\ asyncSent' = FALSE
  /\ callback' = ProcessingCommands
  /\ UNCHANGED <<callerVars, loopVars, commands, refs, conns, connections>>

Pop == commands # <<>> /\ commands' = Tail(commands)

\* Mutants: the timer stays in the count; it is taken out of the count though
\* it was never started; it is forgotten.
ProcessStop_CountsTimer ==
  /\ callback = ProcessingCommands
  /\ Pop /\ Head(commands).cmd = "STOP"
  /\ keepRunning' = 0
  /\ shutdownTimer' = TRUE
  /\ refs' = refs - 1 + 1
  /\ UNCHANGED <<callerVars, threadAt, loopDone, asyncSent, callback, conns, connections>>
ProcessStop_NoTimer ==
  /\ callback = ProcessingCommands
  /\ Pop /\ Head(commands).cmd = "STOP"
  /\ keepRunning' = 0
  /\ refs' = refs - 1 - 1
  /\ UNCHANGED <<callerVars, threadAt, shutdownTimer, loopDone, asyncSent, callback,
                 conns, connections>>
ProcessStop_Unwatched ==
  /\ callback = ProcessingCommands
  /\ Pop /\ Head(commands).cmd = "STOP"
  /\ keepRunning' = 0
  /\ refs' = refs - 1
  /\ UNCHANGED <<callerVars, threadAt, shutdownTimer, loopDone, asyncSent, callback,
                 conns, connections>>

\* case STOP: the extra reference goes, the shutdown timer starts and is taken
\* out of the count.
ProcessStop ==
  /\ callback = ProcessingCommands
  /\ Pop /\ Head(commands).cmd = "STOP"
  /\ keepRunning' = 0
  /\ shutdownTimer' = TRUE
  /\ refs' = refs - 1 + 1 - 1
  /\ UNCHANGED <<callerVars, threadAt, loopDone, asyncSent, callback, conns, connections>>

Grow(n) == n > Len(connections) /\ AddConnections(n - Len(connections))

\* Mutant: off by one, the last of those that stay is told to stop as well.
Shrink_OneTooMany(n) ==
  /\ n <= Len(connections)
  /\ LET popped == {connections[k] : k \in {k \in DOMAIN connections : k >= n}}
     IN  conns' = [i \in Ids |-> IF i \in popped THEN stopRunning(conns[i]) ELSE conns[i]]
  /\ connections' = SubSeq(connections, 1, n)
  /\ UNCHANGED refs

Shrink(n) ==
  /\ n <= Len(connections)
  /\ LET popped == {connections[k] : k \in n + 1 .. Len(connections)}
     IN  conns' = [i \in Ids |-> IF i \in popped THEN stopRunning(conns[i]) ELSE conns[i]]
  /\ connections' = SubSeq(connections, 1, n)
  /\ UNCHANGED refs

setNumConnections(n) == Grow(n) \/ Shrink(n)

\* case SET_CONNECTIONS
ProcessSetConnections ==
  /\ callback = ProcessingCommands
  /\ Pop /\ Head(commands).cmd = "SET_CONNECTIONS"
  /\ setNumConnections(Head(commands).newNumConnections)
  /\ UNCHANGED <<callerVars, loopVars, asyncSent, callback>>

\* Pop returned false.
CommandsDone ==
  /\ callback = ProcessingCommands
  /\ commands = <<>>
  /\ callback' = Idle
  /\ UNCHANGED <<callerVars, loopVars, commands, asyncSent, refs, conns, connections>>

-----------------------------------------------------------------------------
(***************************************************************************)
(* Connection callbacks.                                                   *)
(***************************************************************************)
Update(i, c) ==
  /\ conns' = [conns EXCEPT ![i] = c]
  /\ refs' = refs + Watching(c) - Watching(conns[i])
  /\ UNCHANGED <<callerVars, loopVars, commands, asyncSent, connections>>

InLoopOf(i, watcher) ==
  /\ threadAt = "run" /\ callback \in {Idle, i}
  /\ conns[i].io = watcher

\* One iteration of writeReady.
WriteReady(i) ==
  /\ InLoopOf(i, "writeReady")
  /\ \E r \in singleWrite(conns[i], shouldKeepRunning) :
       /\ Update(i, r.conn)
       /\ callback' = IF r.more THEN i ELSE Idle

\* One iteration of readReady.
ReadReady(i) ==
  /\ InLoopOf(i, "readReady")
  /\ \E r \in singleRead(conns[i], shouldKeepRunning) :
       /\ Update(i, r.conn)
       /\ callback' = IF r.more THEN i ELSE Idle

CompleteShutdown(i) ==
  /\ threadAt = "run" /\ callback = Idle
  /\ conns[i].io = "completeShutdown"
  /\ \E c \in completeShutdown(conns[i], shouldKeepRunning) : Update(i, c)
  /\ UNCHANGED callback

ThinkingDone(i) ==
  /\ threadAt = "run" /\ callback = Idle
  /\ conns[i].timer
  /\ \E c \in thinkingDone(conns[i], shouldKeepRunning) : Update(i, c)
  /\ UNCHANGED callback

-----------------------------------------------------------------------------
(***************************************************************************)
(* The end of the loop.                                                    *)
(***************************************************************************)
\* libev stops a timer that does not repeat before its callback runs.
HardShutdown ==
  /\ threadAt = "run" /\ callback = Idle
  /\ shutdownTimer
  /\ shutdownTimer' = FALSE
  /\ refs' = refs - 1
  /\ loopDone' = TRUE
  /\ UNCHANGED <<callerVars, threadAt, keepRunning, commands, asyncSent, callback,
                 conns, connections>>

\* ev_run returns between two callbacks once nothing counted is active or
\* ev_break was called; ev_loop_destroy follows.
ExitLoop ==
  /\ threadAt = "run" /\ callback = Idle
  /\ refs = 0 \/ loopDone
  /\ threadAt' = "exited"
  /\ UNCHANGED <<callerVars, keepRunning, shutdownTimer, loopDone, commands, asyncSent,
                 callback, refs, conns, connections>>

-----------------------------------------------------------------------------
CallerNext ==
  \/ Start
  \/ \E n \in ResizeTargets : SetNumConnections(n)
  \/ RequestStop
  \/ ev_async_send
  \/ Join
  \/ Destroy

StartupNext == CreateLoop \/ StartAsync \/ StartConnection \/ EnterLoop

CommandNext == AsyncReady \/ ProcessStop \/ ProcessSetConnections \/ CommandsDone

ConnectionNext(i) ==
  \/ WriteReady(i)
  \/ ReadReady(i)
  \/ CompleteShutdown(i)
  \/ ThinkingDone(i)

\* The thread's owner is done with it, or undefined behaviour took the process.
Terminated == callerAt \in {"destroyed", "crashed"} /\ UNCHANGED vars

Next ==
  \/ CallerNext
  \/ StartupNext
  \/ CommandNext
  \/ \E i \in Ids : ConnectionNext(i)
  \/ HardShutdown
  \/ ExitLoop
  \/ Terminated

Spec == Init /\ [][Next]_vars

(***************************************************************************)
(* Fairness.  Both threads are scheduled, so each goes on with what it is  *)
(* in the middle of (WF).  libev serves every ready watcher and every      *)
(* expired timer in each round of the loop and leaves it at the end of a   *)
(* round, so none of these is passed over for ever by callbacks that keep  *)
(* coming (SF).  Nothing is assumed about the caller's decisions to resize *)
(* or to stop, nor here about the server.                                  *)
(***************************************************************************)
Callback(i) == ConnectionNext(i) /\ callback = i

Fairness ==
  /\ WF_vars(Start) /\ WF_vars(ev_async_send) /\ WF_vars(Join)
  /\ WF_vars(StartupNext)
  /\ WF_vars(ProcessStop \/ ProcessSetConnections \/ CommandsDone)
  /\ \A i \in 1 .. MaxConnections : WF_vars(i \in Ids /\ Callback(i))
  /\ SF_vars(AsyncReady) /\ SF_vars(HardShutdown) /\ SF_vars(ExitLoop)

FairSpec == Spec /\ Fairness

(***************************************************************************)
(* A server and a network that do their part: a write is eventually        *)
(* accepted, a response that was awaited for ever comes to its end         *)
(* (nothing more is asked of a server that has closed its side), a TLS     *)
(* shutdown is answered, and connecting does not fail for ever.            *)
(***************************************************************************)
Progress(i) ==
  \/ ReadReady(i) /\ ~conns[i].eof /\ conns'[i].io # "readReady"
  \/ WriteReady(i) /\ (conns'[i].io # "writeReady" \/ conns'[i].pos > conns[i].pos)
  \/ CompleteShutdown(i) /\ conns'[i].io # "completeShutdown"
  \/ ThinkingDone(i) /\ HasSocket(conns'[i])

ServerFairness == \A i \in 1 .. MaxConnections : SF_vars(i \in Ids /\ Progress(i))

-----------------------------------------------------------------------------
(***************************************************************************)
(* Safety.                                                                 *)
(***************************************************************************)
Alive(c) == c.io # "none" \/ c.timer
InRequest(c) == c.io \in {"writeReady", "readReady"}
NaturalDirection(watcher) == IF watcher = "writeReady" THEN "write" ELSE "read"

\* No chain of handlers loses a connection or arms it twice: it is waiting for
\* the socket or for the timer and never for both, or it has closed for good,
\* and that only after STOP or after it was told to stop running.
NeverStranded ==
  \A i \in Ids : LET c == conns[i] IN
    IF Alive(c) THEN c.io = "none" \/ ~c.timer
    ELSE ~HasSocket(c) /\ (~c.keepRunning \/ keepRunning = 0)

\* io_ is armed on an open socket only, and backwardsIo_ tells the truth: the
\* watcher waits for the direction opposite to its callback's exactly when it
\* is set, which only TLS ever needs.
WatcherMatchesSocket ==
  \A i \in Ids : LET c == conns[i] IN
    c.io # "none" =>
      /\ HasSocket(c)
      /\ c.backwardsIo <=> (c.mask # NaturalDirection(c.io))
      /\ c.backwardsIo => c.tls

\* A request that is being sent or answered is the one for url_, on a
\* connection to the server of url_, however URLs, keep-alive, errors and
\* reconnects followed each other.
RequestMatchesServer ==
  \A i \in Ids : LET c == conns[i] IN
    InRequest(c) => c.reqUrl = c.url /\ c.peer = Address[c.url]

\* Every request is accounted for exactly once, as a result or as an error:
\* none is outstanding unless it is being sent or answered.
AccountedOnce ==
  \A i \in Ids : conns[i].owed = IF InRequest(conns[i]) THEN 1 ELSE 0

\* What goes out is the request and nothing else (no bytes of an older, longer
\* one behind it).
SendsOnlyTheRequest ==
  \A i \in Ids : conns[i].io = "writeReady" => conns[i].bufLen = conns[i].reqLen

\* After STOP a connection finishes what it is doing and begins at most one
\* more request (a thinking one still sends when its timer fires).
AtMostOneAfterStop == \A i \in Ids : conns[i].afterStop <= 1

\* "Unneeded connections shutting down when done with their current requests"
\* (apib_iothread.h): a connection that SetNumConnections took away begins no
\* other request.  The code does not keep this promise: recycle never asks
\* keepRunning_, so who is kept alive goes on, and who thinks still sends.
DismissedSendNoMore ==
  [][\A i \in Ids \cap Ids' :
       (~conns[i].keepRunning /\ conns[i].io # "writeReady")
         => conns'[i].io # "writeReady"]_vars

\* What is left of that promise: CloseDone does ask keepRunning_, so a dismissed
\* connection, however long it is kept alive and sends, connects at most once
\* more (when it was thinking or waiting to try again) and ends when that socket
\* is closed.
AtMostOneConnectAfterShrink == \A i \in Ids : conns[i].afterShrink <= 1

\* The loop's reference count is what keeps ev_run going: the active watchers
\* of all connections, dropped ones included, and one more until STOP.  (And every
\* variable has its type.)
RefsAccount ==
  /\ TypeOK
  /\ (threadAt = "run" /\ ~loopDone) =>
       refs = Cardinality({i \in Ids : conns[i].io # "none"})
              + Cardinality({i \in Ids : conns[i].timer})
              + (IF shouldKeepRunning THEN 1 ELSE 0)

\* The loop ends only after STOP (or for "-1"), never for want of connections,
\* and unless the shutdown timer cut it short no connection is left behind.
CleanExit ==
  threadAt = "exited" =>
    keepRunning = 0 /\ (loopDone \/ \A i \in Ids : ~Alive(conns[i]))

\* Once the queue is drained the thread lists as many connections as the last
\* SetNumConnections asked for; they run and all others were told to stop.
ResizeApplied ==
  (threadAt = "run" /\ commands = <<>> /\ callerAt # "new") =>
    /\ Len(connections) = requested
    /\ \A i \in Ids : conns[i].keepRunning <=> \E k \in DOMAIN connections : connections[k] = i

\* The caller never hands libev a loop that does not exist.  It holds when
\* STOP is the only command; after SetNumConnections the loop may serve STOP on
\* the earlier wakeup and be destroyed before RequestStop has signalled it.
LoopExistsWhenSignalled == callerAt # "crashed"

-----------------------------------------------------------------------------
(***************************************************************************)
(* Refinement.                                                             *)
(***************************************************************************)
SlotOf(i) ==
  IF i \notin Ids THEN "none"
  ELSE IF InRequest(conns[i]) THEN "busy"
  ELSE IF Alive(conns[i]) THEN "idle" ELSE "done"

Pool == INSTANCE LoadPool WITH
  Slots <- 1 .. MaxConnections,
  slot  <- [i \in 1 .. MaxConnections |-> SlotOf(i)],
  kept  <- {connections[k] : k \in DOMAIN connections},
  phase <- IF threadAt = "exited" THEN "over"
           ELSE IF keepRunning = 0 THEN "ending" ELSE "running",
  last  <- {i \in Ids : conns[i].afterStop > 0}

\* Behind its callbacks the thread is the pool of requests LoadPool describes.
RefinesPool == Pool!PoolSpec

-----------------------------------------------------------------------------
(***************************************************************************)
(* Liveness.                                                               *)
(***************************************************************************)
\* No callback goes on for ever.  The code does not see to that: readReady goes
\* round as long as reads succeed and the response is not whole, be it a body
\* that is always there to be read or the zero bytes of a plain stream at its
\* end, and nothing else of the thread is served meanwhile.
LoopsEnd == \A i \in 1 .. MaxConnections : []<>(callback # i)

\* RequestStop stops the thread, whatever else servers and network do, answered
\* or not, through TLS shutdowns and retries: Join returns, if only every
\* callback does.
StopCompletes ==
  LoopsEnd => ((callerAt = "signalStop") ~> (callerAt \in {"joined", "destroyed"}))

\* "-1": with a server that answers the run ends by itself.
JustOnceCompletes ==
  (ServerFairness /\ LoopsEnd) =>
    (JustOnce => <>(callerAt \in {"joined", "destroyed"}))

\* When the server closes its side early the connection does not stay on the
\* dead socket: it is opened again, or the run is over for it.
AtEof(i) == i \in Ids /\ conns[i].eof /\ threadAt = "run"
EofReconnects ==
  ServerFairness => \A i \in 1 .. MaxConnections : AtEof(i) ~> ~AtEof(i)

\* The same of TLS connections, whose read tells the end of the stream from data.
AtTlsEof(i) == AtEof(i) /\ conns[i].tls
TlsEofReconnects ==
  ServerFairness => \A i \in 1 .. MaxConnections : AtTlsEof(i) ~> ~AtTlsEof(i)

\* "-1": every connection has begun exactly one request when the loop ends,
\* however often connecting failed before.
JustOneRequest ==
  (JustOnce /\ threadAt = "exited") => \A i \in Ids : conns[i].afterStop = 1

\* The load is maintained: a connection without a socket gets one again, or
\* the run is over for it.
Down(i) ==
  i \in Ids /\ ~HasSocket(conns[i]) /\ conns[i].keepRunning /\ shouldKeepRunning
Reconnects ==
  (ServerFairness /\ LoopsEnd) => \A i \in 1 .. MaxConnections : Down(i) ~> ~Down(i)
=============================================================================
