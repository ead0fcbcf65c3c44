------------------------------- MODULE Monitor -------------------------------
(***************************************************************************)
(* Remote monitoring: main asks the apibmon of each host for its CPU and   *)
(* memory usage (connectMonitor and getRemoteStat of apib_reporting.cc) and *)
(* a thread of apibmon answers (MonServerConnection of apib_mon.cc), while *)
(* the I/O threads open and close sockets of their own in the same table   *)
(* of descriptors.                                                         *)
(*                                                                         *)
(* Commands are written and read whole (LineState shows that the server    *)
(* gets them so); a reply has two parts and may be read in two.            *)
(***************************************************************************)
EXTENDS Integers, FiniteSets, SequencesExt, FiniteSetsExt

CONSTANTS
  NumHosts,       \* hosts to monitor: -M, then -X
  NumDescriptors, \* bound: descriptors of apib that take part
  NumTags,        \* bound: commands that are told apart, the next one is tag 1
  MaxIntervals,   \* bound: calls of ReportInterval or SampleCPU while it waits
  Phases,         \* the phases main may begin with: "warmup", "run"
  Faults,         \* what may go wrong, see FaultKinds
  MaxFaults       \* bound: how often something does

\* A monitored host has no address, refuses the connection, goes away, has its
\* reply read in two; a connect of an I/O thread fails.
FaultKinds == {"lookup", "connect", "server", "torn", "load"}

ASSUME MonitorAssumption ==
  /\ NumHosts \in Nat /\ MaxIntervals \in Nat /\ NumTags \in Nat \ {0}
  /\ MaxFaults \in Nat
  /\ NumDescriptors \in Nat
  /\ Phases \subseteq {"warmup", "run"} /\ Faults \subseteq FaultKinds

Hosts == 1 .. NumHosts
Descriptors == 1 .. NumDescriptors
\* What socket() returns without one: nothing is ever open at it.
Invalid == -1
Numbers == Descriptors \cup {Invalid}
Tags == 1 .. NumTags
Load == NumHosts + 1     \* a socket of an I/O thread
Free == 0

VARIABLES
  phase,            \* "warmup" or "run"
  at,               \* the call main is in, see Calls
  host,             \* the host it has come to
  intervals,        \* calls of ReportInterval or SampleCPU left
  asked,            \* the command getRemoteStat has written, or 0
  remoteCpuSocket,  \* the descriptor of each host, 0 for none
  owner,            \* what each number is open for: a host, Load or Free
  closed,           \* the number an I/O thread has closed and will close again, or 0
  toServer,         \* commands on their way to each host's apibmon
  toClient,         \* parts of replies on their way back
  serverUp,         \* apibmon has the connection open
  faults,           \* faults left
  \* History: the tag of the last command, the value read for it with its host
  \* and command, whether a connect failed, whether a reply was read in part;
  \* the hosts whose number has been closed by someone and is kept.
  lastTag, got, connectFailed, torn, stray

progress == <<phase, at, intervals>>
history == <<lastTag, got, connectFailed, torn, stray>>
mainVars == <<progress, host, asked, remoteCpuSocket, history>>
network == <<toServer, toClient, serverUp>>
vars == <<mainVars, network, owner, closed, faults>>

\* RecordStart, then waiting, ReportInterval or SampleCPU, then RecordStop:
\* SampleCPU and the memory; EndReporting.
Calls == {"start", "wait", "interval", "sample", "memory", "end", "done"}
\* In these each host with a connection is asked once.
Asking == {"interval", "sample", "memory"}

Part == {"head", "tail"}
NoReply == [from |-> 0, command |-> 0, part |-> "head"]
Reply == [from : Hosts, command : 0 .. NumTags, part : Part] \cup {NoReply}
NoValue == [host |-> 1, command |-> 0, reply |-> NoReply]

TypeOK ==
  /\ phase \in {"warmup", "run"} /\ at \in Calls
  /\ host \in 1 .. NumHosts + 1 /\ intervals \in 0 .. MaxIntervals
  /\ asked \in 0 .. NumTags /\ lastTag \in Tags
  /\ remoteCpuSocket \in [Hosts -> {0} \cup Numbers]
  /\ closed \in {0} \cup Descriptors /\ faults \in 0 .. MaxFaults
  /\ owner \in [Numbers -> {Free, Load} \cup Hosts] /\ owner[Invalid] = Free
  /\ toServer \in [Hosts -> Seq(Tags)] /\ toClient \in [Hosts -> Seq(Reply)]
  /\ serverUp \in [Hosts -> BOOLEAN]
  /\ got \in [host : 1 .. NumHosts + 1, command : 0 .. NumTags, reply : Reply]
  /\ connectFailed \in BOOLEAN /\ torn \in BOOLEAN /\ stray \subseteq Hosts

Init ==
  /\ phase \in Phases /\ at = "start" /\ host = 1
  /\ intervals = MaxIntervals /\ asked = 0
  /\ remoteCpuSocket = [h \in Hosts |-> 0]
  /\ owner = [f \in Numbers |-> Free] /\ closed = 0 /\ faults = MaxFaults
  /\ toServer = [h \in Hosts |-> <<>>] /\ toClient = [h \in Hosts |-> <<>>]
  /\ serverUp = [h \in Hosts |-> FALSE]
  /\ lastTag = NumTags /\ got = NoValue
  /\ connectFailed = FALSE /\ torn = FALSE /\ stray = {}

Fault(kind) == kind \in Faults /\ faults > 0 /\ faults' = faults - 1

-----------------------------------------------------------------------------
(***************************************************************************)
(* The sockets of the I/O threads, which run from before RecordStart until *)
(* they are joined before EndReporting.                                    *)
(***************************************************************************)
Unused == {f \in Descriptors : owner[f] = Free}

\* Main keeps the number of a host whose descriptor is closed.
Strays(f) == {owner[f]} \cap Hosts

\* socket() takes the lowest number, if there is one left.
OpenLoadSocket ==
  /\ at \notin {"end", "done"}
  /\ Unused # {}
  /\ owner' = [owner EXCEPT ![Min(Unused)] = Load]
  /\ UNCHANGED <<mainVars, network, closed, faults>>

\* Socket::connect closes the descriptor and keeps its number, and the destructor
\* closes that again: by then it may be someone else's.  Bound: one at a time.
LoadConnectFails ==
  /\ Fault("load")
  /\ at \notin {"end", "done"}
  /\ closed = 0 /\ Unused # {}
  /\ closed' = Min(Unused)
  /\ connectFailed' = TRUE
  /\ UNCHANGED <<progress, host, asked, remoteCpuSocket, lastTag, got, torn, stray, network,
                 owner>>

CloseAgain ==
  /\ closed # 0
  /\ owner' = [owner EXCEPT ![closed] = Free]
  /\ stray' = stray \cup Strays(closed)
  /\ closed' = 0
  /\ UNCHANGED <<progress, host, asked, remoteCpuSocket, lastTag, got, connectFailed, torn,
                 network, faults>>

CloseLoadSocket(f) ==
  /\ owner[f] = Load
  /\ owner' = [owner EXCEPT ![f] = Free]
  /\ UNCHANGED <<mainVars, network, closed, faults>>

-----------------------------------------------------------------------------
(***************************************************************************)
(* One host of one call of main.                                           *)
(***************************************************************************)
Turn(calls) == at \in calls /\ host \in Hosts

\* Without a name or an address there is nothing to close.
ConnectLookupFails ==
  /\ Fault("lookup")
  /\ Turn({"start"}) /\ remoteCpuSocket[host] = 0
  /\ host' = host + 1
  /\ UNCHANGED <<progress, asked, remoteCpuSocket, history, network, owner, closed>>

Connect ==
  /\ Turn({"start"}) /\ remoteCpuSocket[host] = 0 /\ Unused # {}
  /\ remoteCpuSocket' = [remoteCpuSocket EXCEPT ![host] = Min(Unused)]
  /\ owner' = [owner EXCEPT ![Min(Unused)] = host]
  /\ toServer' = [toServer EXCEPT ![host] = <<>>]
  /\ toClient' = [toClient EXCEPT ![host] = <<>>]
  /\ serverUp' = [serverUp EXCEPT ![host] = TRUE]
  /\ host' = host + 1
  /\ UNCHANGED <<progress, asked, history, closed, faults>>

\* The I/O threads have taken all descriptors, and the number kept is -1.  (The
\* assertion after socket() is not in the builds of BUILDING.md.)
SocketFails ==
  /\ Turn({"start"}) /\ remoteCpuSocket[host] = 0 /\ Unused = {}
  /\ remoteCpuSocket' = [remoteCpuSocket EXCEPT ![host] = Invalid]
  /\ host' = host + 1
  /\ UNCHANGED <<progress, asked, history, network, owner, closed, faults>>

\* The descriptor is closed and its number kept.
ConnectFails ==
  /\ Fault("connect")
  /\ Turn({"start"}) /\ remoteCpuSocket[host] = 0 /\ Unused # {}
  /\ remoteCpuSocket' = [remoteCpuSocket EXCEPT ![host] = Min(Unused)]
  /\ connectFailed' = TRUE /\ stray' = stray \cup {host}
  /\ host' = host + 1
  /\ UNCHANGED <<progress, asked, lastTag, got, torn, network, owner, closed>>

\* A host that is not connected is left out.
NotConnected ==
  /\ Turn(Asking) /\ remoteCpuSocket[host] = 0
  /\ host' = host + 1
  /\ UNCHANGED <<progress, asked, remoteCpuSocket, history, network, owner, closed, faults>>

fd == remoteCpuSocket[host]
NextTag == (lastTag % NumTags) + 1

\* Mutant: the number is kept after the descriptor is closed.
failure_KeepsNumber ==
  /\ owner' = [owner EXCEPT ![fd] = Free]
  /\ stray' = (stray \cup Strays(fd)) \ {host}
  /\ asked' = 0 /\ host' = host + 1
  /\ UNCHANGED remoteCpuSocket

\* getRemoteStat's failure: whatever the descriptor is by now, it is closed.
failure ==
  /\ owner' = [owner EXCEPT ![fd] = Free]
  /\ remoteCpuSocket' = [remoteCpuSocket EXCEPT ![host] = 0]
  /\ stray' = (stray \cup Strays(fd)) \ {host}
  /\ asked' = 0 /\ host' = host + 1

\* Mutant: a connection that is there already is not to be asked, only told.
WriteCommand_NoReplyAtStart ==
  /\ Turn({"start"} \cup Asking) /\ fd # 0 /\ asked = 0
  /\ owner[fd] # Free
  /\ toServer' = IF owner[fd] \in Hosts
                 THEN [toServer EXCEPT ![owner[fd]] = Append(@, NextTag)] ELSE toServer
  /\ lastTag' = NextTag /\ got' = NoValue
  /\ IF at = "start" THEN host' = host + 1 /\ UNCHANGED asked
                     ELSE asked' = NextTag /\ UNCHANGED host
  /\ UNCHANGED <<progress, remoteCpuSocket, connectFailed, torn, stray, toClient,
                 serverUp, owner, closed, faults>>

\* The command goes to whatever the descriptor is open for.
WriteCommand ==
  /\ Turn({"start"} \cup Asking) /\ fd # 0 /\ asked = 0
  /\ owner[fd] # Free
  /\ toServer' = IF owner[fd] \in Hosts
                 THEN [toServer EXCEPT ![owner[fd]] = Append(@, NextTag)] ELSE toServer
  /\ lastTag' = NextTag /\ asked' = NextTag /\ got' = NoValue
  /\ UNCHANGED <<progress, host, remoteCpuSocket, connectFailed, torn, stray, toClient,
                 serverUp, owner, closed, faults>>

\* A closed descriptor, a connection that the server has reset, a full buffer
\* of a socket that does not block.
WriteFails ==
  /\ Turn({"start"} \cup Asking) /\ fd # 0 /\ asked = 0
  /\ owner[fd] \in Hosts => ~serverUp[owner[fd]]
  /\ failure
  /\ UNCHANGED <<progress, lastTag, got, connectFailed, torn, network, closed, faults>>

\* read() blocks until there is something and takes all of it, or a part; the
\* number at its beginning is the value.
ReadReply ==
  /\ asked # 0 /\ owner[fd] \in Hosts
  /\ LET k == owner[fd] IN
       /\ toClient[k] # <<>>
       /\ \/ /\ toClient' = [toClient EXCEPT ![k] = <<>>]
             /\ UNCHANGED <<torn, faults>>
          \/ /\ Len(toClient[k]) > 1 /\ Fault("torn")
             /\ \E n \in 1 .. Len(toClient[k]) - 1 :
                  toClient' = [toClient EXCEPT ![k] = SubSeq(@, n + 1, Len(@))]
             /\ torn' = TRUE
       /\ got' = [host |-> host, command |-> asked, reply |-> Head(toClient[k])]
  /\ asked' = 0 /\ host' = host + 1
  /\ UNCHANGED <<progress, remoteCpuSocket, lastTag, connectFailed, stray, toServer, serverUp,
                 owner, closed>>

\* What an I/O thread was to read is taken for a number.
ReadLoad ==
  /\ asked # 0 /\ owner[fd] = Load
  /\ got' = [host |-> host, command |-> asked, reply |-> NoReply]
  /\ asked' = 0 /\ host' = host + 1
  /\ UNCHANGED <<progress, remoteCpuSocket, lastTag, connectFailed, torn, stray, network,
                 owner, closed, faults>>

\* Mutant: the end of the stream is read again.
ReadFails_NotAtEnd ==
  /\ asked # 0
  /\ owner[fd] \in {Free, Load}
  /\ failure
  /\ UNCHANGED <<progress, lastTag, got, connectFailed, torn, network, closed, faults>>

\* The server has gone, or the descriptor is not a monitoring connection; an
\* I/O thread's socket does not block.  A read that is blocked while another
\* thread closes its descriptor is taken to fail.
ReadFails ==
  /\ asked # 0
  /\ owner[fd] \in Hosts => ~serverUp[owner[fd]] /\ toClient[owner[fd]] = <<>>
  /\ failure
  /\ UNCHANGED <<progress, lastTag, got, connectFailed, torn, network, closed, faults>>

\* EndReporting
CloseMonitor ==
  /\ Turn({"end"})
  /\ owner' = IF fd = 0 THEN owner ELSE [owner EXCEPT ![fd] = Free]
  /\ host' = host + 1
  /\ UNCHANGED <<progress, asked, remoteCpuSocket, history, network, closed, faults>>

-----------------------------------------------------------------------------
(***************************************************************************)
(* The calls of main one after the other.                                  *)
(***************************************************************************)
Go(from, to) ==
  /\ at = from /\ at' = to
  /\ host' = 1
  /\ UNCHANGED <<asked, remoteCpuSocket, history, network, owner, closed, faults>>

Finished(call) == at = call /\ host > NumHosts

NextCall ==
  \/ Finished("start")    /\ Go("start", "wait")    /\ UNCHANGED <<phase, intervals>>
  \/ Finished("interval") /\ Go("interval", "wait") /\ UNCHANGED <<phase, intervals>>
  \/ intervals > 0        /\ Go("wait", "interval") /\ intervals' = intervals - 1
                          /\ UNCHANGED phase
  \/ phase = "warmup"     /\ Go("wait", "start")    /\ phase' = "run" /\ UNCHANGED intervals
  \/ phase = "run"        /\ Go("wait", "sample")   /\ UNCHANGED <<phase, intervals>>
  \/ Finished("sample")   /\ Go("sample", "memory") /\ UNCHANGED <<phase, intervals>>
  \/ Finished("memory")   /\ Go("memory", "end")    /\ UNCHANGED <<phase, intervals>>
  \/ Finished("end")      /\ Go("end", "done")      /\ UNCHANGED <<phase, intervals>>

-----------------------------------------------------------------------------
(***************************************************************************)
(* apibmon: one thread for each connection.                                *)
(***************************************************************************)
\* socketLoop: the next command, and processCommand's answer.
processCommand(h) ==
  /\ serverUp[h] /\ toServer[h] # <<>>
  /\ toServer' = [toServer EXCEPT ![h] = Tail(@)]
  /\ toClient' = [toClient EXCEPT ![h] =
       @ \o <<[from |-> h, command |-> Head(toServer[h]), part |-> "head"],
              [from |-> h, command |-> Head(toServer[h]), part |-> "tail"]>>]
  /\ UNCHANGED <<mainVars, serverUp, owner, closed, faults>>

\* The connection or its host goes away, or main has closed it.
socketLoopEnds(h) ==
  /\ serverUp[h]
  /\ \/ Fault("server")
     \/ (\A f \in Descriptors : owner[f] # h) /\ UNCHANGED faults
  /\ serverUp' = [serverUp EXCEPT ![h] = FALSE]
  /\ toServer' = [toServer EXCEPT ![h] = <<>>]
  /\ UNCHANGED <<mainVars, toClient, owner, closed>>

-----------------------------------------------------------------------------
MainNext ==
  \/ ConnectLookupFails
  \/ Connect
  \/ SocketFails
  \/ ConnectFails
  \/ NotConnected
  \/ WriteCommand
  \/ WriteFails
  \/ ReadReply
  \/ ReadLoad
  \/ ReadFails
  \/ CloseMonitor
  \/ NextCall

Terminated == at = "done" /\ UNCHANGED vars

Next ==
  \/ MainNext
  \/ OpenLoadSocket
  \/ LoadConnectFails
  \/ CloseAgain
  \/ \E f \in Descriptors : CloseLoadSocket(f)
  \/ \E h \in Hosts : processCommand(h) \/ socketLoopEnds(h)
  \/ Terminated

Spec == Init /\ [][Next]_vars

\* Main is scheduled.  Nothing is assumed of the I/O threads or of the servers: a
\* host may fall silent, and main's read has no timeout.
FairSpec == Spec /\ WF_vars(MainNext)

-----------------------------------------------------------------------------
(***************************************************************************)
(* Properties.                                                             *)
(***************************************************************************)
\* Each number that main keeps is open for its own host, and each socket of a
\* host is kept: none is leaked, none shared, and no command or close of main's
\* reaches a socket of an I/O thread.  The exception is a host that is stray,
\* because its own connect failed, or because the second close of an I/O thread's
\* failed connect, or the close of a number of a stray host, hit its descriptor;
\* the other hosts are not touched, and a host whose number is given up is stray
\* no more.  (And every variable has its type.)
OnlyOwnDescriptors ==
  /\ TypeOK
  /\ at \notin {"end", "done"} =>
       \A h \in Hosts \ stray, f \in Descriptors : remoteCpuSocket[h] = f <=> owner[f] = h

\* Unless a connect has failed or a reply was read in part, each value that
\* getRemoteStat returns is the answer to the command it has just written,
\* through server failures and reconnects.
RepliesAnswerCommands ==
  (~connectFailed /\ ~torn /\ got.command # 0) =>
    got.reply = [from |-> got.host, command |-> got.command, part |-> "head"]

\* Main waits in its read for a host that is connected, has been given a command
\* and says nothing.
HostSilent ==
  /\ asked # 0 /\ owner[fd] \in Hosts
  /\ LET k == owner[fd] IN serverUp[k] /\ toServer[k] # <<>> /\ toClient[k] = <<>>

\* Nothing else than a host that falls silent keeps the run from ending: no lost
\* server, no descriptor taken away during a call, no reply to an earlier command,
\* and main never waits for an answer to a command that no one has.
RunEnds == <>(at = "done") \/ <>[]HostSilent
=============================================================================
