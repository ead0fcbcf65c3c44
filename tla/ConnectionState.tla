--------------------------- MODULE ConnectionState ---------------------------
(***************************************************************************)
(* One connection of the load generator (class ConnectionState of          *)
(* apib_iothread.h): the record of its state and its methods.              *)
(*                                                                         *)
(* libev callbacks run to completion, and a handler calls the next one     *)
(* directly (ReadDone -> recycle -> Close -> CloseDone -> ConnectAndSend), *)
(* so a method is an operator that returns the SET of records the          *)
(* connection may be in once the whole chain of calls has returned; the    *)
(* elements differ in what the environment did (which URL was drawn,       *)
(* whether connect() failed, what SSL_shutdown answered).  The operators   *)
(* take `run`, the value IOThread::shouldKeepRunning() has during the      *)
(* callback.  IOThread.tla turns them into actions.                        *)
(***************************************************************************)
EXTENDS Integers

CONSTANTS
  URLs,          \* URLInfo::urls_, identified with their index
  NoURL,         \* the null url_ of a connection that was never started
  Address,       \* URL -> the address URLInfo::address() gives this thread
  NoAddress,     \* the invalid Address of a host name that did not resolve
  IsSsl,         \* URL -> URLInfo::isSsl()
  RequestLen,    \* URL -> the lengths the rendered request may have
  OAuth,         \* IOThread::oauth is set: every request is rendered anew
  NoKeepAlive,   \* IOThread::noKeepAlive
  ThinkTime,     \* IOThread::thinkTime > 0
  Faults         \* what network and server may do wrong, see FaultKinds

FaultKinds == {"connect", "write", "read", "parse", "eof"}

ASSUME URLAssumption ==
  /\ URLs # {} /\ NoURL \notin URLs
  /\ Address = [u \in URLs |-> Address[u]]
  /\ IsSsl \in [URLs -> BOOLEAN]
  /\ RequestLen = [u \in URLs |-> RequestLen[u]]
  /\ \A u \in URLs : RequestLen[u] # {} /\ RequestLen[u] \subseteq Nat \ {0}

ASSUME SwitchAssumption ==
  /\ OAuth \in BOOLEAN /\ NoKeepAlive \in BOOLEAN /\ ThinkTime \in BOOLEAN
  /\ Faults \subseteq FaultKinds

Addresses == {Address[u] : u \in URLs}

\* Which callback io_ is armed with, and for which readiness.
Watchers   == {"none", "writeReady", "readReady", "completeShutdown"}
Directions == {"read", "write"}
\* http_parser between two reads: nothing of the response seen, inside a
\* response with a known end, inside a body that ends when the server closes.
Parsing    == {"start", "mid", "toEof"}

Connection == [
  url         : URLs \cup {NoURL},
  keepRunning : BOOLEAN,
  needsOpen   : BOOLEAN,
  peer        : Addresses \cup {NoAddress},  \* where socket_ is connected to
  tls         : BOOLEAN,                     \* socket_ is a TLSSocket
  eof         : BOOLEAN,                     \* the server closed its side
  io          : Watchers,
  mask        : Directions,
  backwardsIo : BOOLEAN,
  timer       : BOOLEAN,                     \* thinkTimer_ is active
  writeDirty  : BOOLEAN,
  reqUrl      : URLs \cup {NoURL},           \* whose request fullWrite_ starts with
  reqLen      : Nat,                         \* length of that request
  bufLen      : Nat,                         \* fullWrite_.size()
  pos         : Nat,                         \* fullWritePos_
  readDone    : BOOLEAN,
  parser      : Parsing,
  fed         : BOOLEAN,                     \* parity of the reads of this callback
  \* History: requests begun and not yet counted as a result or an error;
  \* requests begun after STOP and sockets connected after stopRunning(),
  \* capped at LateCap.
  owed        : Int,
  afterStop   : Nat,
  afterShrink : Nat]

LateCap == 2
AddCapped(n, late) == IF late /\ n < LateCap THEN n + 1 ELSE n

\* The constructor and the member initialisers.
NewConnection ==
  [url |-> NoURL, keepRunning |-> TRUE, needsOpen |-> FALSE,
   peer |-> NoAddress, tls |-> FALSE, eof |-> FALSE,
   io |-> "none", mask |-> "read", backwardsIo |-> FALSE, timer |-> FALSE,
   writeDirty |-> TRUE, reqUrl |-> NoURL, reqLen |-> 0, bufLen |-> 0, pos |-> 0,
   readDone |-> FALSE, parser |-> "start", fed |-> FALSE,
   owed |-> 0, afterStop |-> 0, afterShrink |-> 0]

HasSocket(c) == c.peer # NoAddress
IsSameServer(u, v) == Address[u] = Address[v]
stopRunning(c) == [c EXCEPT !.keepRunning = FALSE]

-----------------------------------------------------------------------------
(***************************************************************************)
(* Sending.                                                                *)
(***************************************************************************)
Arm(c, watcher, dir, backwards) ==
  [c EXCEPT !.io = watcher, !.mask = dir, !.backwardsIo = backwards]
StopIo(c) == [c EXCEPT !.io = "none", !.fed = FALSE]
sendAfterDelay(c) == [c EXCEPT !.timer = TRUE]

\* Connect(): the socket that results when it succeeds, and when it can.
CanConnect(c) == Address[c.url] # NoAddress
Connected(c) ==
  [c EXCEPT !.peer = Address[c.url], !.tls = IsSsl[c.url], !.eof = FALSE,
            !.afterShrink = AddCapped(@, ~c.keepRunning)]

\* Reuse the buffer, or render into the rewound stream.  pubseekpos(0) moves
\* the put pointer and truncates nothing, so str() is as long as the longest
\* request this connection ever rendered.
writeRequest(c) ==
  IF ~c.writeDirty /\ ~OAuth
  THEN {[c EXCEPT !.pos = 0]}
  ELSE {[c EXCEPT !.reqUrl = c.url, !.reqLen = n,
                  !.bufLen = IF n > @ THEN n ELSE @,
                  !.pos = 0, !.writeDirty = FALSE] : n \in RequestLen[c.url]}

SendWrite(c, run) ==
  [c EXCEPT
     !.io = "writeReady", !.mask = "write", !.backwardsIo = FALSE,
     !.owed      = @ + 1,
     !.afterStop = AddCapped(@, ~run)]

Send(c, run) == {SendWrite(d, run) : d \in writeRequest(c)}

\* Mutant: a failed connect is reported and not retried.
ConnectAndSend_NoRetry(c, run) ==
  IF ~c.needsOpen
  THEN Send(c, run)
  ELSE (IF CanConnect(c) THEN Send(Connected(c), run) ELSE {})
       \cup {d \in {c} : "connect" \in Faults \/ ~CanConnect(c)}

\* Connect if there is no connection to reuse.  A failure is retried after
\* kConnectFailureDelay with the same url_.
ConnectAndSend(c, run) ==
  IF ~c.needsOpen
  THEN Send(c, run)
  ELSE (IF CanConnect(c) THEN Send(Connected(c), run) ELSE {})
       \cup {d \in {sendAfterDelay(c)} : "connect" \in Faults \/ ~CanConnect(c)}

thinkingDone(c, run) == ConnectAndSend([c EXCEPT !.timer = FALSE], run)

StartConnect(c, run) ==
  UNION {ConnectAndSend([c EXCEPT !.url = u, !.needsOpen = TRUE], run) : u \in URLs}

ThinkThenSend(c, run) ==
  IF ThinkTime THEN {sendAfterDelay(c)} ELSE ConnectAndSend(c, run)

-----------------------------------------------------------------------------
(***************************************************************************)
(* Closing and recycling.                                                  *)
(***************************************************************************)
\* Mutants: only one of the two flags is asked.
CloseDone_IgnoresStop(c, run) == IF c.keepRunning THEN ThinkThenSend(c, run) ELSE {c}
CloseDone_IgnoresShrink(c, run) == IF run THEN ThinkThenSend(c, run) ELSE {c}

CloseDone(c, run) ==
  IF c.keepRunning /\ run THEN ThinkThenSend(c, run) ELSE {c}

ResetSocket(c) == [c EXCEPT !.peer = NoAddress, !.tls = FALSE, !.eof = FALSE]

\* close() of a plain socket completes at once, whatever ::close returns;
\* SSL_shutdown may also ask to wait for either direction.
Close(c, run) ==
  CloseDone(ResetSocket(c), run)
  \cup {d \in {Arm(c, "completeShutdown", "read", FALSE),
               Arm(c, "completeShutdown", "write", TRUE)} : c.tls}

\* Mutant: a connection that is kept alive goes on whatever the thread says.
recycle_IgnoresStop(c, closeConn, run) ==
  IF closeConn \/ NoKeepAlive
  THEN Close([c EXCEPT !.needsOpen = TRUE], run)
  ELSE ThinkThenSend([c EXCEPT !.needsOpen = FALSE], run)

recycle(c, closeConn, run) ==
  IF closeConn \/ NoKeepAlive \/ ~run
  THEN Close([c EXCEPT !.needsOpen = TRUE], run)
  ELSE ThinkThenSend([c EXCEPT !.needsOpen = FALSE], run)

\* The callback returns, and the count of its reads is at an end.
Blocked(c) == [c EXCEPT !.fed = FALSE]

\* Mutant: the watcher is set to the other direction, backwardsIo_ is not.
Switch_KeepsFlag(c, dir, backwards) ==
  IF c.backwardsIo = backwards THEN Blocked(c) ELSE Arm(Blocked(c), c.io, dir, c.backwardsIo)

\* "NEED_x" for the direction the watcher is not armed for: switch it.
Switch(c, dir, backwards) ==
  IF c.backwardsIo = backwards THEN Blocked(c) ELSE Arm(Blocked(c), c.io, dir, backwards)

completeShutdown(c, run) ==
  {Switch(c, "read", FALSE), Switch(c, "write", TRUE)}
  \cup CloseDone(ResetSocket(StopIo(c)), run)

-----------------------------------------------------------------------------
(***************************************************************************)
(* Completions of a request.                                               *)
(***************************************************************************)
\* RecordSocketError and recordResult, as far as this connection is concerned.
Account(c) == [c EXCEPT !.owed = @ - 1]

WriteDone(c, err, run) ==
  IF err
  THEN recycle(Account(c), TRUE, run)
  ELSE {[c EXCEPT !.io = "readReady", !.mask = "read", !.backwardsIo = FALSE,
                  !.readDone = FALSE, !.parser = "start"]}

\* Mutant: only another server makes the request buffer dirty.
NextUrl_SameServerIsClean(c, u) ==
  [c EXCEPT !.url = u, !.writeDirty = @ \/ ~IsSameServer(c.url, u)]

\* The next URL is drawn as soon as the response is complete; a request
\* buffer for another URL is dirty, another server needs a new connection.
NextUrl(c, u) ==
  [c EXCEPT !.url = u, !.writeDirty = @ \/ ~IsSameServer(c.url, u) \/ u # c.url]

\* Mutant: a read error is not counted.
ReadDone_UncountedError(c, err, shouldKeepAlive, run) ==
  IF err THEN recycle(c, TRUE, run)
  ELSE IF ~shouldKeepAlive THEN recycle(Account(c), TRUE, run)
  ELSE UNION {recycle(NextUrl(Account(c), u), ~IsSameServer(c.url, u), run) : u \in URLs}

ReadDone(c, err, shouldKeepAlive, run) ==
  IF err \/ ~shouldKeepAlive
  THEN recycle(Account(c), TRUE, run)
  ELSE UNION {recycle(NextUrl(Account(c), u), ~IsSameServer(c.url, u), run) : u \in URLs}

-----------------------------------------------------------------------------
(***************************************************************************)
(* One iteration of the loops in writeReady and readReady: the resulting   *)
(* connection, and whether the loop goes round again.                      *)
(***************************************************************************)
Again(S)  == {[conn |-> d, more |-> TRUE]  : d \in S}
Return(S) == {[conn |-> d, more |-> FALSE] : d \in S}

\* socket_->write accepts n more bytes.
Wrote(c, n, run) ==
  IF c.pos + n = c.bufLen
  THEN Return(WriteDone(StopIo([c EXCEPT !.pos = @ + n]), FALSE, run))
  ELSE Again({[c EXCEPT !.pos = @ + n]})

singleWrite(c, run) ==
  (UNION {Wrote(c, n, run) : n \in 1 .. (c.bufLen - c.pos)})
  \cup Return({Switch(c, "write", FALSE)})
  \cup Return({d \in {Switch(c, "read", TRUE)} : c.tls})
  \cup (IF "write" \in Faults THEN Return(WriteDone(StopIo(c), TRUE, run)) ELSE {})

\* singleRead returns 1 and readReady goes round again, with nothing but the
\* bytes read to tell the rounds apart.  `fed` stands for them: a loop of reads
\* that never ends is a behaviour and not a stutter.
ReadOn(S) == Again({[d EXCEPT !.fed = ~@] : d \in S})

\* Bytes arrive and the parser is not at the end of the response yet, which
\* may go on as long as the server has something to say.
Parsed(c) ==
  {[c EXCEPT !.parser = p] :
     p \in CASE c.parser = "start" -> {"mid", "toEof"}
             [] c.parser = "mid"   -> {"mid", "toEof"}
             [] c.parser = "toEof" -> {"toEof"}}

\* httpComplete ran: the response is whole.
Complete(c, shouldKeepAlive, run) ==
  ReadDone(StopIo([c EXCEPT !.readDone = TRUE]), FALSE, shouldKeepAlive, run)

ReadFailed(c, run) == ReadDone(StopIo(c), TRUE, FALSE, run)

ReadData(c, run) ==
  ReadOn(Parsed(c))
  \cup (IF c.parser = "toEof" THEN {}
        ELSE Return(UNION {Complete(c, ka, run) : ka \in BOOLEAN}))
  \cup (IF "parse" \in Faults THEN Return(ReadFailed(c, run)) ELSE {})

\* Mutant: the end of a TLS stream is taken for zero bytes of data.
ReadEof_Ignored(c, run) ==
  IF c.tls \/ c.parser = "start" THEN ReadOn({c})
  ELSE IF c.parser = "mid" THEN Return(ReadFailed(c, run))
  ELSE Return(Complete(c, FALSE, run))

\* TLSSocket::read reports FEOF.  Socket::read reports OK with zero bytes, and
\* http_parser_execute, given none, accepts them before the first byte of a
\* response, ends a body that lasts to EOF, and fails everywhere else.
ReadEof(c, run) ==
  IF c.tls
  THEN Return(ReadDone(StopIo(c), ~c.readDone, FALSE, run))
  ELSE CASE c.parser = "start" -> ReadOn({c})
         [] c.parser = "mid"   -> Return(ReadFailed(c, run))
         [] c.parser = "toEof" -> Return(Complete(c, FALSE, run))

singleRead(c, run) ==
  (IF c.eof THEN ReadEof(c, run)
   ELSE ReadData(c, run)
        \cup Return({Switch(c, "read", FALSE)})
        \cup Return({d \in {Switch(c, "write", TRUE)} : c.tls})
        \cup (IF "eof" \in Faults THEN ReadEof([c EXCEPT !.eof = TRUE], run) ELSE {}))
  \cup (IF "read" \in Faults THEN Return(ReadFailed(c, run)) ELSE {})
=============================================================================
