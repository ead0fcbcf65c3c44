--------------------------- MODULE IOThreadProofs ---------------------------
(***************************************************************************)
(* The safety properties of IOThread, for every set of URLs, addresses,    *)
(* request lengths, faults and numbers of connections.                     *)
(*                                                                         *)
(* First each connection by itself.  ConnInv strengthens the properties    *)
(* of a connection to an inductive predicate.  Every handler is proved to  *)
(* establish it once, in the order the handlers call each other, so that   *)
(* the step proofs only cite them.                                         *)
(***************************************************************************)
EXTENDS IOThread, FiniteSetTheorems, SequenceTheorems, TLAPS

\* What holds of a connection whenever no handler is working on it.
ConnInv(c, run) ==
  /\ c \in Connection
  /\ c.url \in URLs
  /\ ~c.writeDirty => c.reqUrl = c.url
  /\ c.io # "none" =>
       /\ ~c.timer
       /\ c.peer # NoAddress
       /\ c.backwardsIo <=> (c.mask # NaturalDirection(c.io))
       /\ c.backwardsIo => c.tls
  /\ InRequest(c) => c.owed = 1 /\ c.reqUrl = c.url /\ c.peer = Address[c.url]
  /\ ~InRequest(c) => c.owed = 0
  /\ c.io = "completeShutdown" => c.tls /\ c.needsOpen
  /\ c.timer =>
       IF c.needsOpen THEN c.peer = NoAddress
       ELSE c.peer = Address[c.url] /\ c.peer # NoAddress
  /\ ~Alive(c) => c.peer = NoAddress /\ (~c.keepRunning \/ ~run)
  /\ c.afterStop <= 1
  /\ run \/ c.timer => c.afterStop = 0

\* What holds of it between two handlers of one callback: nothing is armed.
Resting(c, run) ==
  /\ c \in Connection
  /\ c.url \in URLs
  /\ c.io = "none" /\ ~c.timer
  /\ ~c.writeDirty => c.reqUrl = c.url
  /\ c.owed = 0
  /\ c.afterStop <= 1
  /\ run => c.afterStop = 0

\* It may go on to its next request: a socket to reuse, or none at all.
MaySend(c, run) ==
  /\ Resting(c, run)
  /\ c.afterStop = 0
  /\ IF c.needsOpen THEN c.peer = NoAddress
     ELSE c.peer = Address[c.url] /\ c.peer # NoAddress

-----------------------------------------------------------------------------
LEMMA FieldTypes ==
  ASSUME NEW c \in Connection
  PROVE  /\ c.url \in URLs \cup {NoURL} /\ c.reqUrl \in URLs \cup {NoURL}
         /\ c.peer \in Addresses \cup {NoAddress}
         /\ c.io \in Watchers /\ c.mask \in Directions /\ c.parser \in Parsing
         /\ c.owed \in Int /\ c.owed + 1 \in Int /\ c.owed - 1 \in Int
         /\ c.reqLen \in Nat /\ c.bufLen \in Nat /\ c.pos \in Nat
         /\ c.afterStop \in Nat /\ c.afterShrink \in Nat
         /\ c.timer \in BOOLEAN /\ c.tls \in BOOLEAN /\ c.backwardsIo \in BOOLEAN
         /\ c.needsOpen \in BOOLEAN /\ c.keepRunning \in BOOLEAN
         /\ c.writeDirty \in BOOLEAN /\ c.readDone \in BOOLEAN
BY DEF Connection

LEMMA Literals ==
  /\ "none" \in Watchers /\ "writeReady" \in Watchers
  /\ "readReady" \in Watchers /\ "completeShutdown" \in Watchers
  /\ "read" \in Directions /\ "write" \in Directions
  /\ "start" \in Parsing /\ "mid" \in Parsing /\ "toEof" \in Parsing
BY DEF Watchers, Directions, Parsing

LEMMA AddCappedLemma ==
  ASSUME NEW n \in Nat, NEW late
  PROVE  /\ AddCapped(n, late) \in Nat
         /\ ~late => AddCapped(n, late) = n
         /\ n = 0 => AddCapped(n, late) <= 1
BY DEF AddCapped, LateCap

-----------------------------------------------------------------------------
(***************************************************************************)
(* Sending.                                                                *)
(***************************************************************************)
LEMMA SendWriteLemma ==
  ASSUME NEW run \in BOOLEAN, NEW c,
         Resting(c, run), c.afterStop = 0, c.reqUrl = c.url,
         c.peer = Address[c.url], c.peer # NoAddress
  PROVE  ConnInv(SendWrite(c, run), run)
<1> DEFINE d == SendWrite(c, run)
<1>1. c \in Connection
  BY DEF Resting
<1>2. /\ AddCapped(c.afterStop, ~run) \in Nat
      /\ AddCapped(c.afterStop, ~run) <= 1
      /\ run => AddCapped(c.afterStop, ~run) = 0
  BY <1>1, FieldTypes, AddCappedLemma
<1>3. d \in Connection
  BY <1>1, <1>2, FieldTypes, Literals DEF SendWrite, Connection
<1>4. /\ d.io = "writeReady" /\ d.mask = "write" /\ d.backwardsIo = FALSE
      /\ d.owed = c.owed + 1 /\ d.afterStop = AddCapped(c.afterStop, ~run)
      /\ d.url = c.url /\ d.reqUrl = c.reqUrl /\ d.peer = c.peer /\ d.timer = c.timer
  BY <1>1 DEF SendWrite, Connection
<1> HIDE DEF d
<1>5. ConnInv(d, run)
  BY <1>2, <1>3, <1>4 DEF Resting, ConnInv, InRequest, Alive, NaturalDirection
<1> QED BY <1>5 DEF d

\* Whatever is rendered or reused, the buffer is the request for url.
LEMMA writeRequestLemma ==
  ASSUME NEW run \in BOOLEAN, NEW c, Resting(c, run), NEW d \in writeRequest(c)
  PROVE  /\ Resting(d, run)
         /\ d.url = c.url /\ d.reqUrl = d.url /\ d.peer = c.peer
         /\ d.afterStop = c.afterStop
<1>1. c \in Connection /\ c.url \in URLs
  BY DEF Resting
<1>2. CASE ~c.writeDirty /\ ~OAuth
  <2>1. d = [c EXCEPT !.pos = 0]
    BY <1>2 DEF writeRequest
  <2>2. d \in Connection
    BY <1>1, <2>1 DEF Connection
  <2>3. /\ d.url = c.url /\ d.reqUrl = c.reqUrl /\ d.peer = c.peer /\ d.io = c.io
        /\ d.timer = c.timer /\ d.owed = c.owed /\ d.afterStop = c.afterStop
    BY <1>1, <2>1 DEF Connection
  <2> QED BY <1>2, <2>2, <2>3 DEF Resting
<1>3. CASE ~(~c.writeDirty /\ ~OAuth)
  <2>1. PICK n \in RequestLen[c.url] :
          d = [c EXCEPT !.reqUrl = c.url, !.reqLen = n,
                        !.bufLen = IF n > @ THEN n ELSE @,
                        !.pos = 0, !.writeDirty = FALSE]
    BY <1>3 DEF writeRequest
  <2>2. n \in Nat
    BY <1>1, URLAssumption
  <2>3. d \in Connection
    BY <1>1, <2>1, <2>2 DEF Connection
  <2>4. /\ d.url = c.url /\ d.reqUrl = c.url /\ d.peer = c.peer /\ d.io = c.io
        /\ d.timer = c.timer /\ d.owed = c.owed /\ d.afterStop = c.afterStop
    BY <1>1, <2>1 DEF Connection
  <2> QED BY <2>3, <2>4 DEF Resting
<1> QED BY <1>2, <1>3

LEMMA SendLemma ==
  ASSUME NEW run \in BOOLEAN, NEW c,
         Resting(c, run), c.afterStop = 0,
         c.peer = Address[c.url], c.peer # NoAddress,
         NEW e \in Send(c, run)
  PROVE  ConnInv(e, run)
<1>1. PICK d \in writeRequest(c) : e = SendWrite(d, run)
  BY DEF Send
<1> QED BY <1>1, writeRequestLemma, SendWriteLemma

LEMMA sendAfterDelayLemma ==
  ASSUME NEW run \in BOOLEAN, NEW c, MaySend(c, run)
  PROVE  ConnInv(sendAfterDelay(c), run)
<1> DEFINE d == sendAfterDelay(c)
<1>1. c \in Connection
  BY DEF MaySend, Resting
<1>2. d \in Connection
  BY <1>1 DEF sendAfterDelay, Connection
<1>3. /\ d.timer /\ d.io = c.io /\ d.url = c.url /\ d.reqUrl = c.reqUrl
      /\ d.writeDirty = c.writeDirty /\ d.peer = c.peer /\ d.needsOpen = c.needsOpen
      /\ d.owed = c.owed /\ d.afterStop = c.afterStop
  BY <1>1 DEF sendAfterDelay, Connection
<1> HIDE DEF d
<1>4. ConnInv(d, run)
  BY <1>2, <1>3 DEF MaySend, Resting, ConnInv, InRequest, Alive
<1> QED BY <1>4 DEF d

\* A new request is on its way, or the timer will try again.
LEMMA ConnectAndSendLemma ==
  ASSUME NEW run \in BOOLEAN, NEW c, MaySend(c, run),
         NEW d \in ConnectAndSend(c, run)
  PROVE  ConnInv(d, run)
<1>1. Resting(c, run) /\ c.afterStop = 0 /\ c \in Connection /\ c.url \in URLs
  BY DEF MaySend, Resting
<1>2. CASE ~c.needsOpen
  BY <1>1, <1>2, SendLemma DEF ConnectAndSend, MaySend
<1>3. CASE c.needsOpen /\ CanConnect(c) /\ d \in Send(Connected(c), run)
  <2> DEFINE s == Connected(c)
  <2>1. /\ Address[c.url] \in Addresses /\ IsSsl[c.url] \in BOOLEAN
        /\ AddCapped(c.afterShrink, ~c.keepRunning) \in Nat
    BY <1>1, URLAssumption, FieldTypes, AddCappedLemma DEF Addresses
  <2>2. s \in Connection
    BY <1>1, <2>1 DEF Connected, Connection
  <2>3. /\ s.peer = Address[c.url] /\ s.url = c.url /\ s.reqUrl = c.reqUrl
        /\ s.writeDirty = c.writeDirty /\ s.io = c.io /\ s.timer = c.timer
        /\ s.owed = c.owed /\ s.afterStop = c.afterStop
    BY <1>1 DEF Connected, Connection
  <2> HIDE DEF s
  <2>4. Resting(s, run) /\ s.peer = Address[s.url] /\ s.peer # NoAddress
    BY <1>1, <1>3, <2>2, <2>3 DEF Resting, CanConnect
  <2> QED BY <1>1, <1>3, <2>3, <2>4, SendLemma DEF s
<1>4. CASE d = sendAfterDelay(c)
  BY <1>4, sendAfterDelayLemma
<1> QED BY <1>2, <1>3, <1>4 DEF ConnectAndSend

LEMMA ThinkThenSendLemma ==
  ASSUME NEW run \in BOOLEAN, NEW c, MaySend(c, run),
         NEW d \in ThinkThenSend(c, run)
  PROVE  ConnInv(d, run)
BY sendAfterDelayLemma, ConnectAndSendLemma DEF ThinkThenSend

-----------------------------------------------------------------------------
(***************************************************************************)
(* Closing and recycling.                                                  *)
(***************************************************************************)
LEMMA ResetSocketLemma ==
  ASSUME NEW c \in Connection
  PROVE  LET d == ResetSocket(c) IN
         /\ d \in Connection /\ d.peer = NoAddress
         /\ d.url = c.url /\ d.reqUrl = c.reqUrl /\ d.writeDirty = c.writeDirty
         /\ d.io = c.io /\ d.timer = c.timer /\ d.needsOpen = c.needsOpen
         /\ d.owed = c.owed /\ d.afterStop = c.afterStop
BY DEF ResetSocket, Connection

LEMMA CloseDoneLemma ==
  ASSUME NEW run \in BOOLEAN, NEW c,
         Resting(c, run), c.needsOpen, c.peer = NoAddress,
         NEW d \in CloseDone(c, run)
  PROVE  ConnInv(d, run)
<1>1. CASE c.keepRunning /\ run
  <2>1. MaySend(c, run)
    BY <1>1 DEF MaySend, Resting
  <2> QED BY <1>1, <2>1, ThinkThenSendLemma DEF CloseDone
<1>2. CASE ~(c.keepRunning /\ run)
  <2>1. d = c
    BY <1>2 DEF CloseDone
  <2> QED BY <1>2, <2>1 DEF Resting, ConnInv, InRequest, Alive
<1> QED BY <1>1, <1>2

LEMMA ArmShutdownLemma ==
  ASSUME NEW run \in BOOLEAN, NEW c,
         Resting(c, run), c.needsOpen, c.tls, c.peer # NoAddress,
         NEW dir \in Directions, NEW backwards \in BOOLEAN,
         backwards <=> (dir # "read")
  PROVE  ConnInv(Arm(c, "completeShutdown", dir, backwards), run)
<1> DEFINE d == Arm(c, "completeShutdown", dir, backwards)
<1>1. c \in Connection
  BY DEF Resting
<1>2. d \in Connection
  BY <1>1, Literals DEF Arm, Connection
<1>3. /\ d.io = "completeShutdown" /\ d.mask = dir /\ d.backwardsIo = backwards
      /\ d.url = c.url /\ d.reqUrl = c.reqUrl /\ d.writeDirty = c.writeDirty
      /\ d.peer = c.peer /\ d.tls = c.tls /\ d.needsOpen = c.needsOpen
      /\ d.timer = c.timer /\ d.owed = c.owed /\ d.afterStop = c.afterStop
  BY <1>1 DEF Arm, Connection
<1> HIDE DEF d
<1>4. ConnInv(d, run)
  BY <1>2, <1>3 DEF Resting, ConnInv, InRequest, Alive, NaturalDirection
<1> QED BY <1>4 DEF d

LEMMA CloseLemma ==
  ASSUME NEW run \in BOOLEAN, NEW c,
         Resting(c, run), c.needsOpen, c.peer # NoAddress,
         NEW d \in Close(c, run)
  PROVE  ConnInv(d, run)
<1>1. CASE d \in CloseDone(ResetSocket(c), run)
  <2> DEFINE s == ResetSocket(c)
  <2>1. Resting(s, run) /\ s.needsOpen /\ s.peer = NoAddress
    BY ResetSocketLemma DEF Resting
  <2> QED BY <1>1, <2>1, CloseDoneLemma
<1>2. CASE /\ d \in {Arm(c, "completeShutdown", "read", FALSE),
                     Arm(c, "completeShutdown", "write", TRUE)}
           /\ c.tls
  BY <1>2, ArmShutdownLemma, Literals
<1> QED BY <1>1, <1>2 DEF Close

LEMMA NeedsOpenLemma ==
  ASSUME NEW c \in Connection, NEW open \in BOOLEAN
  PROVE  LET d == [c EXCEPT !.needsOpen = open] IN
         /\ d \in Connection /\ d.needsOpen = open /\ d.peer = c.peer
         /\ d.url = c.url /\ d.reqUrl = c.reqUrl /\ d.writeDirty = c.writeDirty
         /\ d.io = c.io /\ d.timer = c.timer
         /\ d.owed = c.owed /\ d.afterStop = c.afterStop
BY DEF Connection

\* A connection is recycled with a socket, and kept only for the same server.
LEMMA recycleLemma ==
  ASSUME NEW run \in BOOLEAN, NEW c, NEW closeConn \in BOOLEAN,
         Resting(c, run), c.peer # NoAddress,
         closeConn \/ c.peer = Address[c.url],
         NEW d \in recycle(c, closeConn, run)
  PROVE  ConnInv(d, run)
<1>1. c \in Connection
  BY DEF Resting
<1>2. CASE closeConn \/ NoKeepAlive \/ ~run
  <2> DEFINE s == [c EXCEPT !.needsOpen = TRUE]
  <2>1. Resting(s, run) /\ s.needsOpen /\ s.peer # NoAddress
    BY <1>1, NeedsOpenLemma DEF Resting
  <2>2. d \in Close(s, run)
    BY <1>2 DEF recycle
  <2> QED BY <2>1, <2>2, CloseLemma
<1>3. CASE ~(closeConn \/ NoKeepAlive \/ ~run)
  <2> DEFINE s == [c EXCEPT !.needsOpen = FALSE]
  <2>1. /\ Resting(s, run) /\ ~s.needsOpen /\ s.afterStop = 0
        /\ s.peer = c.peer /\ s.url = c.url
    BY <1>1, <1>3, NeedsOpenLemma DEF Resting
  <2>2. MaySend(s, run)
    BY <1>3, <2>1 DEF MaySend
  <2>3. d \in ThinkThenSend(s, run)
    BY <1>3 DEF recycle
  <2> QED BY <2>2, <2>3, ThinkThenSendLemma
<1> QED BY <1>2, <1>3

-----------------------------------------------------------------------------
(***************************************************************************)
(* Completions.  A connection whose request has just ended.                *)
(***************************************************************************)
Served(c, run) ==
  /\ c \in Connection
  /\ c.url \in URLs
  /\ c.io = "none" /\ ~c.timer
  /\ ~c.writeDirty => c.reqUrl = c.url
  /\ c.owed = 1
  /\ c.peer = Address[c.url] /\ c.peer # NoAddress
  /\ c.afterStop <= 1
  /\ run => c.afterStop = 0

LEMMA AccountLemma ==
  ASSUME NEW run \in BOOLEAN, NEW c, Served(c, run)
  PROVE  LET d == Account(c) IN
         Resting(d, run) /\ d.url = c.url /\ d.peer = c.peer
<1> DEFINE d == Account(c)
<1>1. c \in Connection
  BY DEF Served
<1>2. d \in Connection
  BY <1>1, FieldTypes DEF Account, Connection
<1>3. /\ d.owed = c.owed - 1
      /\ d.url = c.url /\ d.reqUrl = c.reqUrl /\ d.writeDirty = c.writeDirty
      /\ d.peer = c.peer /\ d.io = c.io /\ d.timer = c.timer
      /\ d.afterStop = c.afterStop
  BY <1>1 DEF Account, Connection
<1> HIDE DEF d
<1>4. Resting(d, run) /\ d.url = c.url /\ d.peer = c.peer
  BY <1>2, <1>3 DEF Served, Resting
<1> QED BY <1>4 DEF d

LEMMA FailedLemma ==
  ASSUME NEW run \in BOOLEAN, NEW c, Served(c, run),
         NEW d \in recycle(Account(c), TRUE, run)
  PROVE  ConnInv(d, run)
BY AccountLemma, recycleLemma DEF Served

LEMMA ReadDoneLemma ==
  ASSUME NEW run \in BOOLEAN, NEW c, NEW err \in BOOLEAN, NEW keepAlive \in BOOLEAN,
         Served(c, run), NEW d \in ReadDone(c, err, keepAlive, run)
  PROVE  ConnInv(d, run)
<1>1. CASE err \/ ~keepAlive
  BY <1>1, FailedLemma DEF ReadDone
<1>2. CASE ~(err \/ ~keepAlive)
  <2> DEFINE a == Account(c)
  <2>1. PICK u \in URLs : d \in recycle(NextUrl(a, u), ~IsSameServer(c.url, u), run)
    BY <1>2 DEF ReadDone
  <2>2. Resting(a, run) /\ a.url = c.url /\ a.peer = c.peer
    BY AccountLemma
  <2> HIDE DEF a
  <2> DEFINE n == NextUrl(a, u)
  <2>3. a \in Connection
    BY <2>2 DEF Resting
  <2>4. (a.writeDirty \/ ~IsSameServer(a.url, u) \/ u # a.url) \in BOOLEAN
    OBVIOUS
  <2>5. n \in Connection
    BY <2>3, <2>4 DEF NextUrl, Connection
  <2>6. /\ n.url = u
        /\ n.writeDirty <=> (a.writeDirty \/ ~IsSameServer(a.url, u) \/ u # a.url)
        /\ n.reqUrl = a.reqUrl /\ n.peer = a.peer /\ n.io = a.io /\ n.timer = a.timer
        /\ n.owed = a.owed /\ n.afterStop = a.afterStop
    BY <2>3 DEF NextUrl, Connection
  <2> HIDE DEF n
  <2>7. Resting(n, run)
    BY <2>2, <2>5, <2>6 DEF Resting
  <2>8. ~IsSameServer(c.url, u) \/ n.peer = Address[n.url]
    BY <2>2, <2>6 DEF Served, IsSameServer
  <2>9. n.peer # NoAddress
    BY <2>2, <2>6 DEF Served
  <2> QED BY <2>1, <2>7, <2>8, <2>9, recycleLemma DEF n
<1> QED BY <1>1, <1>2

LEMMA WriteDoneLemma ==
  ASSUME NEW run \in BOOLEAN, NEW c, NEW err \in BOOLEAN,
         Served(c, run), c.reqUrl = c.url, NEW d \in WriteDone(c, err, run)
  PROVE  ConnInv(d, run)
<1>1. CASE err
  BY <1>1, FailedLemma DEF WriteDone
<1>2. CASE ~err
  <2>1. d = [c EXCEPT !.io = "readReady", !.mask = "read", !.backwardsIo = FALSE,
                      !.readDone = FALSE, !.parser = "start"]
    BY <1>2 DEF WriteDone
  <2>2. c \in Connection
    BY DEF Served
  <2>3. d \in Connection
    BY <2>1, <2>2, Literals DEF Connection
  <2>4. /\ d.io = "readReady" /\ d.mask = "read" /\ d.backwardsIo = FALSE
        /\ d.url = c.url /\ d.reqUrl = c.reqUrl /\ d.writeDirty = c.writeDirty
        /\ d.peer = c.peer /\ d.timer = c.timer /\ d.owed = c.owed
        /\ d.afterStop = c.afterStop
    BY <2>1, <2>2 DEF Connection
  <2> QED BY <2>3, <2>4 DEF Served, ConnInv, InRequest, Alive, NaturalDirection
<1> QED BY <1>1, <1>2

-----------------------------------------------------------------------------
(***************************************************************************)
(* The callbacks.                                                          *)
(***************************************************************************)
LEMMA SwitchLemma ==
  ASSUME NEW run \in BOOLEAN, NEW c, ConnInv(c, run), c.io # "none",
         NEW dir \in Directions, NEW backwards \in BOOLEAN,
         backwards <=> (dir # NaturalDirection(c.io)), backwards => c.tls
  PROVE  ConnInv(Switch(c, dir, backwards), run)
<1> DEFINE b == Blocked(c)
<1>1. c \in Connection
  BY DEF ConnInv
<1>2. /\ b.io = c.io /\ b.mask = c.mask /\ b.backwardsIo = c.backwardsIo
      /\ b.url = c.url /\ b.reqUrl = c.reqUrl /\ b.writeDirty = c.writeDirty
      /\ b.peer = c.peer /\ b.tls = c.tls /\ b.needsOpen = c.needsOpen
      /\ b.timer = c.timer /\ b.owed = c.owed /\ b.afterStop = c.afterStop
  BY <1>1 DEF Blocked, Connection
<1>3. b \in Connection
  BY <1>1 DEF Blocked, Connection
<1> HIDE DEF b
<1>4. CASE c.backwardsIo = backwards
  <2>1. ConnInv(b, run)
    BY <1>2, <1>3 DEF ConnInv, InRequest, Alive
  <2>2. Switch(c, dir, backwards) = b
    BY <1>4, Zenon DEF Switch, b
  <2> QED BY <2>1, <2>2
<1>5. CASE c.backwardsIo # backwards
  <2> DEFINE d == Arm(b, c.io, dir, backwards)
  <2>2. d \in Connection
    <3>1. c.io \in Watchers
      BY <1>1, FieldTypes
    <3> QED BY <1>3, <3>1 DEF Arm, Connection
  <2>3. /\ d.io = c.io /\ d.mask = dir /\ d.backwardsIo = backwards
        /\ d.url = c.url /\ d.reqUrl = c.reqUrl /\ d.writeDirty = c.writeDirty
        /\ d.peer = c.peer /\ d.tls = c.tls /\ d.needsOpen = c.needsOpen
        /\ d.timer = c.timer /\ d.owed = c.owed /\ d.afterStop = c.afterStop
    BY <1>2, <1>3 DEF Arm, Connection
  <2> HIDE DEF d
  <2>4. ConnInv(d, run)
    BY <2>2, <2>3 DEF ConnInv, InRequest, Alive
  <2>5. Switch(c, dir, backwards) = d
    BY <1>5, Zenon DEF Switch, d, b
  <2> QED BY <2>4, <2>5
<1> QED BY <1>4, <1>5

\* ev_io_stop ends a request, whatever else the callback noted before.
LEMMA StopIoLemma ==
  ASSUME NEW run \in BOOLEAN, NEW c, ConnInv(c, run), InRequest(c)
  PROVE  Served(StopIo(c), run) /\ StopIo(c).reqUrl = StopIo(c).url
<1> DEFINE d == StopIo(c)
<1>1. c \in Connection
  BY DEF ConnInv
<1>2. d \in Connection
  BY <1>1, Literals DEF StopIo, Connection
<1>3. /\ d.io = "none"
      /\ d.url = c.url /\ d.reqUrl = c.reqUrl /\ d.writeDirty = c.writeDirty
      /\ d.peer = c.peer /\ d.timer = c.timer /\ d.owed = c.owed
      /\ d.afterStop = c.afterStop
  BY <1>1 DEF StopIo, Connection
<1> HIDE DEF d
<1>4. Served(d, run) /\ d.reqUrl = d.url
  BY <1>2, <1>3 DEF ConnInv, InRequest, Served
<1> QED BY <1>4 DEF d

\* Numbers add up to numbers.
LEMMA SumInNat == \A a, b \in Nat : a + b \in Nat
OBVIOUS

\* Fields that ConnInv does not speak of.
LEMMA ProgressLemma ==
  ASSUME NEW run \in BOOLEAN, NEW c, ConnInv(c, run), InRequest(c),
         NEW d, \/ \E n \in Nat : d = [c EXCEPT !.pos = @ + n]
                \/ \E p \in Parsing : d = [c EXCEPT !.parser = p, !.fed = ~c.fed]
                \/ d = [c EXCEPT !.fed = ~c.fed]
                \/ d = [c EXCEPT !.readDone = TRUE]
                \/ d = [c EXCEPT !.eof = TRUE]
  PROVE  ConnInv(d, run) /\ InRequest(d) /\ d.io = c.io /\ d.tls = c.tls
<1>1. c \in Connection
  BY DEF ConnInv
<1>2. d \in Connection
  <2>1. ASSUME NEW n \in Nat, d = [c EXCEPT !.pos = @ + n]
        PROVE  d \in Connection
    <3>2. c.pos \in Nat
      BY <1>1, FieldTypes
    <3>1. c.pos + n \in Nat
      BY <3>2, SumInNat
    <3> QED BY <1>1, <2>1, <3>1 DEF Connection
  <2>2. ASSUME NEW p \in Parsing, d = [c EXCEPT !.parser = p, !.fed = ~c.fed]
        PROVE  d \in Connection
    BY <1>1, <2>2 DEF Connection
  <2>5. CASE d = [c EXCEPT !.fed = ~c.fed]
    BY <1>1, <2>5 DEF Connection
  <2>3. CASE d = [c EXCEPT !.readDone = TRUE]
    BY <1>1, <2>3 DEF Connection
  <2>4. CASE d = [c EXCEPT !.eof = TRUE]
    BY <1>1, <2>4 DEF Connection
  <2> QED BY <2>1, <2>2, <2>3, <2>4, <2>5
<1>3. /\ d.io = c.io /\ d.mask = c.mask /\ d.backwardsIo = c.backwardsIo
      /\ d.url = c.url /\ d.reqUrl = c.reqUrl /\ d.writeDirty = c.writeDirty
      /\ d.peer = c.peer /\ d.tls = c.tls /\ d.needsOpen = c.needsOpen
      /\ d.timer = c.timer /\ d.owed = c.owed /\ d.afterStop = c.afterStop
  BY <1>1 DEF Connection
<1> QED BY <1>2, <1>3 DEF ConnInv, InRequest, Alive

\* The two ways an iteration ends.
LEMMA ReturnLemma ==
  ASSUME NEW S, NEW r \in Return(S)
  PROVE  r.conn \in S
BY DEF Return

LEMMA AgainLemma ==
  ASSUME NEW S, NEW r \in Again(S)
  PROVE  r.conn \in S
BY DEF Again

\* A read that leaves readReady in its loop: what it may change.
LEMMA ReadOnLemma ==
  ASSUME NEW c \in Connection
  PROVE  /\ \A r \in ReadOn({c}) : r.conn = [c EXCEPT !.fed = ~c.fed]
         /\ \A r \in ReadOn(Parsed(c)) :
              \E p \in Parsing : r.conn = [c EXCEPT !.parser = p, !.fed = ~c.fed]
<1>2. ASSUME NEW r \in ReadOn({c})
      PROVE  r.conn = [c EXCEPT !.fed = ~c.fed]
  <2>1. r.conn \in {[d EXCEPT !.fed = ~@] : d \in {c}}
    BY <1>2, AgainLemma DEF ReadOn
  <2> QED BY <2>1
<1>3. ASSUME NEW r \in ReadOn(Parsed(c))
      PROVE  \E p \in Parsing : r.conn = [c EXCEPT !.parser = p, !.fed = ~c.fed]
  <2>1. c.parser \in Parsing
    BY FieldTypes
  <2>2. PICK d \in Parsed(c) : r.conn = [d EXCEPT !.fed = ~@]
    <3>1. r.conn \in {[d EXCEPT !.fed = ~@] : d \in Parsed(c)}
      BY <1>3, AgainLemma DEF ReadOn
    <3> QED BY <3>1
  <2>3. PICK p \in Parsing : d = [c EXCEPT !.parser = p]
    BY <2>1, <2>2 DEF Parsed, Parsing
  <2>4. r.conn = [c EXCEPT !.parser = p, !.fed = ~c.fed]
    BY <2>2, <2>3 DEF Connection
  <2> QED BY <2>4
<1> QED BY <1>2, <1>3

LEMMA singleWriteLemma ==
  ASSUME NEW run \in BOOLEAN, NEW c, ConnInv(c, run), c.io = "writeReady",
         NEW r \in singleWrite(c, run)
  PROVE  ConnInv(r.conn, run)
<1>1. InRequest(c) /\ c \in Connection
  BY DEF InRequest, ConnInv
<1>2. ASSUME NEW n \in 1 .. (c.bufLen - c.pos), r \in Wrote(c, n, run)
      PROVE  ConnInv(r.conn, run)
  <2> DEFINE d == [c EXCEPT !.pos = @ + n]
  <2>1. n \in Nat
    <3>1. c.bufLen \in Nat /\ c.pos \in Nat
      BY <1>1, FieldTypes
    <3>2. n \in Int /\ n >= 1
      BY <3>1
    <3> QED BY <3>2
  <2>2. ConnInv(d, run) /\ InRequest(d)
    BY <1>1, <2>1, ProgressLemma
  <2> HIDE DEF d
  <2>3. CASE c.pos + n = c.bufLen
    <3>1. r.conn \in WriteDone(StopIo(d), FALSE, run)
      BY <1>2, <2>3, ReturnLemma DEF Wrote, d
    <3> QED BY <2>2, <3>1, StopIoLemma, WriteDoneLemma
  <2>4. CASE c.pos + n # c.bufLen
    <3>1. r.conn = d
      BY <1>2, <2>4, AgainLemma DEF Wrote, d
    <3> QED BY <2>2, <3>1
  <2> QED BY <2>3, <2>4
<1>3. CASE r \in Return({Switch(c, "write", FALSE)})
  <2>1. r.conn = Switch(c, "write", FALSE)
    BY <1>3, ReturnLemma
  <2> QED BY <2>1, SwitchLemma, Literals DEF NaturalDirection
<1>4. CASE r \in Return({d \in {Switch(c, "read", TRUE)} : c.tls})
  <2>1. r.conn = Switch(c, "read", TRUE) /\ c.tls
    BY <1>4, ReturnLemma
  <2> QED BY <2>1, SwitchLemma, Literals DEF NaturalDirection
<1>5. CASE r \in Return(WriteDone(StopIo(c), TRUE, run))
  <2>1. r.conn \in WriteDone(StopIo(c), TRUE, run)
    BY <1>5, ReturnLemma
  <2> QED BY <1>1, <2>1, StopIoLemma, WriteDoneLemma
<1>6. CASE r \in UNION {Wrote(c, n, run) : n \in 1 .. (c.bufLen - c.pos)}
  BY <1>2, <1>6
<1> QED BY <1>3, <1>4, <1>5, <1>6 DEF singleWrite

LEMMA ReadFailedLemma ==
  ASSUME NEW run \in BOOLEAN, NEW c, ConnInv(c, run), InRequest(c),
         NEW d \in ReadFailed(c, run)
  PROVE  ConnInv(d, run)
BY StopIoLemma, ReadDoneLemma DEF ReadFailed

LEMMA CompleteLemma ==
  ASSUME NEW run \in BOOLEAN, NEW c, ConnInv(c, run), InRequest(c),
         NEW keepAlive \in BOOLEAN, NEW d \in Complete(c, keepAlive, run)
  PROVE  ConnInv(d, run)
<1> DEFINE e == [c EXCEPT !.readDone = TRUE]
<1>1. ConnInv(e, run) /\ InRequest(e)
  BY ProgressLemma
<1>2. d \in ReadDone(StopIo(e), FALSE, keepAlive, run)
  BY DEF Complete
<1> HIDE DEF e
<1> QED BY <1>1, <1>2, StopIoLemma, ReadDoneLemma

LEMMA ReadEofLemma ==
  ASSUME NEW run \in BOOLEAN, NEW c, ConnInv(c, run), InRequest(c),
         NEW r \in ReadEof(c, run)
  PROVE  ConnInv(r.conn, run)
<1>1. c \in Connection /\ c.parser \in Parsing
  BY FieldTypes DEF ConnInv
<1>0. (~c.readDone) \in BOOLEAN
  OBVIOUS
<1>2. CASE c.tls
  <2>1. r.conn \in ReadDone(StopIo(c), ~c.readDone, FALSE, run)
    BY <1>2, ReturnLemma DEF ReadEof
  <2> QED BY <1>0, <2>1, StopIoLemma, ReadDoneLemma
<1>3. CASE ~c.tls
  <2>1. \/ r.conn = [c EXCEPT !.fed = ~c.fed]
        \/ r.conn \in ReadFailed(c, run)
        \/ r.conn \in Complete(c, FALSE, run)
    BY <1>1, <1>3, ReturnLemma, ReadOnLemma DEF ReadEof, Parsing
  <2> QED BY <2>1, ReadFailedLemma, CompleteLemma, ProgressLemma
<1> QED BY <1>2, <1>3

LEMMA singleReadLemma ==
  ASSUME NEW run \in BOOLEAN, NEW c, ConnInv(c, run), c.io = "readReady",
         NEW r \in singleRead(c, run)
  PROVE  ConnInv(r.conn, run)
<1>1. InRequest(c) /\ c \in Connection /\ c.parser \in Parsing
  BY FieldTypes DEF InRequest, ConnInv
<1>2. CASE r \in ReadEof(c, run)
  BY <1>1, <1>2, ReadEofLemma
<1>3. CASE r \in ReadEof([c EXCEPT !.eof = TRUE], run)
  BY <1>1, <1>3, ProgressLemma, ReadEofLemma
<1>4. CASE r \in ReadData(c, run)
  <2>1. CASE r \in ReadOn(Parsed(c))
    <3>1. PICK p \in Parsing : r.conn = [c EXCEPT !.parser = p, !.fed = ~c.fed]
      BY <1>1, <2>1, ReadOnLemma
    <3> QED BY <1>1, <3>1, ProgressLemma
  <2>2. CASE r \in Return(UNION {Complete(c, ka, run) : ka \in BOOLEAN})
    <3>1. PICK ka \in BOOLEAN : r.conn \in Complete(c, ka, run)
      BY <2>2, ReturnLemma
    <3> QED BY <1>1, <3>1, CompleteLemma
  <2>3. CASE r \in Return(ReadFailed(c, run))
    BY <1>1, <2>3, ReturnLemma, ReadFailedLemma
  <2> QED BY <1>4, <2>1, <2>2, <2>3 DEF ReadData
<1>5. CASE r \in Return({Switch(c, "read", FALSE)})
  <2>1. r.conn = Switch(c, "read", FALSE)
    BY <1>5, ReturnLemma
  <2> QED BY <2>1, SwitchLemma, Literals DEF NaturalDirection
<1>6. CASE r \in Return({d \in {Switch(c, "write", TRUE)} : c.tls})
  <2>1. r.conn = Switch(c, "write", TRUE) /\ c.tls
    BY <1>6, ReturnLemma
  <2> QED BY <2>1, SwitchLemma, Literals DEF NaturalDirection
<1>7. CASE r \in Return(ReadFailed(c, run))
  BY <1>1, <1>7, ReturnLemma, ReadFailedLemma
<1> QED BY <1>2, <1>3, <1>4, <1>5, <1>6, <1>7 DEF singleRead

LEMMA completeShutdownLemma ==
  ASSUME NEW run \in BOOLEAN, NEW c, ConnInv(c, run), c.io = "completeShutdown",
         NEW d \in completeShutdown(c, run)
  PROVE  ConnInv(d, run)
<1>1. c \in Connection /\ c.tls /\ c.needsOpen
  BY DEF ConnInv
<1>2. CASE d \in {Switch(c, "read", FALSE), Switch(c, "write", TRUE)}
  BY <1>1, <1>2, SwitchLemma, Literals DEF NaturalDirection
<1>3. CASE d \in CloseDone(ResetSocket(StopIo(c)), run)
  <2> DEFINE s == StopIo(c)
  <2>1. s \in Connection
    BY <1>1, Literals DEF StopIo, Connection
  <2>2. /\ s.io = "none"
        /\ s.url = c.url /\ s.reqUrl = c.reqUrl /\ s.writeDirty = c.writeDirty
        /\ s.needsOpen = c.needsOpen /\ s.timer = c.timer /\ s.owed = c.owed
        /\ s.afterStop = c.afterStop
    BY <1>1 DEF StopIo, Connection
  <2> HIDE DEF s
  <2> DEFINE e == ResetSocket(s)
  <2>3. Resting(e, run) /\ e.needsOpen /\ e.peer = NoAddress
    <3>1. /\ c.url \in URLs /\ (~c.writeDirty => c.reqUrl = c.url)
          /\ c.owed = 0 /\ ~c.timer /\ c.afterStop <= 1 /\ (run => c.afterStop = 0)
      BY DEF ConnInv, InRequest
    <3>2. /\ e \in Connection /\ e.peer = NoAddress
          /\ e.url = s.url /\ e.reqUrl = s.reqUrl /\ e.writeDirty = s.writeDirty
          /\ e.io = s.io /\ e.timer = s.timer /\ e.needsOpen = s.needsOpen
          /\ e.owed = s.owed /\ e.afterStop = s.afterStop
      BY <2>1, ResetSocketLemma
    <3> HIDE DEF e
    <3> QED BY <1>1, <2>2, <3>1, <3>2 DEF Resting
  <2>4. d \in CloseDone(e, run)
    BY <1>3 DEF s
  <2> HIDE DEF e
  <2> QED BY <2>3, <2>4, CloseDoneLemma
<1> QED BY <1>2, <1>3 DEF completeShutdown

LEMMA thinkingDoneLemma ==
  ASSUME NEW run \in BOOLEAN, NEW c, ConnInv(c, run), c.timer,
         NEW d \in thinkingDone(c, run)
  PROVE  ConnInv(d, run)
<1> DEFINE s == [c EXCEPT !.timer = FALSE]
<1>1. c \in Connection
  BY DEF ConnInv
<1>2. s \in Connection
  BY <1>1 DEF Connection
<1>3. /\ ~s.timer /\ s.io = c.io
      /\ s.url = c.url /\ s.reqUrl = c.reqUrl /\ s.writeDirty = c.writeDirty
      /\ s.needsOpen = c.needsOpen /\ s.peer = c.peer /\ s.owed = c.owed
      /\ s.afterStop = c.afterStop
  BY <1>1 DEF Connection
<1>4. d \in ConnectAndSend(s, run)
  BY DEF thinkingDone
<1> HIDE DEF s
<1>5. MaySend(s, run)
  BY <1>2, <1>3 DEF ConnInv, InRequest, MaySend, Resting
<1> QED BY <1>4, <1>5, ConnectAndSendLemma

LEMMA StartConnectLemma ==
  ASSUME NEW run \in BOOLEAN, NEW d \in StartConnect(NewConnection, run)
  PROVE  ConnInv(d, run)
<1>1. PICK u \in URLs :
        d \in ConnectAndSend([NewConnection EXCEPT !.url = u, !.needsOpen = TRUE], run)
  BY DEF StartConnect
<1> DEFINE s == [NewConnection EXCEPT !.url = u, !.needsOpen = TRUE]
<1>0. NewConnection \in Connection
  BY Literals DEF NewConnection, Connection
<1>2. s \in Connection
  BY <1>0 DEF Connection
<1>3. /\ s.url = u /\ s.needsOpen /\ s.io = "none" /\ ~s.timer /\ s.writeDirty
      /\ s.owed = 0 /\ s.afterStop = 0 /\ s.peer = NoAddress
  BY DEF NewConnection
<1> HIDE DEF s
<1>4. MaySend(s, run)
  BY <1>2, <1>3 DEF MaySend, Resting
<1> QED BY <1>1, <1>4, ConnectAndSendLemma DEF s

-----------------------------------------------------------------------------
(***************************************************************************)
(* The thread.                                                             *)
(***************************************************************************)
ConnsInv == \A i \in Ids : ConnInv(conns[i], shouldKeepRunning)

\* The inductive invariant: types, every connection at rest between its
\* callbacks, nothing before Start, and a callback under way only in the loop.
Inv ==
  /\ TypeOK
  /\ ConnsInv
  /\ callerAt = "new" => conns = <<>>
  /\ callerAt \in {"joined", "destroyed"} => threadAt = "exited"
  /\ callback # Idle => threadAt = "run"
  /\ threadAt # "none" => callerAt # "new"

\* ConnInv survives the end of the run.
LEMMA StoppedLemma ==
  ASSUME NEW c, NEW run \in BOOLEAN, ConnInv(c, run)
  PROVE  ConnInv(c, FALSE)
BY DEF ConnInv

LEMMA stopRunningLemma ==
  ASSUME NEW c, NEW run \in BOOLEAN, ConnInv(c, run)
  PROVE  ConnInv(stopRunning(c), run)
<1> DEFINE d == stopRunning(c)
<1>1. c \in Connection
  BY DEF ConnInv
<1>2. d \in Connection
  BY <1>1 DEF stopRunning, Connection
<1>3. /\ ~d.keepRunning
      /\ d.io = c.io /\ d.mask = c.mask /\ d.backwardsIo = c.backwardsIo
      /\ d.url = c.url /\ d.reqUrl = c.reqUrl /\ d.writeDirty = c.writeDirty
      /\ d.peer = c.peer /\ d.tls = c.tls /\ d.needsOpen = c.needsOpen
      /\ d.timer = c.timer /\ d.owed = c.owed /\ d.afterStop = c.afterStop
  BY <1>1 DEF stopRunning, Connection
<1> HIDE DEF d
<1>4. ConnInv(d, run)
  BY <1>2, <1>3 DEF ConnInv, InRequest, Alive
<1> QED BY <1>4 DEF d

LEMMA InitInv == Init => Inv
<1> SUFFICES ASSUME Init PROVE Inv
  OBVIOUS
<1>0. budget \in Nat
  BY ThreadAssumption DEF Init
<1>6. JustOnce \in BOOLEAN
  BY ThreadAssumption DEF Init
<1>1. /\ callerAt = "new" /\ requested \in ResizeTargets \cup {NumConnections}
      /\ threadAt = "none" /\ asyncSent \in BOOLEAN /\ callback = Idle
      /\ shutdownTimer \in BOOLEAN /\ loopDone \in BOOLEAN
  BY Zenon DEF Init
<1>5. refs \in Int
  BY DEF Init
<1>4. keepRunning \in {-1, 0, 1}
  BY DEF Init
<1>2. /\ commands = <<>> /\ conns = <<>> /\ connections = <<>>
      /\ Len(conns) <= MaxConnections /\ Ids = {}
  BY ThreadAssumption DEF Init, Ids
<1>3. TypeOK
  BY <1>0, <1>1, <1>2, <1>4, <1>5, <1>6 DEF TypeOK, Idle
<1> QED BY <1>1, <1>2, <1>3 DEF Inv, ConnsInv

LEMMA UpdateLemma ==
  ASSUME Inv, NEW i \in Ids, NEW c,
         conns' = [conns EXCEPT ![i] = c],
         ConnInv(c, shouldKeepRunning), UNCHANGED keepRunning
  PROVE  ConnsInv' /\ conns' \in Seq(Connection) /\ Len(conns') = Len(conns)
<1>1. conns \in Seq(Connection) /\ c \in Connection
  BY DEF Inv, TypeOK, ConnInv
<1>2. conns' \in Seq(Connection) /\ Len(conns') = Len(conns)
  BY <1>1 DEF Ids
<1>3. \A j \in Ids : conns'[j] = IF j = i THEN c ELSE conns[j]
  BY <1>1 DEF Ids
<1> QED BY <1>2, <1>3 DEF Inv, ConnsInv, Ids, shouldKeepRunning

\* A step that leaves the connections and the thread's flag alone.
LEMMA QuietLemma ==
  ASSUME Inv, UNCHANGED <<conns, connections, keepRunning>>
  PROVE  /\ ConnsInv' /\ Ids' = Ids
         /\ conns' \in Seq(Connection) /\ Len(conns') <= MaxConnections
         /\ connections' \in Seq(Ids') /\ keepRunning' \in {-1, 0, 1}
BY DEF Inv, TypeOK, ConnsInv, Ids, shouldKeepRunning

\* New connections go behind the old ones, which stay as they are.
LEMMA AddConnectionsLemma ==
  ASSUME Inv, NEW k \in Nat, AddConnections(k), UNCHANGED keepRunning
  PROVE  /\ ConnsInv' /\ Ids \subseteq Ids'
         /\ conns' \in Seq(Connection) /\ Len(conns') <= MaxConnections
         /\ connections' \in Seq(Ids') /\ refs' \in Int
<1>1. PICK new \in [1 .. k -> StartConnect(NewConnection, shouldKeepRunning)] :
        /\ Len(conns) + k <= MaxConnections
        /\ conns' = conns \o new
        /\ connections' = connections \o [j \in 1 .. k |-> Len(conns) + j]
        /\ refs' = refs + Cardinality({j \in 1 .. k : new[j].io # "none"})
                        + Cardinality({j \in 1 .. k : new[j].timer})
  BY DEF AddConnections
<1>2. shouldKeepRunning \in BOOLEAN /\ shouldKeepRunning' = shouldKeepRunning
  BY DEF shouldKeepRunning
<1>3. \A j \in 1 .. k : ConnInv(new[j], shouldKeepRunning) /\ new[j] \in Connection
  <2>1. TAKE j \in 1 .. k
  <2>2. new[j] \in StartConnect(NewConnection, shouldKeepRunning)
    BY <1>1
  <2>3. ConnInv(new[j], shouldKeepRunning)
    BY <1>2, <2>2, StartConnectLemma
  <2> QED BY <2>3 DEF ConnInv
<1>4. new \in Seq(Connection) /\ Len(new) = k
  BY <1>1, <1>3
<1>5. conns \in Seq(Connection) /\ Len(conns) \in Nat /\ connections \in Seq(Ids)
  BY DEF Inv, TypeOK
<1>6. conns' \in Seq(Connection) /\ Len(conns') = Len(conns) + k
  <2>1. conns' = conns \o new
    BY <1>1
  <2> QED BY <1>4, <1>5, <2>1, ConcatProperties
<1>7. Ids \subseteq Ids'
  BY <1>5, <1>6 DEF Ids
<1>8. ConnsInv'
  <2>1. \A i \in Ids : conns'[i] = conns[i]
    BY <1>1, <1>4, <1>5 DEF Ids
  <2>2. \A i \in Ids' : i \notin Ids =>
          i - Len(conns) \in 1 .. k /\ conns'[i] = new[i - Len(conns)]
    BY <1>1, <1>4, <1>5, <1>6 DEF Ids
  <2>3. \A i \in Ids' : ConnInv(conns'[i], shouldKeepRunning)
    BY <1>3, <2>1, <2>2 DEF Inv, ConnsInv
  <2> QED BY <1>2, <2>3 DEF ConnsInv
<1>9. connections' \in Seq(Ids')
  <2> DEFINE added == [j \in 1 .. k |-> Len(conns) + j]
  <2>1. added \in Seq(Ids')
    BY <1>5, <1>6 DEF Ids
  <2>2. connections \in Seq(Ids')
    BY <1>5, <1>7
  <2> HIDE DEF added
  <2>3. connections \o added \in Seq(Ids')
    BY <2>1, <2>2
  <2> QED BY <1>1, <2>3 DEF added
<1>10. refs' \in Int
  <2>1. /\ Cardinality({j \in 1 .. k : new[j].io # "none"}) \in Nat
        /\ Cardinality({j \in 1 .. k : new[j].timer}) \in Nat
    <3>1. IsFiniteSet(1 .. k)
      BY FS_Interval
    <3>2. /\ IsFiniteSet({j \in 1 .. k : new[j].io # "none"})
          /\ IsFiniteSet({j \in 1 .. k : new[j].timer})
      BY <3>1, FS_Subset
    <3> QED BY <3>2, FS_CardinalityType
  <2> QED BY <1>1, <2>1 DEF Inv, TypeOK
<1> QED BY <1>1, <1>6, <1>7, <1>8, <1>9, <1>10

\* Those taken away are told to stop, the others stay as they are.
LEMMA ShrinkLemma ==
  ASSUME Inv, NEW n \in Nat, Shrink(n), UNCHANGED keepRunning
  PROVE  /\ ConnsInv' /\ Ids \subseteq Ids'
         /\ conns' \in Seq(Connection) /\ Len(conns') <= MaxConnections
         /\ connections' \in Seq(Ids') /\ refs' \in Int
<1> DEFINE popped == {connections[k] : k \in n + 1 .. Len(connections)}
<1>1. conns' = [i \in Ids |-> IF i \in popped THEN stopRunning(conns[i]) ELSE conns[i]]
  BY DEF Shrink
<1> HIDE DEF popped
<1>2. shouldKeepRunning \in BOOLEAN /\ shouldKeepRunning' = shouldKeepRunning
  BY DEF shouldKeepRunning
<1>3. \A i \in Ids : ConnInv(conns'[i], shouldKeepRunning) /\ conns'[i] \in Connection
  <2>1. TAKE i \in Ids
  <2>2. ConnInv(conns'[i], shouldKeepRunning)
    BY <1>1, <1>2, stopRunningLemma DEF Inv, ConnsInv
  <2> QED BY <2>2 DEF ConnInv
<1>4. Len(conns) \in Nat /\ Len(conns) <= MaxConnections
  BY DEF Inv, TypeOK
<1>5. conns' \in Seq(Connection) /\ Len(conns') = Len(conns)
  BY <1>1, <1>3, <1>4 DEF Ids
<1>6. Ids' = Ids
  BY <1>5 DEF Ids
<1>7. connections' \in Seq(Ids')
  BY <1>6 DEF Shrink, Inv, TypeOK
<1>8. refs' \in Int
  BY DEF Shrink, Inv, TypeOK
<1> QED BY <1>2, <1>3, <1>4, <1>5, <1>6, <1>7, <1>8 DEF ConnsInv

LEMMA CallerStep ==
  ASSUME Inv, CallerNext
  PROVE  Inv'
<1> USE DEF Inv, TypeOK, callerVars, loopVars
<1>1. CASE Start
  <2>1. conns = <<>> /\ conns' = <<>> /\ Ids' = {} /\ connections' = connections /\ Ids = {}
    BY <1>1 DEF Start, Ids
  <2>2. ConnsInv'
    BY <2>1 DEF ConnsInv
  <2>3. keepRunning' \in {-1, 0, 1}
    BY <1>1 DEF Start
  <2> QED BY <1>1, <2>1, <2>2, <2>3 DEF Start
<1>2. ASSUME NEW n \in ResizeTargets, SetNumConnections(n)
      PROVE  Inv'
  <2>1. [cmd |-> "SET_CONNECTIONS", newNumConnections |-> n] \in Command
    BY DEF Command
  <2>2. commands' \in Seq(Command)
    BY <1>2, <2>1 DEF SetNumConnections
  <2>3. budget' \in Nat
    BY <1>2 DEF SetNumConnections
  <2> QED BY <1>2, <2>2, <2>3, QuietLemma DEF SetNumConnections, MayCommand
<1>3. CASE RequestStop
  <2>1. [cmd |-> "STOP"] \in Command
    BY DEF Command
  <2>2. commands' \in Seq(Command)
    BY <1>3, <2>1 DEF RequestStop
  <2> QED BY <1>3, <2>2, QuietLemma DEF RequestStop, MayCommand
<1>4. CASE ev_async_send
  BY <1>4, QuietLemma DEF ev_async_send
<1>5. CASE Join
  BY <1>5, QuietLemma DEF Join
<1>6. CASE Destroy
  <2>1. conns' = <<>> /\ connections' = <<>> /\ Ids' = {} /\ Len(conns') <= MaxConnections
    BY <1>6, ThreadAssumption DEF Destroy, Ids
  <2>2. ConnsInv'
    BY <2>1 DEF ConnsInv
  <2> QED BY <1>6, <2>1, <2>2 DEF Destroy, Idle
<1> QED BY <1>1, <1>2, <1>3, <1>4, <1>5, <1>6 DEF CallerNext

LEMMA StartupStep ==
  ASSUME Inv, StartupNext
  PROVE  Inv'
<1> USE DEF Inv, TypeOK, callerVars, loopVars
<1>1. CASE CreateLoop
  BY <1>1, QuietLemma DEF CreateLoop
<1>2. CASE StartAsync
  <2>1. refs' \in Int
    BY <1>2 DEF StartAsync
  <2> QED BY <1>2, <2>1, QuietLemma DEF StartAsync
<1>3. CASE StartConnection
  <2>1. ConnsInv' /\ conns' \in Seq(Connection) /\ Len(conns') <= MaxConnections
        /\ connections' \in Seq(Ids') /\ refs' \in Int /\ Ids \subseteq Ids'
    BY <1>3, AddConnectionsLemma DEF StartConnection
  <2> QED BY <1>3, <2>1 DEF StartConnection
<1>4. CASE EnterLoop
  <2>1. refs' \in Int
    BY <1>4 DEF EnterLoop
  <2> QED BY <1>4, <2>1, QuietLemma DEF EnterLoop
<1> QED BY <1>1, <1>2, <1>3, <1>4 DEF StartupNext

LEMMA CommandStep ==
  ASSUME Inv, CommandNext
  PROVE  Inv'
<1> USE DEF Inv, TypeOK, callerVars, loopVars
<1>1. CASE AsyncReady
  BY <1>1, QuietLemma DEF AsyncReady, ProcessingCommands
<1>2. CASE ProcessStop
  <2>1. commands' \in Seq(Command)
    BY <1>2 DEF ProcessStop, Pop
  <2>2. keepRunning' \in {-1, 0, 1} /\ shouldKeepRunning' = FALSE /\ Ids' = Ids
        /\ conns' = conns /\ connections' = connections /\ shutdownTimer' \in BOOLEAN
    BY <1>2 DEF ProcessStop, shouldKeepRunning, Ids
  <2>3. refs' \in Int
    BY <1>2 DEF ProcessStop
  <2>4. ConnsInv'
    <3>1. shouldKeepRunning \in BOOLEAN
      BY DEF shouldKeepRunning
    <3> QED BY <2>2, <3>1, StoppedLemma DEF ConnsInv
  <2> QED BY <1>2, <2>1, <2>2, <2>3, <2>4 DEF ProcessStop
<1>3. CASE ProcessSetConnections
  <2> DEFINE n == Head(commands).newNumConnections
  <2>1. commands' \in Seq(Command)
    BY <1>3 DEF ProcessSetConnections, Pop
  <2>2. n \in Nat
    <3>1. Head(commands) \in Command /\ Head(commands).cmd = "SET_CONNECTIONS"
      BY <1>3 DEF ProcessSetConnections, Pop
    <3> QED BY <3>1, ThreadAssumption DEF Command
  <2>3. setNumConnections(n)
    BY <1>3 DEF ProcessSetConnections
  <2>4. UNCHANGED keepRunning
    BY <1>3 DEF ProcessSetConnections
  <2> HIDE DEF n
  <2>5. ConnsInv' /\ conns' \in Seq(Connection) /\ Len(conns') <= MaxConnections
        /\ connections' \in Seq(Ids') /\ refs' \in Int /\ Ids \subseteq Ids'
    <3>1. CASE Grow(n)
      <4>1. n - Len(connections) \in Nat
        BY <2>2, <3>1 DEF Grow
      <4> QED BY <2>4, <3>1, <4>1, AddConnectionsLemma DEF Grow
    <3>2. CASE Shrink(n)
      BY <2>2, <2>4, <3>2, ShrinkLemma
    <3> QED BY <2>3, <3>1, <3>2 DEF setNumConnections
  <2>6. /\ callback' = callback /\ callback = -1
        /\ UNCHANGED <<JustOnce, callerAt, budget, requested, threadAt, asyncSent, shutdownTimer,
                       loopDone>>
    BY <1>3 DEF ProcessSetConnections, ProcessingCommands
  <2>7. TypeOK'
    BY <2>1, <2>4, <2>5, <2>6
  <2>8. callerAt # "new" /\ threadAt # "exited"
    BY <2>6 DEF Idle
  <2> QED BY <2>5, <2>6, <2>7, <2>8
<1>4. CASE CommandsDone
  BY <1>4, QuietLemma DEF CommandsDone, Idle
<1> QED BY <1>1, <1>2, <1>3, <1>4 DEF CommandNext

\* What one callback, or one iteration of it, makes of its connection.
Outcome(c, d, run) ==
  \/ c.io = "writeReady" /\ \E r \in singleWrite(c, run) : d = r.conn
  \/ c.io = "readReady" /\ \E r \in singleRead(c, run) : d = r.conn
  \/ c.io = "completeShutdown" /\ d \in completeShutdown(c, run)
  \/ c.timer /\ d \in thinkingDone(c, run)

LEMMA OutcomeLemma ==
  ASSUME NEW run \in BOOLEAN, NEW c, ConnInv(c, run), NEW d, Outcome(c, d, run)
  PROVE  ConnInv(d, run)
BY singleWriteLemma, singleReadLemma, completeShutdownLemma, thinkingDoneLemma DEF Outcome

LEMMA CallbackLemma ==
  ASSUME NEW i \in Ids, ConnectionNext(i)
  PROVE  \E c : /\ Outcome(conns[i], c, shouldKeepRunning) /\ Update(i, c)
                /\ threadAt = "run" /\ callback' \in {0, i, callback}
<1> USE DEF Outcome
<1>1. CASE WriteReady(i)
  <2>1. PICK r \in singleWrite(conns[i], shouldKeepRunning) :
          Update(i, r.conn) /\ callback' = IF r.more THEN i ELSE Idle
    BY <1>1 DEF WriteReady
  <2> QED
    BY <1>1, <2>1 DEF WriteReady, InLoopOf, Idle
<1>2. CASE ReadReady(i)
  <2>1. PICK r \in singleRead(conns[i], shouldKeepRunning) :
          Update(i, r.conn) /\ callback' = IF r.more THEN i ELSE Idle
    BY <1>2 DEF ReadReady
  <2> QED
    BY <1>2, <2>1 DEF ReadReady, InLoopOf, Idle
<1>3. CASE CompleteShutdown(i)
  BY <1>3 DEF CompleteShutdown
<1>4. CASE ThinkingDone(i)
  BY <1>4 DEF ThinkingDone
<1> QED
  BY <1>1, <1>2, <1>3, <1>4 DEF ConnectionNext

LEMMA ConnectionStep ==
  ASSUME Inv, NEW i \in Ids, ConnectionNext(i)
  PROVE  Inv'
<1> USE DEF Inv, TypeOK, callerVars, loopVars
<1>1. shouldKeepRunning \in BOOLEAN /\ ConnInv(conns[i], shouldKeepRunning)
  BY DEF shouldKeepRunning, ConnsInv
<1>2. PICK c : /\ Outcome(conns[i], c, shouldKeepRunning) /\ Update(i, c)
               /\ threadAt = "run" /\ callback' \in {0, i, callback}
  BY CallbackLemma
<1>3. ConnInv(c, shouldKeepRunning)
  BY <1>1, <1>2, OutcomeLemma
<1>4. /\ ConnsInv' /\ conns' \in Seq(Connection) /\ Len(conns') = Len(conns)
      /\ Ids' = Ids
  BY <1>2, <1>3, UpdateLemma DEF Update, loopVars, Ids
<1>5. refs' \in Int
  <2>1. Watching(c) \in Int /\ Watching(conns[i]) \in Int
    BY DEF Watching
  <2> QED BY <1>2, <2>1 DEF Update
<1> QED BY <1>2, <1>4, <1>5 DEF Update

LEMMA EndStep ==
  ASSUME Inv, HardShutdown \/ ExitLoop \/ Terminated \/ UNCHANGED vars
  PROVE  Inv'
<1> USE DEF Inv, TypeOK, callerVars, loopVars
<1>1. CASE HardShutdown
  <2>1. refs' \in Int
    BY <1>1 DEF HardShutdown
  <2> QED BY <1>1, <2>1, QuietLemma DEF HardShutdown
<1>2. CASE ExitLoop
  BY <1>2, QuietLemma DEF ExitLoop
<1>3. CASE Terminated \/ UNCHANGED vars
  BY <1>3, QuietLemma DEF Terminated, vars
<1> QED BY <1>1, <1>2, <1>3

\* ConnInv holds of every connection between the steps of the thread, whatever
\* the caller, the server and the timers do.
THEOREM Invariance == Spec => []Inv
<1>1. Inv /\ [Next]_vars => Inv'
  BY CallerStep, StartupStep, CommandStep, ConnectionStep, EndStep DEF Next
<1> QED BY <1>1, InitInv, PTL DEF Spec

-----------------------------------------------------------------------------
(***************************************************************************)
(* What follows from it.                                                   *)
(***************************************************************************)
\* The types of the shared state, of libev's counters and of the connections.
THEOREM TypeCorrect == Spec => []TypeOK
<1>1. Inv => TypeOK
  BY DEF Inv
<1> QED BY <1>1, Invariance, PTL

\* No chain of ReadDone, recycle, Close, CloseDone, ConnectAndSend and their
\* error paths leaves a running connection with nothing to wake it up.
THEOREM NoneStranded == Spec => []NeverStranded
<1>1. Inv => NeverStranded
  <2> SUFFICES ASSUME Inv, NEW i \in Ids
               PROVE  IF Alive(conns[i]) THEN conns[i].io = "none" \/ ~conns[i].timer
                      ELSE /\ ~HasSocket(conns[i])
                           /\ ~conns[i].keepRunning \/ keepRunning = 0
    BY DEF NeverStranded
  <2> QED BY DEF Inv, ConnsInv, ConnInv, HasSocket, shouldKeepRunning
<1> QED BY <1>1, Invariance, PTL

\* readReady, writeReady and completeShutdown always find io_ and backwardsIo_
\* in the combination their switching logic relies on.
THEOREM WatchersMatch == Spec => []WatcherMatchesSocket
<1>1. Inv => WatcherMatchesSocket
  BY DEF WatcherMatchesSocket, Inv, ConnsInv, ConnInv, HasSocket
<1> QED BY <1>1, Invariance, PTL

\* writeDirty_, needsOpen_ and IsSameServer together never let the request for
\* one URL go out on behalf of another, or to another URL's server.
THEOREM RequestsMatch == Spec => []RequestMatchesServer
<1>1. Inv => RequestMatchesServer
  BY DEF RequestMatchesServer, Inv, ConnsInv, ConnInv
<1> QED BY <1>1, Invariance, PTL

\* Between them recordResult and RecordSocketError see every request once.
THEOREM EachAccountedOnce == Spec => []AccountedOnce
<1>1. Inv => AccountedOnce
  BY DEF AccountedOnce, Inv, ConnsInv, ConnInv
<1> QED BY <1>1, Invariance, PTL

\* recycle and CloseDone ask shouldKeepRunning before a connection goes on, so
\* only the one request whose timer was already running can follow STOP.
THEOREM AtMostOneLate == Spec => []AtMostOneAfterStop
<1>1. Inv => AtMostOneAfterStop
  BY DEF AtMostOneAfterStop, Inv, ConnsInv, ConnInv
<1> QED BY <1>1, Invariance, PTL

-----------------------------------------------------------------------------
(***************************************************************************)
(* The thread's life: what its caller has asked for, what is in the        *)
(* command queue, and libev's count of references.  Then all connections   *)
(* together: every resize is applied, "-1" means one request for each, a   *)
(* dismissed connection connects once more at most, and the thread         *)
(* implements LoadPool.                                                    *)
(***************************************************************************)
NoStop == \A k \in 1 .. Len(commands) : commands[k].cmd # "STOP"

\* STOP is the last command there is, and until it has been processed nothing of
\* the end of the run has begun.
LifeInv ==
  /\ callerAt = "new" =>
       /\ threadAt = "none" /\ commands = <<>> /\ connections = <<>> /\ refs = 0
       /\ keepRunning = IF JustOnce THEN -1 ELSE 1
  /\ callerAt # "new" => threadAt # "none" /\ keepRunning \in {0, 1}
  /\ JustOnce => commands = <<>> /\ ~shutdownTimer /\ ~loopDone
  /\ JustOnce /\ callerAt # "new" => keepRunning = 0
  /\ ~JustOnce /\ callerAt \in {"ready", "signalResize"} => keepRunning = 1 /\ NoStop
  /\ \A k \in 1 .. Len(commands) : commands[k].cmd = "STOP" => k = Len(commands)
  /\ keepRunning = 0 => commands = <<>>
  /\ keepRunning # 0 => ~shutdownTimer /\ ~loopDone

LEMMA AppendCommand ==
  ASSUME Inv, NEW c \in Command
  PROVE  LET q == Append(commands, c) IN
         /\ Len(q) = Len(commands) + 1 /\ q[Len(q)] = c
         /\ \A k \in 1 .. Len(commands) : k \in 1 .. Len(q) /\ q[k] = commands[k]
         /\ \A k \in 1 .. Len(q) : k # Len(q) => k \in 1 .. Len(commands)
         /\ Len(commands) \in Nat
<1>1. commands \in Seq(Command)
  BY DEF Inv, TypeOK
<1> QED
  BY <1>1

LEMMA PopCommand ==
  ASSUME Inv, Pop
  PROVE  /\ commands' \in Seq(Command) /\ Len(commands) \in Nat /\ Len(commands) > 0
         /\ Len(commands') = Len(commands) - 1
         /\ Head(commands) = commands[1] /\ Head(commands) \in Command
         /\ \A k \in 1 .. Len(commands') :
              k + 1 \in 1 .. Len(commands) /\ commands'[k] = commands[k + 1]
<1>1. commands \in Seq(Command) /\ commands # <<>> /\ commands' = Tail(commands)
  BY DEF Inv, TypeOK, Pop
<1> QED
  BY <1>1

LEMMA LifeInvInit == Init => LifeInv
<1> SUFFICES ASSUME Init PROVE LifeInv
  OBVIOUS
<1>1. JustOnce \in BOOLEAN
  BY ThreadAssumption DEF Init
<1> QED
  BY <1>1 DEF Init, LifeInv

LEMMA LifeInvStep ==
  ASSUME Inv, LifeInv, [Next]_vars
  PROVE  LifeInv'
<1> USE DEF LifeInv, NoStop
<1>0. /\ JustOnce \in BOOLEAN /\ commands \in Seq(Command) /\ Len(commands) \in Nat
      /\ (callback # Idle => threadAt = "run") /\ (threadAt # "none" => callerAt # "new")
  BY DEF Inv, TypeOK
<1>1. CASE Start
  BY <1>0, <1>1 DEF Start
<1>2. ASSUME NEW n \in ResizeTargets, SetNumConnections(n)
      PROVE  LifeInv'
  <2> DEFINE c == [cmd |-> "SET_CONNECTIONS", newNumConnections |-> n]
  <2>1. c \in Command /\ c.cmd # "STOP"
    BY DEF Command
  <2>2. /\ ~JustOnce /\ callerAt = "ready" /\ callerAt' = "signalResize"
        /\ commands' = Append(commands, c)
        /\ UNCHANGED <<JustOnce, loopVars, refs, connections>>
    BY <1>2 DEF SetNumConnections, MayCommand
  <2> HIDE DEF c
  <2>3. \A k \in 1 .. Len(commands') : commands'[k].cmd # "STOP"
    BY <2>1, <2>2, AppendCommand
  <2> QED
    BY <2>2, <2>3 DEF loopVars
<1>3. CASE RequestStop
  <2> DEFINE c == [cmd |-> "STOP"]
  <2>1. c \in Command
    BY DEF Command
  <2>2. /\ ~JustOnce /\ callerAt = "ready" /\ callerAt' = "signalStop"
        /\ commands' = Append(commands, c)
        /\ UNCHANGED <<JustOnce, loopVars, refs, connections>>
    BY <1>3 DEF RequestStop, MayCommand
  <2> HIDE DEF c
  <2>3. \A k \in 1 .. Len(commands') : commands'[k].cmd = "STOP" => k = Len(commands')
    BY <2>1, <2>2, AppendCommand
  <2> QED
    BY <2>2, <2>3 DEF loopVars
<1>4. CASE ev_async_send
  BY <1>4 DEF ev_async_send, loopVars
<1>5. CASE Join \/ Destroy
  BY <1>5 DEF Join, Destroy, loopVars
<1>6. CASE StartupNext
  <2>1. /\ UNCHANGED <<callerVars, keepRunning, shutdownTimer, loopDone, commands>>
        /\ threadAt # "none" /\ threadAt' # "none"
    BY <1>6 DEF StartupNext, CreateLoop, StartAsync, StartConnection, EnterLoop, loopVars
  <2> QED
    BY <1>0, <2>1 DEF callerVars
<1>7. CASE AsyncReady \/ CommandsDone
  BY <1>7 DEF AsyncReady, CommandsDone, callerVars, loopVars
<1>8. CASE ProcessStop
  <2>1. /\ Pop /\ commands[1].cmd = "STOP" /\ keepRunning' = 0
        /\ threadAt = "run" /\ UNCHANGED <<callerVars, threadAt, loopDone>>
    BY <1>0, <1>8, PopCommand DEF ProcessStop, Idle, ProcessingCommands
  <2>2. Len(commands) = 1 /\ commands' \in Seq(Command) /\ Len(commands') = 0
    BY <2>1, PopCommand
  <2>3. commands' = <<>>
    BY <2>2
  <2>4. ~JustOnce /\ callerAt \notin {"new", "ready", "signalResize"}
    BY <1>0, <2>1, <2>2
  <2> QED
    BY <1>0, <2>1, <2>3, <2>4 DEF callerVars
<1>9. CASE ProcessSetConnections
  <2>1. /\ Pop /\ threadAt = "run" /\ UNCHANGED <<callerVars, loopVars>>
    BY <1>0, <1>9 DEF ProcessSetConnections, Idle, ProcessingCommands
  <2>2. \A k \in 1 .. Len(commands') : commands'[k].cmd = "STOP" => k = Len(commands')
    BY <2>1, PopCommand
  <2>3. NoStop => NoStop'
    BY <2>1, PopCommand
  <2>4. commands # <<>>
    BY <2>1 DEF Pop
  <2> QED
    BY <1>0, <2>1, <2>2, <2>3, <2>4 DEF callerVars, loopVars
<1>10. ASSUME NEW i \in Ids, ConnectionNext(i)
       PROVE  LifeInv'
  <2>1. threadAt = "run" /\ UNCHANGED <<callerVars, loopVars, commands>>
    BY <1>10 DEF ConnectionNext, WriteReady, ReadReady, CompleteShutdown, ThinkingDone,
                 InLoopOf, Update
  <2> QED
    BY <1>0, <2>1 DEF callerVars, loopVars
<1>11. CASE HardShutdown
  BY <1>0, <1>11 DEF HardShutdown, callerVars
<1>12. CASE ExitLoop
  BY <1>0, <1>12 DEF ExitLoop, callerVars
<1>13. CASE Terminated \/ UNCHANGED vars
  BY <1>13 DEF Terminated, vars, callerVars, loopVars
<1> QED
  BY <1>1, <1>2, <1>3, <1>4, <1>5, <1>6, <1>7, <1>8, <1>9, <1>10, <1>11, <1>12, <1>13
  DEF Next, CallerNext, CommandNext

-----------------------------------------------------------------------------
(***************************************************************************)
(* libev's count.                                                          *)
(***************************************************************************)
Watched == {i \in Ids : conns[i].io # "none"}
Timed == {i \in Ids : conns[i].timer}
Armed == Cardinality(Watched) + Cardinality(Timed)

\* Before the loop the count is that of the watchers of connections, in it STOP's
\* reference is added, and the loop is left for one of its two reasons only.
RefsInv ==
  /\ threadAt \notin {"run", "exited"} => refs = Armed
  /\ threadAt = "run" /\ ~loopDone => refs = Armed + (IF shouldKeepRunning THEN 1 ELSE 0)
  /\ threadAt = "exited" =>
       keepRunning = 0 /\ (loopDone \/ \A i \in Ids : ~Alive(conns[i]))

\* Sets that differ in one element at most.
LEMMA OneChanges ==
  ASSUME NEW S, IsFiniteSet(S), NEW A \in SUBSET S, NEW B \in SUBSET S, NEW x \in S,
         \A y \in S \ {x} : y \in A <=> y \in B
  PROVE  /\ Cardinality(A) \in Nat /\ Cardinality(B) \in Nat
         /\ Cardinality(B) = Cardinality(A) + (IF x \in B THEN 1 ELSE 0)
                                           - (IF x \in A THEN 1 ELSE 0)
<1>1. IsFiniteSet(A) /\ IsFiniteSet(B)
  BY FS_Subset
<1>2. Cardinality(A) \in Nat /\ Cardinality(B) \in Nat
  BY <1>1, FS_CardinalityType
<1>3. CASE x \in A <=> x \in B
  <2>1. A = B
    BY <1>3
  <2> QED
    BY <1>2, <2>1
<1>4. CASE x \in B /\ x \notin A
  <2>1. B = A \cup {x}
    BY <1>4
  <2> QED
    BY <1>1, <1>2, <1>4, <2>1, FS_AddElement
<1>5. CASE x \in A /\ x \notin B
  <2>1. A = B \cup {x}
    BY <1>5
  <2> QED
    BY <1>1, <1>2, <1>5, <2>1, FS_AddElement
<1> QED
  BY <1>2, <1>3, <1>4, <1>5

\* B is A with the elements of J put behind n others.
PutBehind(n, k, A, J, B) ==
  /\ A \subseteq 1 .. n /\ J \subseteq 1 .. k /\ B \subseteq 1 .. (n + k)
  /\ \A i \in 1 .. n : i \in A <=> i \in B
  /\ \A j \in 1 .. k : j \in J <=> n + j \in B

LEMMA PutBehindCount ==
  ASSUME NEW n \in Nat, NEW k \in Nat, NEW A, NEW J, NEW B, PutBehind(n, k, A, J, B)
  PROVE  /\ Cardinality(B) = Cardinality(A) + Cardinality(J)
         /\ Cardinality(A) \in Nat /\ Cardinality(J) \in Nat
<1> USE DEF PutBehind
<1> DEFINE T == {n + j : j \in J}
<1>1. IsFiniteSet(1 .. n) /\ IsFiniteSet(1 .. k)
  BY FS_Interval
<1>2. IsFiniteSet(A) /\ IsFiniteSet(J)
  BY <1>1, FS_Subset
<1>3. [j \in J |-> n + j] \in Bijection(J, T)
  BY DEF Bijection, Injection, Surjection, IsInjective
<1>4. IsFiniteSet(T) /\ Cardinality(T) = Cardinality(J)
  BY <1>2, <1>3, FS_Bijection DEF ExistsBijection
<1>5. A \cap T = {}
  OBVIOUS
<1>9. B = A \cup T
  <2>1. \A i \in 1 .. n + k : i \in 1 .. n \/ (i - n \in 1 .. k /\ i = n + (i - n))
    OBVIOUS
  <2>2. ASSUME NEW i \in B, i \notin A
        PROVE  i \in T
    <3>1. i - n \in 1 .. k /\ i = n + (i - n)
      BY <2>1, <2>2
    <3>2. i - n \in J
      BY <2>2, <3>1
    <3> QED BY <3>1, <3>2
  <2>3. A \subseteq B
    OBVIOUS
  <2>4. T \subseteq B
    OBVIOUS
  <2> QED BY <2>2, <2>3, <2>4
<1>6. /\ Cardinality(A) \in Nat /\ Cardinality(J) \in Nat
      /\ Cardinality(A \cap T) = 0
  BY <1>2, <1>5, FS_CardinalityType, FS_EmptySet
<1> HIDE DEF T
<1>7. Cardinality(A \cup T) = Cardinality(A) + Cardinality(T) - Cardinality(A \cap T)
  BY <1>2, <1>4, FS_Union
<1> QED
  BY <1>4, <1>6, <1>7, <1>9
LEMMA IdsFinite ==
  ASSUME Inv
  PROVE  /\ Len(conns) \in Nat /\ IsFiniteSet(Ids)
         /\ Cardinality(Watched) \in Nat /\ Cardinality(Timed) \in Nat
<1>1. Len(conns) \in Nat
  BY DEF Inv, TypeOK
<1>2. IsFiniteSet(Ids)
  BY <1>1, FS_Interval DEF Ids
<1>3. Watched \subseteq Ids /\ Timed \subseteq Ids
  BY DEF Watched, Timed
<1> QED
  BY <1>1, <1>2, <1>3, FS_Subset, FS_CardinalityType

\* A callback of one connection.
LEMMA UpdateArmed ==
  ASSUME Inv, NEW i \in Ids, NEW c, Update(i, c), c.timer \in BOOLEAN
  PROVE  /\ Armed' = Armed + Watching(c) - Watching(conns[i])
         /\ refs' = refs + Watching(c) - Watching(conns[i])
         /\ Watching(c) \in Int /\ Watching(conns[i]) \in Int
         /\ Armed \in Int
<1>1. conns' = [conns EXCEPT ![i] = c] /\ conns \in Seq(Connection)
  BY DEF Update, Inv, TypeOK
<1>2. Ids' = Ids /\ conns'[i] = c /\ \A j \in Ids \ {i} : conns'[j] = conns[j]
  BY <1>1 DEF Ids
<1>3. /\ Watched \in SUBSET Ids /\ Watched' \in SUBSET Ids
      /\ Timed \in SUBSET Ids /\ Timed' \in SUBSET Ids
  BY <1>2 DEF Watched, Timed
<1>4. \A j \in Ids \ {i} : (j \in Watched <=> j \in Watched') /\ (j \in Timed <=> j \in Timed')
  BY <1>2 DEF Watched, Timed
<1>5. /\ i \in Watched' <=> c.io # "none"
      /\ i \in Watched <=> conns[i].io # "none"
      /\ i \in Timed' <=> c.timer
      /\ i \in Timed <=> conns[i].timer
  BY <1>2 DEF Watched, Timed
<1>6. /\ Cardinality(Watched') = Cardinality(Watched) + (IF i \in Watched' THEN 1 ELSE 0)
                                                     - (IF i \in Watched THEN 1 ELSE 0)
      /\ Cardinality(Watched) \in Nat /\ Cardinality(Watched') \in Nat
  BY <1>3, <1>4, IdsFinite, OneChanges
<1>7. /\ Cardinality(Timed') = Cardinality(Timed) + (IF i \in Timed' THEN 1 ELSE 0)
                                                 - (IF i \in Timed THEN 1 ELSE 0)
      /\ Cardinality(Timed) \in Nat /\ Cardinality(Timed') \in Nat
  BY <1>3, <1>4, IdsFinite, OneChanges
<1>8. refs' = refs + Watching(c) - Watching(conns[i])
  BY DEF Update
<1> QED
  BY <1>5, <1>6, <1>7, <1>8 DEF Armed, Watching

\* New connections, by index.
LEMMA Appended ==
  ASSUME Inv, NEW k \in Nat,
         NEW new \in [1 .. k -> StartConnect(NewConnection, shouldKeepRunning)],
         conns' = conns \o new
  PROVE  /\ Len(conns) \in Nat /\ Ids = 1 .. Len(conns) /\ Ids' = 1 .. (Len(conns) + k)
         /\ \A i \in Ids : i \in Ids' /\ conns'[i] = conns[i]
         /\ \A j \in 1 .. k : conns'[Len(conns) + j] = new[j] /\ new[j] \in Connection
         /\ \A i \in Ids' \ Ids : i - Len(conns) \in 1 .. k /\ conns'[i] = new[i - Len(conns)]
<1>1. shouldKeepRunning \in BOOLEAN
  BY DEF shouldKeepRunning
<1>2. \A j \in 1 .. k : new[j] \in Connection
  BY <1>1, StartConnectLemma DEF ConnInv
<1>3. new \in Seq(Connection) /\ Len(new) = k
  BY <1>2
<1>4. conns \in Seq(Connection) /\ Len(conns) \in Nat
  BY DEF Inv, TypeOK
<1>5. conns' \in Seq(Connection) /\ Len(conns') = Len(conns) + k
  BY <1>3, <1>4, ConcatProperties
<1>6. \A i \in Ids : i \in Ids' /\ conns'[i] = conns[i]
  BY <1>3, <1>4, <1>5 DEF Ids
<1>7. \A i \in Ids' \ Ids : i - Len(conns) \in 1 .. k /\ conns'[i] = new[i - Len(conns)]
  BY <1>3, <1>4, <1>5 DEF Ids
<1>8. \A j \in 1 .. k : conns'[Len(conns) + j] = new[j]
  BY <1>3, <1>4, <1>5
<1> QED
  BY <1>2, <1>4, <1>5, <1>6, <1>7, <1>8 DEF Ids

LEMMA AddArmed ==
  ASSUME Inv, NEW k \in Nat, AddConnections(k)
  PROVE  /\ refs' = refs + (Armed' - Armed)
         /\ Armed \in Int /\ Armed' \in Int /\ refs' \in Int
<1>1. PICK new \in [1 .. k -> StartConnect(NewConnection, shouldKeepRunning)] :
        /\ conns' = conns \o new
        /\ refs' = refs + Cardinality({j \in 1 .. k : new[j].io # "none"})
                        + Cardinality({j \in 1 .. k : new[j].timer})
  BY DEF AddConnections
<1>2. /\ Len(conns) \in Nat /\ Ids = 1 .. Len(conns) /\ Ids' = 1 .. (Len(conns) + k)
      /\ \A i \in Ids : i \in Ids' /\ conns'[i] = conns[i]
      /\ \A j \in 1 .. k : conns'[Len(conns) + j] = new[j] /\ new[j] \in Connection
      /\ \A i \in Ids' \ Ids : i - Len(conns) \in 1 .. k /\ conns'[i] = new[i - Len(conns)]
  BY <1>1, Appended
<1> DEFINE w == {j \in 1 .. k : new[j].io # "none"}
           t == {j \in 1 .. k : new[j].timer}
<1>3. \A j \in 1 .. k : Len(conns) + j \in Ids'
  BY <1>2
<1>4. PutBehind(Len(conns), k, Watched, w, Watched')
  <2>1. Watched \subseteq 1 .. Len(conns) /\ w \subseteq 1 .. k /\ Watched' \subseteq 1 .. (Len(conns) + k)
    BY <1>2 DEF Watched
  <2>2. \A i \in 1 .. Len(conns) : i \in Watched <=> i \in Watched'
    BY <1>2 DEF Watched
  <2>3. \A j \in 1 .. k : j \in w <=> Len(conns) + j \in Watched'
    BY <1>2, <1>3 DEF Watched
  <2> QED
    BY <2>1, <2>2, <2>3 DEF PutBehind
<1>5. PutBehind(Len(conns), k, Timed, t, Timed')
  <2>1. Timed \subseteq 1 .. Len(conns) /\ t \subseteq 1 .. k /\ Timed' \subseteq 1 .. (Len(conns) + k)
    BY <1>2 DEF Timed
  <2>2. \A i \in 1 .. Len(conns) : i \in Timed <=> i \in Timed'
    BY <1>2 DEF Timed
  <2>3. \A j \in 1 .. k : j \in t <=> Len(conns) + j \in Timed'
    BY <1>2, <1>3 DEF Timed
  <2> QED
    BY <2>1, <2>2, <2>3 DEF PutBehind
<1>6. refs' = refs + Cardinality(w) + Cardinality(t) /\ refs \in Int
  BY <1>1 DEF Inv, TypeOK
<1> HIDE DEF w, t
<1>7. /\ Cardinality(Watched') = Cardinality(Watched) + Cardinality(w)
      /\ Cardinality(Timed') = Cardinality(Timed) + Cardinality(t)
      /\ Cardinality(Watched) \in Nat /\ Cardinality(w) \in Nat
      /\ Cardinality(Timed) \in Nat /\ Cardinality(t) \in Nat
  BY <1>2, <1>4, <1>5, PutBehindCount
<1> QED
  BY <1>6, <1>7 DEF Armed

\* Taking connections away stops no watcher.
LEMMA ShrinkArmed ==
  ASSUME Inv, NEW n \in Nat, Shrink(n)
  PROVE  Armed' = Armed /\ refs' = refs /\ Ids' = Ids
         /\ \A i \in Ids : conns'[i].io = conns[i].io /\ conns'[i].timer = conns[i].timer
<1> DEFINE popped == {connections[k] : k \in n + 1 .. Len(connections)}
<1>1. conns' = [i \in Ids |-> IF i \in popped THEN stopRunning(conns[i]) ELSE conns[i]]
  BY DEF Shrink
<1> HIDE DEF popped
<1>2. conns \in Seq(Connection) /\ Len(conns) \in Nat
  BY DEF Inv, TypeOK
<1>3. Ids' = Ids
  BY <1>1, <1>2 DEF Ids
<1>4. \A i \in Ids : conns'[i].io = conns[i].io /\ conns'[i].timer = conns[i].timer
  <2>1. TAKE i \in Ids
  <2>2. conns[i] \in Connection
    BY <1>2 DEF Ids
  <2> QED
    BY <1>1, <2>2 DEF stopRunning, Connection
<1>5. Watched' = Watched /\ Timed' = Timed
  BY <1>3, <1>4 DEF Watched, Timed
<1> QED
  BY <1>3, <1>4, <1>5 DEF Armed, Shrink

LEMMA QuietArmed ==
  ASSUME UNCHANGED conns
  PROVE  Ids' = Ids /\ Armed' = Armed
BY DEF Ids, Armed, Watched, Timed

\* Nothing is armed when nothing is counted.
LEMMA NothingArmed ==
  ASSUME Inv
  PROVE  Armed \in Nat /\ (Armed = 0 => \A i \in Ids : ~Alive(conns[i]))
<1>1. /\ Armed = Cardinality(Watched) + Cardinality(Timed)
      /\ Cardinality(Watched) \in Nat /\ Cardinality(Timed) \in Nat
  BY IdsFinite DEF Armed
<1>2. IsFiniteSet(Watched) /\ IsFiniteSet(Timed)
  <2>1. Watched \in SUBSET Ids /\ Timed \in SUBSET Ids
    BY DEF Watched, Timed
  <2> QED
    BY <2>1, IdsFinite, FS_Subset
<1>3. ASSUME Armed = 0
      PROVE  Watched = {} /\ Timed = {}
  <2>1. Cardinality(Watched) = 0 /\ Cardinality(Timed) = 0
    BY <1>1, <1>3
  <2> QED
    BY <1>2, <2>1, FS_EmptySet
<1> QED
  BY <1>1, <1>3 DEF Watched, Timed, Alive

LEMMA RefsInvInit == Init => RefsInv
<1> SUFFICES ASSUME Init PROVE RefsInv
  OBVIOUS
<1>1. /\ threadAt = "none" /\ refs = 0
  BY DEF Init
<1>2. Ids = {}
  BY DEF Init, Ids
<1>3. Watched = {} /\ Timed = {}
  BY <1>2 DEF Watched, Timed
<1>4. Armed = 0
  BY <1>3, FS_EmptySet DEF Armed
<1> QED
  BY <1>1, <1>4 DEF RefsInv

LEMMA RefsInvStep ==
  ASSUME Inv, LifeInv, RefsInv, [Next]_vars
  PROVE  RefsInv'
<1> USE DEF RefsInv, shouldKeepRunning
<1>0. /\ refs \in Int /\ keepRunning \in {-1, 0, 1} /\ Armed \in Nat
      /\ (callback # Idle => threadAt = "run")
  BY NothingArmed DEF Inv, TypeOK
<1>1. CASE Start
  <2>1. threadAt = "none" /\ threadAt' = "create" /\ UNCHANGED <<refs, conns>>
    BY <1>1 DEF Start, LifeInv
  <2> QED
    BY <2>1, QuietArmed
<1>2. CASE \/ \E n \in ResizeTargets : SetNumConnections(n)
           \/ RequestStop \/ ev_async_send \/ Join
           \/ AsyncReady \/ CommandsDone \/ Terminated \/ UNCHANGED vars
  <2>1. UNCHANGED <<loopVars, refs, conns>>
    BY <1>2 DEF SetNumConnections, RequestStop, ev_async_send, Join, AsyncReady, CommandsDone,
                Terminated, vars
  <2> QED
    BY <2>1, QuietArmed DEF loopVars
<1>3. CASE Destroy
  <2>1. threadAt = "exited" /\ UNCHANGED loopVars /\ Ids' = {}
    BY <1>3 DEF Destroy, Inv, Ids
  <2> QED
    BY <2>1 DEF loopVars
<1>4. CASE CreateLoop \/ StartAsync
  <2>1. /\ threadAt \in {"create", "async"} /\ threadAt' \in {"async", "connect"}
        /\ refs' = refs /\ UNCHANGED conns
    BY <1>0, <1>4 DEF CreateLoop, StartAsync
  <2> QED
    BY <2>1, QuietArmed
<1>5. CASE StartConnection
  <2>1. AddConnections(1) /\ threadAt = "connect" /\ threadAt' = "connect"
    BY <1>5 DEF StartConnection, loopVars
  <2> QED
    BY <1>0, <2>1, AddArmed
<1>6. CASE EnterLoop
  BY <1>6, QuietArmed DEF EnterLoop
<1>7. CASE ProcessStop
  <2>1. /\ keepRunning # 0 /\ keepRunning' = 0 /\ refs' = refs - 1
        /\ threadAt = "run" /\ UNCHANGED <<threadAt, loopDone, conns>>
    BY <1>0, <1>7 DEF ProcessStop, Pop, LifeInv, Idle, ProcessingCommands
  <2> QED
    BY <1>0, <2>1, QuietArmed
<1>8. CASE ProcessSetConnections
  <2> DEFINE n == Head(commands).newNumConnections
  <2>1. n \in Nat
    <3>1. Head(commands) \in Command /\ Head(commands).cmd = "SET_CONNECTIONS"
      BY <1>8, PopCommand DEF ProcessSetConnections
    <3> QED BY <3>1, ThreadAssumption DEF Command
  <2>2. /\ setNumConnections(n) /\ threadAt = "run" /\ UNCHANGED loopVars
    BY <1>0, <1>8 DEF ProcessSetConnections, Idle, ProcessingCommands
  <2> HIDE DEF n
  <2>3. refs' = refs + (Armed' - Armed) /\ Armed' \in Int /\ refs' \in Int
    <3>1. CASE Grow(n)
      <4>1. n - Len(connections) \in Nat /\ AddConnections(n - Len(connections))
        BY <2>1, <3>1 DEF Grow, Inv, TypeOK
      <4> QED
        BY <4>1, AddArmed
    <3>2. CASE Shrink(n)
      BY <1>0, <2>1, <3>2, ShrinkArmed
    <3> QED
      BY <2>2, <3>1, <3>2 DEF setNumConnections
  <2>4. /\ threadAt = "run" /\ threadAt' = "run" /\ keepRunning' = keepRunning
        /\ loopDone' = loopDone
    BY <2>2 DEF loopVars
  <2>5. ~loopDone' => refs = Armed + (IF keepRunning' # 0 THEN 1 ELSE 0)
    BY <2>4
  <2>6. ~loopDone' => refs' = Armed' + (IF keepRunning' # 0 THEN 1 ELSE 0)
    BY <1>0, <2>3, <2>5
  <2> QED
    BY <2>4, <2>6
<1>9. ASSUME NEW i \in Ids, ConnectionNext(i)
      PROVE  RefsInv'
  <2>1. PICK c : /\ Outcome(conns[i], c, shouldKeepRunning) /\ Update(i, c)
                 /\ threadAt = "run"
    BY <1>9, CallbackLemma
  <2>2. ConnInv(conns[i], shouldKeepRunning) /\ shouldKeepRunning \in BOOLEAN
    BY DEF Inv, ConnsInv
  <2>3. c.timer \in BOOLEAN
    BY <2>1, <2>2, OutcomeLemma, FieldTypes DEF ConnInv
  <2>4. UNCHANGED loopVars
    BY <2>1 DEF Update
  <2> QED
    BY <1>0, <2>1, <2>3, <2>4, UpdateArmed DEF loopVars
<1>10. CASE HardShutdown
  BY <1>10 DEF HardShutdown
<1>11. CASE ExitLoop
  <2>1. /\ threadAt = "run" /\ threadAt' = "exited"
        /\ refs = 0 \/ loopDone
        /\ UNCHANGED <<keepRunning, loopDone, conns>>
    BY <1>11 DEF ExitLoop
  <2>2. CASE loopDone
    <3>1. keepRunning = 0
      BY <2>2 DEF LifeInv
    <3>2. keepRunning' = 0 /\ loopDone' /\ threadAt' = "exited"
      BY <2>1, <2>2, <3>1
    <3> QED
      BY <3>2
  <2>3. CASE ~loopDone
    <3>1. keepRunning = 0 /\ Armed = 0
      BY <1>0, <2>1, <2>3
    <3>2. \A i \in Ids : ~Alive(conns[i])
      BY <3>1, NothingArmed
    <3>3. keepRunning' = 0 /\ threadAt' = "exited" /\ Ids' = Ids /\ conns' = conns
      BY <2>1, <3>1, QuietArmed
    <3> QED
      BY <3>2, <3>3
  <2> QED
    BY <2>2, <2>3
<1> QED
  BY <1>1, <1>2, <1>3, <1>4, <1>5, <1>6, <1>7, <1>8, <1>9, <1>10, <1>11
  DEF Next, CallerNext, StartupNext, CommandNext

\* What the queue, the flags and the count are, for any caller.
LEMMA LifeInvariance == Spec => [](Inv /\ LifeInv /\ RefsInv)
<1>1. Init => Inv /\ LifeInv /\ RefsInv
  BY InitInv, LifeInvInit, RefsInvInit
<1>2. Inv /\ LifeInv /\ RefsInv /\ [Next]_vars => (LifeInv /\ RefsInv)'
  BY LifeInvStep, RefsInvStep
<1> QED
  BY <1>1, <1>2, Invariance, PTL DEF Spec

\* EnterLoop's ev_ref, the ev_unref of STOP and the watchers each callback starts
\* and stops add up: ev_run returns neither early nor, for a count too many, never.
THEOREM RefsAccounted == Spec => []RefsAccount
<1>1. Inv /\ RefsInv => RefsAccount
  BY DEF Inv, RefsInv, RefsAccount, Armed, Watched, Timed
<1> QED
  BY <1>1, LifeInvariance, PTL

\* ev_run comes back only when the run has been ended, and with all connections
\* closed unless hardShutdown broke the loop.
THEOREM ExitsClean == Spec => []CleanExit
<1>1. RefsInv => CleanExit
  BY DEF RefsInv, CleanExit
<1> QED
  BY <1>1, LifeInvariance, PTL

-----------------------------------------------------------------------------
(***************************************************************************)
(* RequestStop alone.                                                      *)
(***************************************************************************)
\* With no other command to wake it up, the thread cannot see STOP before it is
\* signalled, and until it has seen it its own reference keeps the loop alive.
StopAloneInv ==
  /\ budget = 0 /\ callerAt \notin {"signalResize", "crashed"}
  /\ callerAt \in {"new", "ready", "signalStop"} =>
       asyncSent = FALSE /\ callback # ProcessingCommands
  /\ callerAt = "signalStop" => threadAt = "run" /\ keepRunning # 0

LEMMA StopAloneStep ==
  ASSUME CallerWaits, Inv, LifeInv, RefsInv, StopAloneInv, [Next]_vars
  PROVE  StopAloneInv'
<1> USE DEF StopAloneInv, callerVars, loopVars, Idle, ProcessingCommands
<1>0. /\ refs \in Int /\ Armed \in Nat /\ asyncSent \in BOOLEAN
      /\ (callerAt \in {"joined", "destroyed"} => threadAt = "exited")
  BY NothingArmed DEF Inv, TypeOK
<1>1. CASE Start
  BY <1>1 DEF Start
<1>2. ASSUME NEW n \in ResizeTargets, SetNumConnections(n)
      PROVE  FALSE
  BY <1>2 DEF SetNumConnections
<1>3. CASE RequestStop
  BY <1>3 DEF RequestStop, MayCommand, LifeInv
<1>4. CASE ev_async_send
  BY <1>4 DEF ev_async_send
<1>5. CASE Join \/ Destroy \/ Terminated \/ UNCHANGED vars
  BY <1>5 DEF Join, Destroy, Terminated, vars
<1>6. CASE StartupNext
  <2>1. /\ UNCHANGED <<callerVars, keepRunning, callback>>
        /\ asyncSent' \in {asyncSent, FALSE} /\ threadAt # "run"
    BY <1>6 DEF StartupNext, CreateLoop, StartAsync, StartConnection, EnterLoop
  <2> QED
    BY <1>0, <2>1
<1>7. CASE AsyncReady
  BY <1>7 DEF AsyncReady
<1>8. CASE ProcessStop
  BY <1>8 DEF ProcessStop
<1>9. CASE ProcessSetConnections
  BY <1>9 DEF ProcessSetConnections
<1>10. CASE CommandsDone
  BY <1>10 DEF CommandsDone
<1>11. ASSUME NEW i \in Ids, ConnectionNext(i)
       PROVE  StopAloneInv'
  <2>1. PICK c : Update(i, c) /\ callback' \in {0, i, callback}
    BY <1>11, CallbackLemma
  <2>2. i # -1
    BY DEF Ids
  <2> QED
    BY <2>1, <2>2 DEF Update
<1>12. CASE HardShutdown
  BY <1>12 DEF HardShutdown
<1>13. CASE ExitLoop
  <2>1. /\ threadAt = "run"
        /\ refs = 0 \/ loopDone
        /\ UNCHANGED <<callerVars, keepRunning, asyncSent, callback>>
    BY <1>13 DEF ExitLoop
  <2>2. keepRunning = 0
    <3>1. ASSUME keepRunning # 0
          PROVE  FALSE
      <4>1. ~loopDone
        BY <3>1 DEF LifeInv
      <4>2. refs = Armed + 1
        BY <2>1, <3>1, <4>1 DEF RefsInv, shouldKeepRunning
      <4> QED
        BY <1>0, <2>1, <4>1, <4>2
    <3> QED
      BY <3>1
  <2> QED
    BY <2>1, <2>2
<1> QED
  BY <1>1, <1>2, <1>3, <1>4, <1>5, <1>6, <1>7, <1>8, <1>9, <1>10, <1>11, <1>12, <1>13
  DEF Next, CallerNext, CommandNext

\* The caller that only ever stops the thread, once it runs, signals a loop that
\* exists: STOP's own ev_async_send is what lets the thread leave ev_run.
THEOREM StopFindsTheLoop ==
  ASSUME MaxResizes = 0, CallerWaits
  PROVE  Spec => []LoopExistsWhenSignalled
<1>1. Init => StopAloneInv
  BY DEF Init, StopAloneInv, Idle, ProcessingCommands
<1>2. Inv /\ LifeInv /\ RefsInv /\ StopAloneInv /\ [Next]_vars => StopAloneInv'
  BY StopAloneStep
<1>3. StopAloneInv => LoopExistsWhenSignalled
  BY DEF StopAloneInv, LoopExistsWhenSignalled
<1> QED
  BY <1>1, <1>2, <1>3, LifeInvariance, PTL DEF Spec

-----------------------------------------------------------------------------
(***************************************************************************)
(* The handlers once more, for what they do to keepRunning_, the timer and *)
(* the history.                                                            *)
(***************************************************************************)
\* A connection that may connect again after it was dismissed has not done so yet.
ShrinkInv(c) ==
  /\ c.keepRunning => c.afterShrink = 0
  /\ c.timer /\ c.needsOpen => c.afterShrink = 0
  /\ c.afterShrink <= 1

\* Between two handlers of one callback.
Between(c) ==
  /\ c \in Connection /\ c.url \in URLs
  /\ c.io = "none" /\ ~c.timer
  /\ ShrinkInv(c)

\* The result of a handler that sends: the request is out or the timer runs.
Sent(c, d, run) ==
  /\ d.keepRunning = c.keepRunning
  /\ ShrinkInv(d)
  /\ \/ d.timer /\ ~InRequest(d) /\ d.afterStop = c.afterStop
     \/ ~d.timer /\ InRequest(d) /\ d.afterStop = AddCapped(c.afterStop, ~run)

\* The result of a handler that ends a request: nothing follows it after STOP.
Ended(c, d, run) ==
  /\ d.keepRunning = c.keepRunning
  /\ ShrinkInv(d)
  /\ ~run => ~d.timer /\ ~InRequest(d) /\ d.afterStop = c.afterStop

\* The result of a callback: after STOP only a timer still begins a request.
Follows(c, d, run) ==
  /\ d.keepRunning = c.keepRunning
  /\ ShrinkInv(d)
  /\ ~run =>
       IF c.timer
       THEN \/ d.timer /\ ~InRequest(d) /\ d.afterStop = c.afterStop
            \/ ~d.timer /\ InRequest(d) /\ d.afterStop = AddCapped(c.afterStop, TRUE)
       ELSE ~d.timer /\ d.afterStop = c.afterStop /\ (InRequest(d) => InRequest(c))

LEMMA HelpersBetween ==
  ASSUME NEW c, Between(c), NEW open \in BOOLEAN, NEW u \in URLs,
         NEW d \in {ResetSocket(c), Account(c), [c EXCEPT !.needsOpen = open], NextUrl(c, u)}
  PROVE  Between(d) /\ d.keepRunning = c.keepRunning /\ d.afterStop = c.afterStop
<1>1. c \in Connection
  BY DEF Between
<1>2. CASE d = ResetSocket(c)
  BY <1>1, <1>2 DEF ResetSocket, Connection, Between, ShrinkInv
<1>3. CASE d = Account(c)
  <2>1. c.owed - 1 \in Int
    BY <1>1, FieldTypes
  <2> QED
    BY <1>1, <1>3, <2>1 DEF Account, Connection, Between, ShrinkInv
<1>4. CASE d = [c EXCEPT !.needsOpen = open]
  BY <1>1, <1>4 DEF Connection, Between, ShrinkInv
<1>5. CASE d = NextUrl(c, u)
  <2>1. (c.writeDirty \/ ~IsSameServer(c.url, u) \/ u # c.url) \in BOOLEAN
    OBVIOUS
  <2> QED
    BY <1>1, <1>5, <2>1 DEF NextUrl, Connection, Between, ShrinkInv
<1> QED
  BY <1>2, <1>3, <1>4, <1>5

LEMMA SendSent ==
  ASSUME NEW run \in BOOLEAN, NEW c, Between(c), NEW d \in Send(c, run)
  PROVE  Sent(c, d, run)
<1>1. c \in Connection /\ c.url \in URLs
  BY DEF Between
<1>2. PICK e \in writeRequest(c) : d = SendWrite(e, run)
  BY DEF Send
<1>3. /\ e \in Connection /\ e.keepRunning = c.keepRunning /\ e.timer = c.timer
      /\ e.afterStop = c.afterStop /\ e.afterShrink = c.afterShrink
  <2>1. CASE e = [c EXCEPT !.pos = 0]
    BY <1>1, <2>1 DEF Connection
  <2>2. CASE e # [c EXCEPT !.pos = 0]
    <3>1. PICK n \in RequestLen[c.url] :
            e = [c EXCEPT !.reqUrl = c.url, !.reqLen = n,
                          !.bufLen = IF n > @ THEN n ELSE @,
                          !.pos = 0, !.writeDirty = FALSE]
      BY <1>2, <2>2 DEF writeRequest
    <3>2. n \in Nat
      BY <1>1, URLAssumption
    <3> QED
      BY <1>1, <3>1, <3>2 DEF Connection
  <2> QED
    BY <2>1, <2>2
<1>4. /\ d.io = "writeReady" /\ d.keepRunning = e.keepRunning /\ d.timer = e.timer
      /\ d.afterStop = AddCapped(e.afterStop, ~run) /\ d.afterShrink = e.afterShrink
  BY <1>2, <1>3 DEF SendWrite, Connection
<1> QED
  BY <1>3, <1>4 DEF Sent, Between, ShrinkInv, InRequest

LEMMA sendAfterDelaySent ==
  ASSUME NEW run \in BOOLEAN, NEW c, Between(c), c.needsOpen => c.afterShrink = 0
  PROVE  Sent(c, sendAfterDelay(c), run)
<1> DEFINE d == sendAfterDelay(c)
<1>1. /\ d.timer /\ d.io = c.io /\ d.keepRunning = c.keepRunning /\ d.needsOpen = c.needsOpen
      /\ d.afterStop = c.afterStop /\ d.afterShrink = c.afterShrink
  BY DEF sendAfterDelay, Between, Connection
<1> HIDE DEF d
<1>2. Sent(c, d, run)
  BY <1>1 DEF Between, Sent, ShrinkInv, InRequest
<1> QED
  BY <1>2 DEF d

LEMMA ConnectAndSendSent ==
  ASSUME NEW run \in BOOLEAN, NEW c, Between(c), c.needsOpen => c.afterShrink = 0,
         NEW d \in ConnectAndSend(c, run)
  PROVE  Sent(c, d, run)
<1>1. CASE ~c.needsOpen
  BY <1>1, SendSent DEF ConnectAndSend
<1>2. CASE c.needsOpen /\ CanConnect(c) /\ d \in Send(Connected(c), run)
  <2> DEFINE s == Connected(c)
  <2>1. c \in Connection /\ c.url \in URLs /\ c.afterShrink = 0
    BY <1>2 DEF Between
  <2>2. /\ Address[c.url] \in Addresses /\ IsSsl[c.url] \in BOOLEAN
        /\ AddCapped(c.afterShrink, ~c.keepRunning) \in Nat
        /\ AddCapped(c.afterShrink, ~c.keepRunning) <= 1
        /\ c.keepRunning => AddCapped(c.afterShrink, ~c.keepRunning) = 0
    BY <2>1, URLAssumption, FieldTypes, AddCappedLemma DEF Addresses
  <2>3. s \in Connection
    BY <2>1, <2>2 DEF Connected, Connection
  <2>4. /\ s.url = c.url /\ s.io = c.io /\ s.timer = c.timer /\ s.keepRunning = c.keepRunning
        /\ s.afterStop = c.afterStop /\ s.afterShrink = AddCapped(c.afterShrink, ~c.keepRunning)
    BY <2>1 DEF Connected, Connection
  <2> HIDE DEF s
  <2>5. Between(s)
    BY <2>2, <2>3, <2>4 DEF Between, ShrinkInv
  <2>6. Sent(s, d, run)
    BY <1>2, <2>5, SendSent DEF s
  <2> QED
    BY <2>4, <2>6 DEF Sent
<1>3. CASE d = sendAfterDelay(c)
  BY <1>3, sendAfterDelaySent
<1> QED
  BY <1>1, <1>2, <1>3 DEF ConnectAndSend

LEMMA ThinkThenSendSent ==
  ASSUME NEW run \in BOOLEAN, NEW c, Between(c), c.needsOpen => c.afterShrink = 0,
         NEW d \in ThinkThenSend(c, run)
  PROVE  Sent(c, d, run)
BY sendAfterDelaySent, ConnectAndSendSent DEF ThinkThenSend

LEMMA CloseDoneEnded ==
  ASSUME NEW run \in BOOLEAN, NEW c, Between(c), NEW d \in CloseDone(c, run)
  PROVE  Ended(c, d, run)
<1>1. CASE c.keepRunning /\ run
  <2>1. d \in ThinkThenSend(c, run) /\ c.afterShrink = 0
    BY <1>1 DEF CloseDone, Between, ShrinkInv
  <2>2. Sent(c, d, run)
    BY <2>1, ThinkThenSendSent
  <2> QED
    BY <1>1, <2>2 DEF Sent, Ended
<1>2. CASE ~(c.keepRunning /\ run)
  <2>1. d = c
    BY <1>2 DEF CloseDone
  <2> QED
    BY <2>1 DEF Between, Ended, InRequest
<1> QED
  BY <1>1, <1>2

LEMMA CloseEnded ==
  ASSUME NEW run \in BOOLEAN, NEW c, Between(c), NEW d \in Close(c, run)
  PROVE  Ended(c, d, run)
<1>1. CASE d \in CloseDone(ResetSocket(c), run)
  <2>1. Ended(ResetSocket(c), d, run)
    BY <1>1, HelpersBetween, CloseDoneEnded, URLAssumption
  <2> QED
    BY <2>1, HelpersBetween, URLAssumption DEF Ended
<1>2. ASSUME NEW dir, NEW backwards, d = Arm(c, "completeShutdown", dir, backwards)
      PROVE  Ended(c, d, run)
  <2>1. /\ d.io = "completeShutdown" /\ d.timer = c.timer /\ d.keepRunning = c.keepRunning
        /\ d.afterStop = c.afterStop /\ d.afterShrink = c.afterShrink
    BY <1>2 DEF Arm, Between, Connection
  <2> QED
    BY <2>1 DEF Between, Ended, ShrinkInv, InRequest
<1> QED
  BY <1>1, <1>2 DEF Close

LEMMA recycleEnded ==
  ASSUME NEW run \in BOOLEAN, NEW c, Between(c), NEW closeConn, NEW d \in recycle(c, closeConn, run)
  PROVE  Ended(c, d, run)
<1>0. URLs # {}
  BY URLAssumption
<1>1. CASE d \in Close([c EXCEPT !.needsOpen = TRUE], run)
  <2> DEFINE s == [c EXCEPT !.needsOpen = TRUE]
  <2>1. Between(s) /\ s.keepRunning = c.keepRunning /\ s.afterStop = c.afterStop
    BY <1>0, HelpersBetween
  <2> HIDE DEF s
  <2>2. Ended(s, d, run)
    BY <1>1, <2>1, CloseEnded DEF s
  <2> QED
    BY <2>1, <2>2 DEF Ended
<1>2. CASE run /\ d \in ThinkThenSend([c EXCEPT !.needsOpen = FALSE], run)
  <2> DEFINE s == [c EXCEPT !.needsOpen = FALSE]
  <2>1. Between(s) /\ s.keepRunning = c.keepRunning /\ s.afterStop = c.afterStop
    BY <1>0, HelpersBetween
  <2>2. ~s.needsOpen
    BY DEF Between, Connection
  <2> HIDE DEF s
  <2>3. Sent(s, d, run)
    BY <1>2, <2>1, <2>2, ThinkThenSendSent DEF s
  <2> QED
    BY <1>2, <2>1, <2>3 DEF Sent, Ended
<1> QED
  BY <1>1, <1>2 DEF recycle

LEMMA ReadDoneEnded ==
  ASSUME NEW run \in BOOLEAN, NEW c, Between(c), NEW err, NEW keepAlive,
         NEW d \in ReadDone(c, err, keepAlive, run)
  PROVE  Ended(c, d, run)
<1> DEFINE a == Account(c)
<1>1. Between(a) /\ a.keepRunning = c.keepRunning /\ a.afterStop = c.afterStop
  BY HelpersBetween, URLAssumption
<1> HIDE DEF a
<1>2. CASE d \in recycle(a, TRUE, run)
  <2>1. Ended(a, d, run)
    BY <1>1, <1>2, recycleEnded
  <2> QED
    BY <1>1, <2>1 DEF Ended
<1>3. ASSUME NEW u \in URLs, d \in recycle(NextUrl(a, u), ~IsSameServer(c.url, u), run)
      PROVE  Ended(c, d, run)
  <2> DEFINE n == NextUrl(a, u)
  <2>1. Between(n) /\ n.keepRunning = a.keepRunning /\ n.afterStop = a.afterStop
    BY <1>1, HelpersBetween
  <2> HIDE DEF n
  <2>2. Ended(n, d, run)
    BY <1>3, <2>1, recycleEnded DEF n
  <2> QED
    BY <1>1, <2>1, <2>2 DEF Ended
<1> QED
  BY <1>2, <1>3 DEF ReadDone, a

LEMMA WriteDoneFollows ==
  ASSUME NEW run \in BOOLEAN, NEW c, Between(c), NEW err, NEW d \in WriteDone(c, err, run)
  PROVE  /\ d.keepRunning = c.keepRunning /\ ShrinkInv(d)
         /\ ~run => ~d.timer /\ d.afterStop = c.afterStop
<1>1. CASE err
  <2> DEFINE a == Account(c)
  <2>1. Between(a) /\ a.keepRunning = c.keepRunning /\ a.afterStop = c.afterStop
    BY HelpersBetween, URLAssumption
  <2>2. d \in recycle(a, TRUE, run)
    BY <1>1 DEF WriteDone
  <2> HIDE DEF a
  <2>3. Ended(a, d, run)
    BY <2>1, <2>2, recycleEnded
  <2> QED
    BY <2>1, <2>3 DEF Ended
<1>2. CASE ~err
  <2>1. d = [c EXCEPT !.io = "readReady", !.mask = "read", !.backwardsIo = FALSE,
                      !.readDone = FALSE, !.parser = "start"]
    BY <1>2 DEF WriteDone
  <2>2. /\ d.timer = c.timer /\ d.keepRunning = c.keepRunning
        /\ d.afterStop = c.afterStop /\ d.afterShrink = c.afterShrink
    BY <2>1 DEF Between, Connection
  <2> QED
    BY <2>2 DEF Between, ShrinkInv
<1> QED
  BY <1>1, <1>2

-----------------------------------------------------------------------------
(***************************************************************************)
(* The callbacks.                                                          *)
(***************************************************************************)
SameMarks(c, d) ==
  /\ d.keepRunning = c.keepRunning /\ d.timer = c.timer /\ d.needsOpen = c.needsOpen
  /\ d.afterStop = c.afterStop /\ d.afterShrink = c.afterShrink

LEMMA ProgressMarks ==
  ASSUME NEW c \in Connection,
         NEW d, \/ \E n \in Nat : d = [c EXCEPT !.pos = @ + n]
                \/ \E p \in Parsing : d = [c EXCEPT !.parser = p, !.fed = ~c.fed]
                \/ d = [c EXCEPT !.fed = ~c.fed]
                \/ d = [c EXCEPT !.readDone = TRUE]
                \/ d = [c EXCEPT !.eof = TRUE]
                \/ \E dir, backwards : d = Arm(c, c.io, dir, backwards)
  PROVE  SameMarks(c, d) /\ d.io = c.io
BY DEF SameMarks, Connection, Arm

LEMMA SwitchMarks ==
  ASSUME NEW c \in Connection, NEW dir, NEW backwards
  PROVE  SameMarks(c, Switch(c, dir, backwards)) /\ Switch(c, dir, backwards).io = c.io
<1> DEFINE b == Blocked(c)
<1>1. b \in Connection /\ SameMarks(c, b) /\ b.io = c.io
  BY DEF Blocked, SameMarks, Connection
<1> HIDE DEF b
<1>2. CASE c.backwardsIo = backwards
  <2>1. Switch(c, dir, backwards) = b
    BY <1>2, Zenon DEF Switch, b
  <2> QED BY <1>1, <2>1
<1>3. CASE c.backwardsIo # backwards
  <2> DEFINE d == Arm(b, b.io, dir, backwards)
  <2>1. SameMarks(b, d) /\ d.io = b.io
    BY <1>1, ProgressMarks
  <2> HIDE DEF d
  <2>2. Switch(c, dir, backwards) = d
    BY <1>1, <1>3, Zenon DEF Switch, d, b
  <2> QED BY <1>1, <2>1, <2>2 DEF SameMarks
<1> QED BY <1>2, <1>3

LEMMA StopIoBetween ==
  ASSUME NEW run \in BOOLEAN, NEW c, ConnInv(c, run), c.io # "none", ShrinkInv(c)
  PROVE  /\ Between(StopIo(c)) /\ StopIo(c).keepRunning = c.keepRunning
         /\ StopIo(c).afterStop = c.afterStop
<1> DEFINE d == StopIo(c)
<1>1. c \in Connection /\ c.url \in URLs /\ ~c.timer
  BY DEF ConnInv
<1>2. d \in Connection
  BY <1>1, Literals DEF StopIo, Connection
<1>3. d.io = "none" /\ d.url = c.url /\ SameMarks(c, d)
  BY <1>1 DEF StopIo, Connection, SameMarks
<1> HIDE DEF d
<1>4. Between(d) /\ d.keepRunning = c.keepRunning /\ d.afterStop = c.afterStop
  BY <1>1, <1>2, <1>3 DEF Between, ShrinkInv, SameMarks
<1> QED
  BY <1>4 DEF d

\* Nothing but what ShrinkInv speaks of has to follow when the marks are the same.
LEMMA SameFollows ==
  ASSUME NEW run \in BOOLEAN, NEW c, ConnInv(c, run), c.io # "none", ShrinkInv(c),
         NEW d, SameMarks(c, d), d.io = c.io
  PROVE  Follows(c, d, run)
<1>1. ~c.timer
  BY DEF ConnInv
<1> QED
  BY <1>1 DEF Follows, SameMarks, ShrinkInv, InRequest

\* A request ends with an error, or with the end of its response.
LEMMA EndsFollows ==
  ASSUME NEW run \in BOOLEAN, NEW c, ConnInv(c, run), InRequest(c), ShrinkInv(c),
         NEW err, NEW keepAlive, NEW d \in ReadDone(StopIo(c), err, keepAlive, run)
  PROVE  Follows(c, d, run)
<1>1. c.io # "none" /\ ~c.timer
  BY DEF ConnInv, InRequest
<1>2. /\ Between(StopIo(c)) /\ StopIo(c).keepRunning = c.keepRunning
      /\ StopIo(c).afterStop = c.afterStop
  BY <1>1, StopIoBetween
<1>3. Ended(StopIo(c), d, run)
  BY <1>2, ReadDoneEnded
<1> QED
  BY <1>1, <1>2, <1>3 DEF Ended, Follows

LEMMA WriteEndsFollows ==
  ASSUME NEW run \in BOOLEAN, NEW c, ConnInv(c, run), InRequest(c), ShrinkInv(c),
         NEW err, NEW d \in WriteDone(StopIo(c), err, run)
  PROVE  Follows(c, d, run)
<1>1. c.io # "none" /\ ~c.timer
  BY DEF ConnInv, InRequest
<1>2. /\ Between(StopIo(c)) /\ StopIo(c).keepRunning = c.keepRunning
      /\ StopIo(c).afterStop = c.afterStop
  BY <1>1, StopIoBetween
<1> QED
  BY <1>1, <1>2, WriteDoneFollows DEF Follows

LEMMA FollowsSame ==
  ASSUME NEW run, NEW c, NEW e, NEW d,
         SameMarks(c, e), e.io = c.io, Follows(e, d, run)
  PROVE  Follows(c, d, run)
BY DEF SameMarks, Follows, InRequest

LEMMA singleWriteFollows ==
  ASSUME NEW run \in BOOLEAN, NEW c, ConnInv(c, run), c.io = "writeReady", ShrinkInv(c),
         NEW r \in singleWrite(c, run)
  PROVE  Follows(c, r.conn, run)
<1>1. InRequest(c) /\ c \in Connection
  BY DEF InRequest, ConnInv
<1>2. ASSUME NEW n \in 1 .. (c.bufLen - c.pos), r \in Wrote(c, n, run)
      PROVE  Follows(c, r.conn, run)
  <2> DEFINE e == [c EXCEPT !.pos = @ + n]
  <2>1. n \in Nat
    <3>1. c.bufLen \in Nat /\ c.pos \in Nat
      BY <1>1, FieldTypes
    <3> QED BY <3>1
  <2>2. ConnInv(e, run) /\ InRequest(e)
    BY <1>1, <2>1, ProgressLemma
  <2>3. SameMarks(c, e) /\ e.io = c.io
    BY <1>1, <2>1, ProgressMarks
  <2>4. ShrinkInv(e)
    BY <2>3 DEF ShrinkInv, SameMarks
  <2> HIDE DEF e
  <2>5. r.conn \in WriteDone(StopIo(e), FALSE, run) \/ r.conn = e
    BY <1>2, ReturnLemma, AgainLemma DEF Wrote, e
  <2>6. CASE r.conn = e
    BY <2>3, <2>6, SameFollows
  <2>7. CASE r.conn \in WriteDone(StopIo(e), FALSE, run)
    BY <2>2, <2>3, <2>4, <2>7, WriteEndsFollows, FollowsSame
  <2> QED
    BY <2>5, <2>6, <2>7
<1>3. CASE \E dir, backwards : r.conn = Switch(c, dir, backwards)
  BY <1>1, <1>3, SwitchMarks, SameFollows
<1>4. CASE r.conn \in WriteDone(StopIo(c), TRUE, run)
  BY <1>1, <1>4, WriteEndsFollows
<1>5. CASE r \in UNION {Wrote(c, n, run) : n \in 1 .. (c.bufLen - c.pos)}
  BY <1>2, <1>5
<1> QED
  BY <1>3, <1>4, <1>5, ReturnLemma DEF singleWrite

LEMMA CompleteFollows ==
  ASSUME NEW run \in BOOLEAN, NEW c, ConnInv(c, run), InRequest(c), ShrinkInv(c),
         NEW keepAlive, NEW d \in Complete(c, keepAlive, run)
  PROVE  Follows(c, d, run)
<1> DEFINE e == [c EXCEPT !.readDone = TRUE]
<1>1. c \in Connection
  BY DEF ConnInv
<1>2. ConnInv(e, run) /\ InRequest(e)
  BY ProgressLemma
<1>3. SameMarks(c, e) /\ e.io = c.io
  BY <1>1, ProgressMarks
<1>4. ShrinkInv(e)
  BY <1>3 DEF ShrinkInv, SameMarks
<1>5. d \in ReadDone(StopIo(e), FALSE, keepAlive, run)
  BY DEF Complete
<1> HIDE DEF e
<1>6. Follows(e, d, run)
  BY <1>2, <1>4, <1>5, EndsFollows
<1> QED
  BY <1>3, <1>6, FollowsSame

LEMMA ReadEofFollows ==
  ASSUME NEW run \in BOOLEAN, NEW c, ConnInv(c, run), InRequest(c), ShrinkInv(c),
         NEW r \in ReadEof(c, run)
  PROVE  Follows(c, r.conn, run)
<1>1. c \in Connection /\ c.parser \in Parsing /\ c.io # "none"
  BY FieldTypes DEF ConnInv, InRequest
<1>2. \/ r.conn \in ReadDone(StopIo(c), ~c.readDone, FALSE, run)
      \/ r.conn = [c EXCEPT !.fed = ~c.fed]
      \/ r.conn \in ReadDone(StopIo(c), TRUE, FALSE, run)
      \/ r.conn \in Complete(c, FALSE, run)
  BY <1>1, ReturnLemma, ReadOnLemma DEF ReadEof, ReadFailed, Parsing
<1>3. CASE r.conn = [c EXCEPT !.fed = ~c.fed]
  <2>1. SameMarks(c, r.conn) /\ r.conn.io = c.io
    BY <1>1, <1>3, ProgressMarks
  <2> QED
    BY <1>1, <2>1, SameFollows
<1> QED
  BY <1>1, <1>2, <1>3, EndsFollows, CompleteFollows

LEMMA singleReadFollows ==
  ASSUME NEW run \in BOOLEAN, NEW c, ConnInv(c, run), c.io = "readReady", ShrinkInv(c),
         NEW r \in singleRead(c, run)
  PROVE  Follows(c, r.conn, run)
<1>1. InRequest(c) /\ c \in Connection /\ c.parser \in Parsing /\ c.io # "none"
  BY FieldTypes DEF InRequest, ConnInv
<1>2. CASE r \in ReadEof(c, run)
  BY <1>1, <1>2, ReadEofFollows
<1>3. CASE r \in ReadEof([c EXCEPT !.eof = TRUE], run)
  <2> DEFINE e == [c EXCEPT !.eof = TRUE]
  <2>1. ConnInv(e, run) /\ InRequest(e)
    BY <1>1, ProgressLemma
  <2>2. SameMarks(c, e) /\ e.io = c.io
    BY <1>1, ProgressMarks
  <2>3. ShrinkInv(e)
    BY <2>2 DEF ShrinkInv, SameMarks
  <2> HIDE DEF e
  <2>4. Follows(e, r.conn, run)
    BY <1>3, <2>1, <2>3, ReadEofFollows DEF e
  <2> QED
    BY <2>2, <2>4, FollowsSame
<1>4. CASE r.conn \in ReadFailed(c, run)
  BY <1>1, <1>4, EndsFollows DEF ReadFailed
<1>5. CASE r \in ReadData(c, run)
  <2>1. CASE r \in ReadOn(Parsed(c))
    <3>1. PICK p \in Parsing : r.conn = [c EXCEPT !.parser = p, !.fed = ~c.fed]
      BY <1>1, <2>1, ReadOnLemma
    <3>2. SameMarks(c, r.conn) /\ r.conn.io = c.io
      BY <1>1, <3>1, ProgressMarks
    <3> QED
      BY <1>1, <3>2, SameFollows
  <2>2. CASE r \in Return(UNION {Complete(c, ka, run) : ka \in BOOLEAN})
    BY <1>1, <2>2, ReturnLemma, CompleteFollows
  <2>3. CASE r \in Return(ReadFailed(c, run))
    BY <1>4, <2>3, ReturnLemma
  <2> QED
    BY <1>5, <2>1, <2>2, <2>3 DEF ReadData
<1>6. CASE \E dir, backwards : r.conn = Switch(c, dir, backwards)
  BY <1>1, <1>6, SwitchMarks, SameFollows
<1> QED
  BY <1>2, <1>3, <1>4, <1>5, <1>6, ReturnLemma DEF singleRead

LEMMA completeShutdownFollows ==
  ASSUME NEW run \in BOOLEAN, NEW c, ConnInv(c, run), c.io = "completeShutdown", ShrinkInv(c),
         NEW d \in completeShutdown(c, run)
  PROVE  Follows(c, d, run)
<1>1. c \in Connection /\ ~c.timer
  BY DEF ConnInv
<1>2. CASE \E dir, backwards : d = Switch(c, dir, backwards)
  BY <1>1, <1>2, SwitchMarks, SameFollows
<1>3. CASE d \in CloseDone(ResetSocket(StopIo(c)), run)
  <2> DEFINE s == StopIo(c)
             e == ResetSocket(s)
  <2>1. Between(s) /\ s.keepRunning = c.keepRunning /\ s.afterStop = c.afterStop
    BY StopIoBetween
  <2> HIDE DEF s
  <2>2. Between(e) /\ e.keepRunning = s.keepRunning /\ e.afterStop = s.afterStop
    BY <2>1, HelpersBetween, URLAssumption
  <2> HIDE DEF e
  <2>3. Ended(e, d, run)
    BY <1>3, <2>2, CloseDoneEnded DEF e, s
  <2> QED
    BY <1>1, <2>1, <2>2, <2>3 DEF Ended, Follows
<1> QED
  BY <1>2, <1>3 DEF completeShutdown

LEMMA thinkingDoneFollows ==
  ASSUME NEW run \in BOOLEAN, NEW c, ConnInv(c, run), c.timer, ShrinkInv(c),
         NEW d \in thinkingDone(c, run)
  PROVE  Follows(c, d, run)
<1> DEFINE s == [c EXCEPT !.timer = FALSE]
<1>1. c \in Connection /\ c.url \in URLs /\ c.io = "none"
  BY DEF ConnInv
<1>2. s \in Connection
  BY <1>1 DEF Connection
<1>3. /\ ~s.timer /\ s.io = c.io /\ s.url = c.url /\ s.needsOpen = c.needsOpen
      /\ s.keepRunning = c.keepRunning
      /\ s.afterStop = c.afterStop /\ s.afterShrink = c.afterShrink
  BY <1>1 DEF Connection
<1>4. d \in ConnectAndSend(s, run)
  BY DEF thinkingDone
<1> HIDE DEF s
<1>5. Between(s) /\ (s.needsOpen => s.afterShrink = 0)
  BY <1>1, <1>2, <1>3 DEF Between, ShrinkInv
<1>6. Sent(s, d, run)
  BY <1>4, <1>5, ConnectAndSendSent
<1> QED
  BY <1>3, <1>6 DEF Sent, Follows

LEMMA OutcomeFollows ==
  ASSUME NEW run \in BOOLEAN, NEW c, ConnInv(c, run), ShrinkInv(c), NEW d, Outcome(c, d, run)
  PROVE  Follows(c, d, run)
BY singleWriteFollows, singleReadFollows, completeShutdownFollows, thinkingDoneFollows
DEF Outcome

LEMMA StartConnectSent ==
  ASSUME NEW run \in BOOLEAN, NEW d \in StartConnect(NewConnection, run)
  PROVE  /\ d.keepRunning /\ ShrinkInv(d)
         /\ \/ d.timer /\ ~InRequest(d) /\ d.afterStop = 0
            \/ ~d.timer /\ InRequest(d) /\ d.afterStop = IF run THEN 0 ELSE 1
<1>1. PICK u \in URLs :
        d \in ConnectAndSend([NewConnection EXCEPT !.url = u, !.needsOpen = TRUE], run)
  BY DEF StartConnect
<1> DEFINE s == [NewConnection EXCEPT !.url = u, !.needsOpen = TRUE]
<1>2. NewConnection \in Connection
  BY Literals DEF NewConnection, Connection
<1>3. s \in Connection
  BY <1>2 DEF Connection
<1>4. /\ s.url = u /\ s.io = "none" /\ ~s.timer /\ s.keepRunning
      /\ s.afterStop = 0 /\ s.afterShrink = 0
  BY DEF NewConnection
<1> HIDE DEF s
<1>5. Between(s)
  BY <1>3, <1>4 DEF Between, ShrinkInv
<1>6. Sent(s, d, run)
  BY <1>1, <1>4, <1>5, ConnectAndSendSent DEF s
<1>7. AddCapped(0, ~run) = IF run THEN 0 ELSE 1
  BY DEF AddCapped, LateCap
<1> QED
  BY <1>4, <1>6, <1>7 DEF Sent

-----------------------------------------------------------------------------
(***************************************************************************)
(* The list of connections and the resizes.                                *)
(***************************************************************************)
Listed(i) == \E k \in 1 .. Len(connections) : connections[k] = i

\* connections_ lists each connection that is to keep running, and once.
ListInv ==
  /\ \A j, k \in 1 .. Len(connections) : connections[j] = connections[k] => j = k
  /\ \A i \in Ids : conns[i].keepRunning <=> Listed(i)

\* The last resize is still in the queue, followed by STOP at most, or it was applied.
Wanted ==
  \/ \E k \in 1 .. Len(commands) :
       /\ commands[k].cmd = "SET_CONNECTIONS" /\ commands[k].newNumConnections = requested
       /\ \A j \in 1 .. Len(commands) : j > k => commands[j].cmd = "STOP"
  \/ /\ \A j \in 1 .. Len(commands) : commands[j].cmd = "STOP"
     /\ threadAt = "run" => Len(connections) = requested
     /\ threadAt \notin {"run", "exited"} => requested = NumConnections

\* "-1": a connection has begun its request unless it waits to do so.
OnceInv == JustOnce => \A i \in Ids : conns[i].afterStop = IF conns[i].timer THEN 0 ELSE 1

ShrinksInv == \A i \in Ids : ShrinkInv(conns[i])

ResizeInv == ListInv /\ Wanted /\ OnceInv /\ ShrinksInv

LEMMA GrowList ==
  ASSUME Inv, ListInv, ShrinksInv, NEW k \in Nat, AddConnections(k)
  PROVE  /\ ListInv' /\ ShrinksInv' /\ Len(connections') = Len(connections) + k
         /\ ~shouldKeepRunning /\ OnceInv /\ UNCHANGED JustOnce => OnceInv'
<1>1. PICK new \in [1 .. k -> StartConnect(NewConnection, shouldKeepRunning)] :
        /\ conns' = conns \o new
        /\ connections' = connections \o [j \in 1 .. k |-> Len(conns) + j]
  BY DEF AddConnections
<1>2. /\ Len(conns) \in Nat /\ Ids = 1 .. Len(conns) /\ Ids' = 1 .. (Len(conns) + k)
      /\ \A i \in Ids : i \in Ids' /\ conns'[i] = conns[i]
      /\ \A j \in 1 .. k : conns'[Len(conns) + j] = new[j] /\ new[j] \in Connection
      /\ \A i \in Ids' \ Ids : i - Len(conns) \in 1 .. k /\ conns'[i] = new[i - Len(conns)]
  BY <1>1, Appended
<1>3. \A j \in 1 .. k :
        /\ new[j].keepRunning /\ ShrinkInv(new[j])
        /\ ~shouldKeepRunning => new[j].afterStop = IF new[j].timer THEN 0 ELSE 1
  BY StartConnectSent DEF shouldKeepRunning
<1> DEFINE L == Len(connections)
           added == [j \in 1 .. k |-> Len(conns) + j]
<1>4. connections \in Seq(Ids) /\ L \in Nat
  BY DEF Inv, TypeOK
<1>5. /\ Len(connections') = L + k
      /\ \A m \in 1 .. L : connections'[m] = connections[m] /\ connections[m] \in Ids
      /\ \A m \in 1 .. (L + k) : m \notin 1 .. L => connections'[m] = Len(conns) + (m - L)
      /\ \A j \in 1 .. k : L + j \in 1 .. (L + k) /\ connections'[L + j] = Len(conns) + j
  <2>1. added \in Seq(Nat) /\ Len(added) = k
    BY <1>2
  <2>2. connections \in Seq(Nat)
    BY <1>2, <1>4
  <2>3. connections' = connections \o added
    BY <1>1
  <2>4. \A m \in 1 .. L : connections[m] \in Ids
    BY <1>4
  <2>5. Len(connections') = L + k /\ \A m \in 1 .. L : connections'[m] = connections[m]
    BY <2>1, <2>2, <2>3, ConcatProperties
  <2>6. \A m \in 1 .. (L + k) : m \notin 1 .. L =>
          connections'[m] = added[m - L] /\ m - L \in 1 .. k
    BY <1>4, <2>1, <2>2, <2>3, ConcatProperties
  <2>7. \A m \in 1 .. (L + k) : m \notin 1 .. L => connections'[m] = Len(conns) + (m - L)
    BY <2>6
  <2>8. \A j \in 1 .. k : L + j \in 1 .. (L + k) /\ connections'[L + j] = Len(conns) + j
    <3>1. TAKE j \in 1 .. k
    <3>2. L + j \in 1 .. (L + k) /\ L + j \notin 1 .. L /\ (L + j) - L = j
      BY <1>4
    <3> QED
      BY <2>7, <3>2
  <2> QED
    BY <2>4, <2>5, <2>7, <2>8
<1> HIDE DEF L, added
<1>6. \A j, m \in 1 .. Len(connections') : connections'[j] = connections'[m] => j = m
  <2>1. SUFFICES ASSUME NEW j \in 1 .. (L + k), NEW m \in 1 .. (L + k),
                        connections'[j] = connections'[m]
                 PROVE  j = m
    BY <1>5
  <2>2. CASE j \in 1 .. L /\ m \in 1 .. L
    BY <1>5, <2>1, <2>2 DEF ListInv, L
  <2>3. CASE j \notin 1 .. L /\ m \notin 1 .. L
    <3>1. Len(conns) + (j - L) = Len(conns) + (m - L)
      BY <1>5, <2>1, <2>3
    <3> QED
      BY <1>2, <1>4, <3>1
  <2>4. CASE j \in 1 .. L /\ m \notin 1 .. L
    <3>1. connections'[j] \in 1 .. Len(conns) /\ connections'[m] = Len(conns) + (m - L)
      BY <1>2, <1>5, <2>4
    <3>2. m - L \in Nat /\ m - L > 0
      BY <1>4, <2>4
    <3> QED
      BY <1>2, <2>1, <3>1, <3>2
  <2>5. CASE j \notin 1 .. L /\ m \in 1 .. L
    <3>1. connections'[m] \in 1 .. Len(conns) /\ connections'[j] = Len(conns) + (j - L)
      BY <1>2, <1>5, <2>5
    <3>2. j - L \in Nat /\ j - L > 0
      BY <1>4, <2>5
    <3> QED
      BY <1>2, <2>1, <3>1, <3>2
  <2> QED
    BY <2>2, <2>3, <2>4, <2>5
<1>7. \A i \in Ids' : conns'[i].keepRunning <=> Listed(i)'
  <2>1. TAKE i \in Ids'
  <2>2. CASE i \in Ids
    <3>1. Listed(i) => Listed(i)'
      <4>1. ASSUME NEW m \in 1 .. L, connections[m] = i
            PROVE  m \in 1 .. (L + k) /\ connections'[m] = i
        BY <1>4, <1>5, <4>1
      <4> QED
        BY <1>5, <4>1 DEF Listed, L
    <3>2. Listed(i)' => Listed(i)
      <4>1. ASSUME NEW m \in 1 .. (L + k), connections'[m] = i
            PROVE  m \in 1 .. L /\ connections[m] = i
        <5>1. CASE m \notin 1 .. L
          <6>1. i = Len(conns) + (m - L) /\ m - L \in Nat /\ m - L > 0
            BY <1>4, <1>5, <4>1, <5>1
          <6> QED
            BY <1>2, <2>2, <6>1
        <5> QED
          BY <1>5, <4>1, <5>1
      <4> QED
        BY <1>5, <4>1 DEF Listed, L
    <3> QED
      BY <1>2, <2>2, <3>1, <3>2 DEF ListInv
  <2>3. CASE i \notin Ids
    <3> DEFINE j == i - Len(conns)
    <3>1. j \in 1 .. k /\ conns'[i] = new[j] /\ i = Len(conns) + j
      BY <1>2, <2>3
    <3>2. connections'[L + j] = i /\ L + j \in 1 .. Len(connections')
      BY <1>5, <3>1
    <3> QED
      BY <1>3, <3>1, <3>2 DEF Listed
  <2> QED
    BY <2>2, <2>3
<1>8. ShrinksInv'
  BY <1>2, <1>3 DEF ShrinksInv
<1>9. ~shouldKeepRunning /\ OnceInv /\ UNCHANGED JustOnce => OnceInv'
  BY <1>2, <1>3 DEF OnceInv
<1> QED
  BY <1>5, <1>6, <1>7, <1>8, <1>9 DEF ListInv, L

LEMMA ShrinkList ==
  ASSUME Inv, ListInv, ShrinksInv, NEW n \in Nat, Shrink(n)
  PROVE  /\ ListInv' /\ ShrinksInv' /\ Len(connections') = n
         /\ \A i \in Ids : Listed(i)' => Listed(i)
<1> DEFINE popped == {connections[k] : k \in n + 1 .. Len(connections)}
<1>1. /\ conns' = [i \in Ids |-> IF i \in popped THEN stopRunning(conns[i]) ELSE conns[i]]
      /\ n <= Len(connections) /\ connections' = SubSeq(connections, 1, n)
  BY DEF Shrink
<1>2. connections \in Seq(Ids) /\ Len(connections) \in Nat
  BY DEF Inv, TypeOK
<1>3. Ids' = Ids
  BY ShrinkArmed
<1>4. Len(connections') = n /\ \A m \in 1 .. n : connections'[m] = connections[m]
  BY <1>1, <1>2
<1>5. \A m \in 1 .. n : m \in 1 .. Len(connections)
  BY <1>1, <1>2
<1>6. \A i \in Ids : i \in popped <=> Listed(i) /\ ~Listed(i)'
  <2>1. TAKE i \in Ids
  <2>2. ASSUME i \in popped
        PROVE  Listed(i) /\ ~Listed(i)'
    <3>1. PICK k \in n + 1 .. Len(connections) : connections[k] = i
      BY <2>2
    <3>2. k \in 1 .. Len(connections) /\ k \notin 1 .. n
      BY <1>2, <3>1
    <3>3. \A m \in 1 .. n : connections[m] # i
      BY <1>5, <3>1, <3>2 DEF ListInv
    <3> QED
      BY <1>4, <3>1, <3>2, <3>3 DEF Listed
  <2>3. ASSUME Listed(i), ~Listed(i)'
        PROVE  i \in popped
    <3>1. PICK k \in 1 .. Len(connections) : connections[k] = i
      BY <2>3 DEF Listed
    <3>2. k \notin 1 .. n
      BY <1>4, <2>3, <3>1 DEF Listed
    <3>3. k \in n + 1 .. Len(connections)
      BY <1>2, <3>1, <3>2
    <3> QED
      BY <3>1, <3>3
  <2> QED
    BY <2>2, <2>3
<1> HIDE DEF popped
<1>7. \A i \in Ids : Listed(i)' => Listed(i)
  BY <1>4, <1>5 DEF Listed
<1>8. \A j, m \in 1 .. Len(connections') : connections'[j] = connections'[m] => j = m
  BY <1>4, <1>5 DEF ListInv
<1>9. \A i \in Ids : /\ conns'[i].keepRunning <=> (conns[i].keepRunning /\ i \notin popped)
                     /\ ShrinkInv(conns[i]) => ShrinkInv(conns'[i])
  <2>1. TAKE i \in Ids
  <2>2. conns[i] \in Connection
    BY DEF Inv, TypeOK, Ids
  <2>3. CASE i \in popped
    <3>1. conns'[i] = [conns[i] EXCEPT !.keepRunning = FALSE]
      BY <1>1, <2>3 DEF stopRunning
    <3>2. /\ conns'[i].keepRunning = FALSE /\ conns'[i].timer = conns[i].timer
          /\ conns'[i].needsOpen = conns[i].needsOpen
          /\ conns'[i].afterShrink = conns[i].afterShrink
      BY <2>2, <3>1 DEF Connection
    <3> QED
      BY <2>3, <3>2 DEF ShrinkInv
  <2>4. CASE i \notin popped
    BY <1>1, <2>4
  <2> QED
    BY <2>3, <2>4
<1>10. \A i \in Ids : conns'[i].keepRunning <=> Listed(i)'
  BY <1>6, <1>7, <1>9 DEF ListInv
<1> QED
  BY <1>3, <1>4, <1>7, <1>8, <1>9, <1>10 DEF ListInv, ShrinksInv

LEMMA ResizeInvInit == Init => ResizeInv
<1> SUFFICES ASSUME Init PROVE ResizeInv
  OBVIOUS
<1>1. /\ conns = <<>> /\ connections = <<>> /\ commands = <<>>
      /\ threadAt = "none" /\ requested = NumConnections /\ Ids = {}
  BY DEF Init, Ids
<1> QED
  BY <1>1 DEF ResizeInv, ListInv, Wanted, OnceInv, ShrinksInv

\* What the lists and the connections say is left alone.
LEMMA QuietList ==
  ASSUME UNCHANGED <<conns, connections>>
  PROVE  /\ (\A i : Listed(i)' <=> Listed(i))
         /\ ListInv => ListInv'
         /\ ShrinksInv => ShrinksInv'
         /\ OnceInv /\ UNCHANGED JustOnce => OnceInv'
BY DEF Listed, ListInv, ShrinksInv, OnceInv, Ids

LEMMA CallerResize ==
  ASSUME Inv, LifeInv, ResizeInv, CallerNext
  PROVE  ResizeInv'
<1> USE DEF ResizeInv
<1>1. CASE Start
  <2>1. /\ commands = <<>> /\ commands' = <<>> /\ UNCHANGED <<JustOnce, requested, conns, connections>>
        /\ threadAt = "none" /\ threadAt' = "create"
    BY <1>1 DEF Start, LifeInv
  <2>2. Wanted'
    BY <2>1 DEF Wanted
  <2> QED
    BY <2>1, <2>2, QuietList
<1>2. ASSUME NEW c \in Command, commands' = Append(commands, c),
             UNCHANGED <<JustOnce, threadAt, conns, connections>>,
             \/ c.cmd = "SET_CONNECTIONS" /\ requested' = c.newNumConnections
             \/ c.cmd = "STOP" /\ requested' = requested
      PROVE  ResizeInv'
  <2>1. /\ Len(commands') = Len(commands) + 1 /\ commands'[Len(commands')] = c
        /\ Len(commands) \in Nat
        /\ \A k \in 1 .. Len(commands) : k \in 1 .. Len(commands') /\ commands'[k] = commands[k]
        /\ \A k \in 1 .. Len(commands') : k # Len(commands') => k \in 1 .. Len(commands)
    BY <1>2, AppendCommand
  <2>2. Len(commands') \in 1 .. Len(commands')
    BY <2>1
  <2>3. CASE c.cmd = "SET_CONNECTIONS"
    <3>1. \A j \in 1 .. Len(commands') : ~(j > Len(commands'))
      BY <2>1
    <3>2. requested' = c.newNumConnections
      BY <1>2, <2>3
    <3>3. Wanted'
      BY <2>1, <2>2, <2>3, <3>1, <3>2 DEF Wanted
    <3> QED
      BY <1>2, <3>3, QuietList
  <2>4. CASE c.cmd = "STOP"
    <3>1. requested' = requested
      BY <1>2, <2>4
    <3>2. ASSUME NEW k \in 1 .. Len(commands),
                 commands[k].cmd = "SET_CONNECTIONS", commands[k].newNumConnections = requested,
                 \A j \in 1 .. Len(commands) : j > k => commands[j].cmd = "STOP"
          PROVE  Wanted'
      <4>1. k \in 1 .. Len(commands') /\ commands'[k] = commands[k]
        BY <2>1
      <4>2. \A j \in 1 .. Len(commands') : j > k => commands'[j].cmd = "STOP"
        BY <2>1, <2>4, <3>2
      <4> QED
        BY <3>1, <3>2, <4>1, <4>2 DEF Wanted
    <3>3. ASSUME \A j \in 1 .. Len(commands) : commands[j].cmd = "STOP",
                 threadAt = "run" => Len(connections) = requested,
                 threadAt \notin {"run", "exited"} => requested = NumConnections
          PROVE  Wanted'
      <4>1. \A j \in 1 .. Len(commands') : commands'[j].cmd = "STOP"
        BY <2>1, <2>4, <3>3
      <4>2. UNCHANGED <<threadAt, connections>>
        BY <1>2
      <4> QED
        BY <3>1, <3>3, <4>1, <4>2 DEF Wanted
    <3>4. Wanted'
      BY <3>2, <3>3 DEF Wanted
    <3> QED
      BY <1>2, <3>4, QuietList
  <2> QED
    BY <1>2, <2>3, <2>4
<1>3. ASSUME NEW n \in ResizeTargets, SetNumConnections(n)
      PROVE  ResizeInv'
  <2> DEFINE c == [cmd |-> "SET_CONNECTIONS", newNumConnections |-> n]
  <2>1. c \in Command /\ c.cmd = "SET_CONNECTIONS" /\ c.newNumConnections = n
    BY DEF Command
  <2> HIDE DEF c
  <2>2. /\ commands' = Append(commands, c) /\ requested' = n
        /\ UNCHANGED <<JustOnce, threadAt, conns, connections>>
    BY <1>3 DEF SetNumConnections, loopVars, c
  <2> QED
    BY <1>2, <2>1, <2>2
<1>4. CASE RequestStop
  <2> DEFINE c == [cmd |-> "STOP"]
  <2>1. c \in Command /\ c.cmd = "STOP"
    BY DEF Command
  <2> HIDE DEF c
  <2>2. /\ commands' = Append(commands, c) /\ requested' = requested
        /\ UNCHANGED <<JustOnce, threadAt, conns, connections>>
    BY <1>4 DEF RequestStop, loopVars, c
  <2> QED
    BY <1>2, <2>1, <2>2
<1>5. CASE ev_async_send \/ Join
  <2>1. UNCHANGED <<JustOnce, requested, threadAt, commands, conns, connections>>
    BY <1>5 DEF ev_async_send, Join, loopVars
  <2>2. Wanted'
    BY <2>1 DEF Wanted
  <2> QED
    BY <2>1, <2>2, QuietList
<1>6. CASE Destroy
  <2>1. /\ threadAt = "exited" /\ UNCHANGED <<JustOnce, requested, threadAt, commands>>
        /\ conns' = <<>> /\ connections' = <<>> /\ Ids' = {}
    BY <1>6 DEF Destroy, Inv, loopVars, Ids
  <2>2. Wanted'
    BY <2>1 DEF Wanted
  <2> QED
    BY <2>1, <2>2 DEF ListInv, OnceInv, ShrinksInv
<1> QED
  BY <1>1, <1>3, <1>4, <1>5, <1>6 DEF CallerNext

LEMMA ThreadResize ==
  ASSUME Inv, LifeInv, ResizeInv, StartupNext \/ CommandNext
  PROVE  ResizeInv'
<1> USE DEF ResizeInv
<1>0. callback # Idle => threadAt = "run"
  BY DEF Inv
<1>1. CASE CreateLoop \/ StartAsync
  <2>1. /\ UNCHANGED <<JustOnce, requested, commands, conns, connections>>
        /\ threadAt \in {"create", "async"} /\ threadAt' \in {"async", "connect"}
    BY <1>1 DEF CreateLoop, StartAsync, callerVars
  <2>2. Wanted'
    BY <2>1 DEF Wanted
  <2> QED
    BY <2>1, <2>2, QuietList
<1>2. CASE StartConnection
  <2>1. /\ AddConnections(1) /\ threadAt = "connect"
        /\ UNCHANGED <<JustOnce, requested, threadAt, commands>>
    BY <1>2 DEF StartConnection, callerVars, loopVars
  <2>2. Wanted'
    BY <2>1 DEF Wanted
  <2>3. JustOnce => ~shouldKeepRunning
    BY <2>1 DEF LifeInv, Inv, shouldKeepRunning
  <2>4. ListInv' /\ ShrinksInv' /\ (~shouldKeepRunning => OnceInv')
    BY <2>1, GrowList
  <2>5. ~JustOnce => OnceInv'
    BY <2>1 DEF OnceInv
  <2> QED
    BY <2>2, <2>3, <2>4, <2>5
<1>3. CASE EnterLoop
  <2>1. /\ UNCHANGED <<JustOnce, requested, commands, conns, connections>>
        /\ threadAt = "connect" /\ threadAt' = "run" /\ Len(connections) = NumConnections
    BY <1>3 DEF EnterLoop, callerVars
  <2>2. Wanted'
    BY <2>1 DEF Wanted
  <2> QED
    BY <2>1, <2>2, QuietList
<1>4. CASE AsyncReady \/ CommandsDone
  <2>1. UNCHANGED <<JustOnce, requested, threadAt, commands, conns, connections>>
    BY <1>4 DEF AsyncReady, CommandsDone, callerVars, loopVars
  <2>2. Wanted'
    BY <2>1 DEF Wanted
  <2> QED
    BY <2>1, <2>2, QuietList
<1>5. CASE ProcessStop
  <2>1. /\ Pop /\ commands[1].cmd = "STOP"
        /\ UNCHANGED <<JustOnce, requested, threadAt, conns, connections>>
    BY <1>5, PopCommand DEF ProcessStop, callerVars
  <2>2. Len(commands) = 1 /\ Len(commands') = 0
    BY <2>1, PopCommand DEF LifeInv
  <2>3. ASSUME NEW k \in 1 .. Len(commands), commands[k].cmd = "SET_CONNECTIONS"
        PROVE  FALSE
    <3>1. k = 1
      BY <2>2
    <3> QED
      BY <2>1, <2>3, <3>1
  <2>4. Wanted'
    BY <2>1, <2>2, <2>3 DEF Wanted
  <2> QED
    BY <2>1, <2>4, QuietList
<1>6. CASE ProcessSetConnections
  <2> DEFINE n == commands[1].newNumConnections
  <2>1. /\ Pop /\ commands[1].cmd = "SET_CONNECTIONS" /\ commands[1] \in Command
        /\ setNumConnections(n) /\ threadAt = "run"
        /\ UNCHANGED <<JustOnce, requested, threadAt, keepRunning>>
    BY <1>0, <1>6, PopCommand
    DEF ProcessSetConnections, callerVars, loopVars, Idle, ProcessingCommands
  <2>2. n \in Nat
    BY <2>1, ThreadAssumption DEF Command
  <2>3. /\ Len(commands) \in Nat /\ Len(commands) > 0 /\ Len(commands') = Len(commands) - 1
        /\ \A k \in 1 .. Len(commands') :
             k + 1 \in 1 .. Len(commands) /\ commands'[k] = commands[k + 1]
    BY <2>1, PopCommand
  <2> HIDE DEF n
  <2>4. ListInv' /\ ShrinksInv' /\ Len(connections') = n
    <3>1. CASE Grow(n)
      <4>1. n - Len(connections) \in Nat /\ AddConnections(n - Len(connections))
            /\ Len(connections) \in Nat
        BY <2>2, <3>1 DEF Grow, Inv, TypeOK
      <4>2. Len(connections) + (n - Len(connections)) = n
        BY <2>2, <4>1
      <4> QED
        BY <4>1, <4>2, GrowList
    <3>2. CASE Shrink(n)
      BY <2>2, <3>2, ShrinkList
    <3> QED
      BY <2>1, <3>1, <3>2 DEF setNumConnections
  <2>5. Wanted'
    <3>1. ASSUME NEW k \in 1 .. Len(commands),
                 commands[k].cmd = "SET_CONNECTIONS", commands[k].newNumConnections = requested,
                 \A j \in 1 .. Len(commands) : j > k => commands[j].cmd = "STOP"
          PROVE  Wanted'
      <4>1. CASE k = 1
        <5>1. \A j \in 1 .. Len(commands') : commands'[j].cmd = "STOP"
          <6>1. TAKE j \in 1 .. Len(commands')
          <6>2. j + 1 > k
            BY <4>1
          <6> QED
            BY <2>3, <3>1, <6>2
        <5>2. Len(connections') = requested'
          BY <2>1, <2>4, <3>1, <4>1 DEF n
        <5> QED
          BY <2>1, <5>1, <5>2 DEF Wanted
      <4>2. CASE k # 1
        <5> DEFINE m == k - 1
        <5>1. m \in 1 .. Len(commands') /\ m + 1 = k
          BY <2>3, <4>2
        <5>2. commands'[m] = commands[k]
          BY <2>3, <5>1
        <5>3. \A j \in 1 .. Len(commands') : j > m => commands'[j].cmd = "STOP"
          <6>1. TAKE j \in 1 .. Len(commands')
          <6>2. j > m => j + 1 > k
            BY <5>1
          <6> QED
            BY <2>3, <3>1, <6>2
        <5> HIDE DEF m
        <5> QED
          BY <2>1, <3>1, <5>1, <5>2, <5>3 DEF Wanted
      <4> QED
        BY <4>1, <4>2
    <3>2. ~\A j \in 1 .. Len(commands) : commands[j].cmd = "STOP"
      BY <2>1, <2>3
    <3> QED
      BY <3>1, <3>2 DEF Wanted
  <2>6. ~JustOnce
    BY <2>1 DEF LifeInv, Pop
  <2> QED
    BY <2>1, <2>4, <2>5, <2>6 DEF OnceInv
<1> QED
  BY <1>1, <1>2, <1>3, <1>4, <1>5, <1>6 DEF StartupNext, CommandNext

LEMMA CallbackResize ==
  ASSUME Inv, LifeInv, ResizeInv, NEW i \in Ids, ConnectionNext(i)
  PROVE  ResizeInv'
<1> USE DEF ResizeInv
<1>1. PICK c : /\ Outcome(conns[i], c, shouldKeepRunning) /\ Update(i, c)
               /\ threadAt = "run"
  BY CallbackLemma
<1>2. ConnInv(conns[i], shouldKeepRunning) /\ shouldKeepRunning \in BOOLEAN
      /\ ShrinkInv(conns[i])
  BY DEF Inv, ConnsInv, ShrinksInv, shouldKeepRunning
<1>3. Follows(conns[i], c, shouldKeepRunning) /\ ConnInv(c, shouldKeepRunning)
  BY <1>1, <1>2, OutcomeFollows, OutcomeLemma
<1>4. UNCHANGED <<JustOnce, requested, threadAt, keepRunning, commands, connections>>
      /\ conns' = [conns EXCEPT ![i] = c]
  BY <1>1 DEF Update, callerVars, loopVars
<1>5. Ids' = Ids /\ conns'[i] = c /\ \A j \in Ids \ {i} : conns'[j] = conns[j]
  BY <1>4 DEF Ids, Inv, TypeOK
<1>6. Wanted'
  BY <1>4 DEF Wanted
<1>7. ListInv'
  BY <1>3, <1>4, <1>5 DEF ListInv, Listed, Follows
<1>8. ShrinksInv'
  BY <1>3, <1>5 DEF ShrinksInv, Follows
<1>9. OnceInv'
  <2>1. SUFFICES ASSUME JustOnce
                 PROVE  c.afterStop = IF c.timer THEN 0 ELSE 1
    BY <1>4, <1>5 DEF OnceInv
  <2>2. ~shouldKeepRunning
    BY <1>1, <2>1 DEF LifeInv, Inv, shouldKeepRunning
  <2>3. conns[i].afterStop = IF conns[i].timer THEN 0 ELSE 1
    BY <2>1 DEF OnceInv
  <2>4. AddCapped(0, TRUE) = 1
    BY DEF AddCapped, LateCap
  <2> QED
    BY <1>3, <2>2, <2>3, <2>4 DEF Follows
<1> QED
  BY <1>6, <1>7, <1>8, <1>9

LEMMA ResizeInvStep ==
  ASSUME Inv, LifeInv, ResizeInv, [Next]_vars
  PROVE  ResizeInv'
<1>1. CASE HardShutdown \/ ExitLoop \/ Terminated \/ UNCHANGED vars
  <2>1. /\ UNCHANGED <<JustOnce, requested, commands, conns, connections>>
        /\ threadAt' \in {threadAt, "exited"}
    BY <1>1 DEF HardShutdown, ExitLoop, Terminated, vars, callerVars, loopVars
  <2>2. Wanted => Wanted'
    BY <2>1 DEF Wanted
  <2> QED
    BY <2>1, <2>2, QuietList DEF ResizeInv
<1> QED
  BY <1>1, CallerResize, ThreadResize, CallbackResize DEF Next

\* The queue, the list and the connections agree, for any caller.
LEMMA ResizeInvariance == Spec => [](Inv /\ LifeInv /\ RefsInv /\ ResizeInv)
<1>1. Inv /\ LifeInv /\ ResizeInv /\ [Next]_vars => ResizeInv'
  BY ResizeInvStep
<1> QED
  BY <1>1, ResizeInvInit, LifeInvariance, PTL DEF Spec

\* However many SetNumConnections are queued, and whatever becomes of the dropped
\* connections meanwhile, processCommands ends with the number that was asked for last.
THEOREM ResizesApplied == Spec => []ResizeApplied
<1>1. Inv /\ LifeInv /\ ResizeInv => ResizeApplied
  <2> SUFFICES ASSUME Inv, LifeInv, ResizeInv, threadAt = "run", commands = <<>>, callerAt # "new"
               PROVE  /\ Len(connections) = requested
                      /\ \A i \in Ids : conns[i].keepRunning <=>
                                          \E k \in DOMAIN connections : connections[k] = i
    BY DEF ResizeApplied
  <2>1. Len(connections) = requested
    <3>1. Len(commands) = 0
      OBVIOUS
    <3> QED
      BY <3>1 DEF ResizeInv, Wanted
  <2>2. DOMAIN connections = 1 .. Len(connections)
    BY DEF Inv, TypeOK
  <2> QED
    BY <2>1, <2>2 DEF ResizeInv, ListInv, Listed
<1> QED
  BY <1>1, ResizeInvariance, PTL

\* ConnectAndSend retries failed connects until it could send once, and recycle,
\* finding keepRunning at zero, never lets a second request follow.
THEOREM OneRequestEach == Spec => []JustOneRequest
<1>1. Inv /\ LifeInv /\ RefsInv /\ ResizeInv => JustOneRequest
  <2> SUFFICES ASSUME Inv, LifeInv, RefsInv, ResizeInv, JustOnce, threadAt = "exited",
                      NEW i \in Ids
               PROVE  conns[i].afterStop = 1
    BY DEF JustOneRequest
  <2>1. ~Alive(conns[i])
    BY DEF LifeInv, RefsInv
  <2> QED
    BY <2>1 DEF ResizeInv, OnceInv, Alive
<1> QED
  BY <1>1, ResizeInvariance, PTL

\* CloseDone asks keepRunning_ before it connects again; only a connection that was
\* already thinking or waiting to retry when stopRunning came still connects.
THEOREM DismissedConnectOnce == Spec => []AtMostOneConnectAfterShrink
<1>1. ResizeInv => AtMostOneConnectAfterShrink
  BY DEF ResizeInv, ShrinksInv, ShrinkInv, AtMostOneConnectAfterShrink
<1> QED
  BY <1>1, ResizeInvariance, PTL

-----------------------------------------------------------------------------
(***************************************************************************)
(* The refinement.                                                         *)
(***************************************************************************)
Slot == 1 .. MaxConnections
Kept == {connections[k] : k \in DOMAIN connections}
Phase == IF threadAt = "exited" THEN "over" ELSE IF keepRunning = 0 THEN "ending" ELSE "running"
Late == {i \in Ids : conns[i].afterStop > 0}

PoolStep == Pool!PoolNext \/ UNCHANGED Pool!poolVars

LEMMA PoolStutter ==
  ASSUME \A i \in Slot : SlotOf(i)' = SlotOf(i), UNCHANGED <<Kept, Phase, Late>>
  PROVE  PoolStep
BY DEF PoolStep, Pool!poolVars, Slot, Kept, Phase, Late

LEMMA PoolBegin ==
  ASSUME NEW s \in Slot, Phase # "over", SlotOf(s) \in {"idle", "busy"},
         Phase = "running" \/ s \notin Late,
         SlotOf(s)' = "busy", \A i \in Slot \ {s} : SlotOf(i)' = SlotOf(i),
         Late' = IF Phase = "running" THEN Late ELSE Late \cup {s}, UNCHANGED <<Kept, Phase>>
  PROVE  PoolStep
<1>1. Pool!Begin(s)
  BY DEF Pool!Begin, Pool!MayBegin, Pool!Begun, Slot, Kept, Phase, Late
<1> QED
  BY <1>1 DEF PoolStep, Pool!PoolNext, Slot

LEMMA PoolFinish ==
  ASSUME NEW s \in Slot, Phase # "over", SlotOf(s) = "busy",
         SlotOf(s)' = "idle", \A i \in Slot \ {s} : SlotOf(i)' = SlotOf(i),
         UNCHANGED <<Kept, Phase, Late>>
  PROVE  PoolStep
<1>1. Pool!Finish(s)
  BY DEF Pool!Finish, Slot, Kept, Phase, Late
<1> QED
  BY <1>1 DEF PoolStep, Pool!PoolNext, Slot

LEMMA PoolRetire ==
  ASSUME NEW s \in Slot, Phase # "over", SlotOf(s) \in {"idle", "busy"},
         Phase = "ending" \/ s \notin Kept,
         SlotOf(s)' = "done", \A i \in Slot \ {s} : SlotOf(i)' = SlotOf(i),
         UNCHANGED <<Kept, Phase, Late>>
  PROVE  PoolStep
<1>1. Pool!Retire(s)
  BY DEF Pool!Retire, Slot, Kept, Phase, Late
<1> QED
  BY <1>1 DEF PoolStep, Pool!PoolNext, Slot

LEMMA PoolBeginEnding ==
  ASSUME Phase = "running", Phase' = "ending",
         \A i \in Slot : SlotOf(i)' = SlotOf(i), UNCHANGED <<Kept, Late>>
  PROVE  PoolStep
<1>1. Pool!BeginEnding
  BY DEF Pool!BeginEnding, Slot, Kept, Phase, Late
<1> QED
  BY <1>1 DEF PoolStep, Pool!PoolNext

LEMMA PoolEnd ==
  ASSUME Phase = "ending", Phase' = "over",
         \A i \in Slot : SlotOf(i)' = SlotOf(i), UNCHANGED <<Kept, Late>>
  PROVE  PoolStep
<1>1. Pool!End
  BY DEF Pool!End, Slot, Kept, Phase, Late
<1> QED
  BY <1>1 DEF PoolStep, Pool!PoolNext

LEMMA PoolDrop ==
  ASSUME Phase = "over", Phase' = "over",
         \A i \in Slot : SlotOf(i)' = "none", Kept' = {}, Late' = {}
  PROVE  PoolStep
<1>1. Pool!Drop
  BY DEF Pool!Drop, Slot, Kept, Phase, Late
<1> QED
  BY <1>1 DEF PoolStep, Pool!PoolNext

LEMMA PoolDismiss ==
  ASSUME NEW S, S \subseteq Slot, Kept' = Kept \ S,
         \A i \in Slot : SlotOf(i)' = SlotOf(i), UNCHANGED <<Phase, Late>>
  PROVE  PoolStep
<1>1. Pool!Dismiss(S)
  BY DEF Pool!Dismiss, Slot, Kept, Phase, Late
<1> QED
  BY <1>1 DEF PoolStep, Pool!PoolNext, Slot

LEMMA PoolOpen ==
  ASSUME Phase # "over", NEW S, S \subseteq Slot, \A s \in S : SlotOf(s) = "none",
         NEW busy, busy \subseteq S, Kept' = Kept \cup S,
         \A i \in Slot : SlotOf(i)' = IF i \in busy THEN "busy"
                                      ELSE IF i \in S THEN "idle" ELSE SlotOf(i),
         Late' = IF Phase = "running" THEN Late ELSE Late \cup busy, UNCHANGED Phase
  PROVE  PoolStep
<1>1. Pool!Open(S)
  <2>1. busy \in SUBSET S
    OBVIOUS
  <2> QED
    BY <2>1 DEF Pool!Open, Pool!Begun, Slot, Kept, Phase, Late
<1> QED
  BY <1>1 DEF PoolStep, Pool!PoolNext, Slot

\* A connection's slot.
LEMMA SlotCases ==
  ASSUME NEW i \in Ids
  PROVE  /\ InRequest(conns[i]) => SlotOf(i) = "busy"
         /\ ~InRequest(conns[i]) /\ Alive(conns[i]) => SlotOf(i) = "idle"
         /\ ~Alive(conns[i]) => SlotOf(i) = "done"
BY DEF SlotOf, InRequest, Alive

LEMMA IdsAreSlots ==
  ASSUME Inv
  PROVE  Ids \subseteq Slot /\ Kept \subseteq Ids
<1>1. Len(conns) \in Nat /\ Len(conns) <= MaxConnections /\ MaxConnections \in Nat
      /\ connections \in Seq(Ids)
  BY ThreadAssumption DEF Inv, TypeOK
<1> QED
  BY <1>1 DEF Ids, Slot, Kept

LEMMA KeptIsListed ==
  ASSUME Inv
  PROVE  \A i : i \in Kept <=> Listed(i)
<1>1. DOMAIN connections = 1 .. Len(connections)
  BY DEF Inv, TypeOK
<1> QED
  BY <1>1 DEF Kept, Listed

LEMMA QuietPool ==
  ASSUME UNCHANGED <<conns, connections>>
  PROVE  (\A i \in Slot : SlotOf(i)' = SlotOf(i)) /\ UNCHANGED <<Kept, Late>>
BY DEF SlotOf, Kept, Late, Ids

LEMMA CallbackRefines ==
  ASSUME Inv, LifeInv, ResizeInv, NEW i \in Ids, ConnectionNext(i)
  PROVE  PoolStep
<1>1. PICK d : /\ Outcome(conns[i], d, shouldKeepRunning) /\ Update(i, d)
               /\ threadAt = "run"
  BY CallbackLemma
<1> DEFINE c == conns[i]
           run == shouldKeepRunning
<1>2. ConnInv(c, run) /\ run \in BOOLEAN /\ ShrinkInv(c)
  BY DEF Inv, ConnsInv, ResizeInv, ShrinksInv, shouldKeepRunning
<1>3. Follows(c, d, run) /\ ConnInv(d, run)
  BY <1>1, <1>2, OutcomeFollows, OutcomeLemma
<1>4. /\ UNCHANGED <<threadAt, keepRunning, connections>>
      /\ conns' = [conns EXCEPT ![i] = d]
  BY <1>1 DEF Update, callerVars, loopVars
<1>5. Ids' = Ids /\ conns'[i] = d /\ \A j \in Ids \ {i} : conns'[j] = conns[j]
  BY <1>4 DEF Ids, Inv, TypeOK
<1>6. i \in Slot /\ \A j \in Slot \ {i} : SlotOf(j)' = SlotOf(j)
  BY <1>5, IdsAreSlots DEF SlotOf
<1>7. UNCHANGED <<Kept, Phase>> /\ Phase = IF run THEN "running" ELSE "ending"
  BY <1>1, <1>4 DEF Kept, Phase, shouldKeepRunning
<1>8. /\ InRequest(c) => SlotOf(i) = "busy"
      /\ ~InRequest(c) => SlotOf(i) = "idle"
      /\ InRequest(d) => SlotOf(i)' = "busy"
      /\ ~InRequest(d) /\ Alive(d) => SlotOf(i)' = "idle"
      /\ ~Alive(d) => SlotOf(i)' = "done"
  <2>1. Alive(c)
    BY <1>1 DEF Outcome, Alive
  <2> QED
    BY <1>5, <2>1, SlotCases DEF SlotOf, InRequest, Alive
<1>9. /\ i \in Late <=> c.afterStop > 0
      /\ i \in Late' <=> d.afterStop > 0
      /\ \A j : j # i => (j \in Late <=> j \in Late')
  BY <1>5 DEF Late
<1> HIDE DEF c, run
<1>10. c.afterStop \in Nat /\ d.afterStop \in Nat
  BY <1>2, <1>3, FieldTypes DEF ConnInv
<1>11. ~run /\ InRequest(d) /\ c.timer => ~(c.afterStop > 0) /\ d.afterStop > 0
  <2>1. AddCapped(0, TRUE) = 1
    BY DEF AddCapped, LateCap
  <2>2. c.timer => c.afterStop = 0
    BY <1>2 DEF ConnInv
  <2>3. InRequest(d) => ~d.timer
    BY <1>3 DEF ConnInv, InRequest
  <2>4. ~run /\ InRequest(d) /\ c.timer => d.afterStop = AddCapped(c.afterStop, TRUE)
    BY <1>3, <2>3 DEF Follows
  <2>5. ~run /\ InRequest(d) /\ c.timer => c.afterStop = 0 /\ d.afterStop = 1
    BY <2>1, <2>2, <2>4
  <2> QED
    BY <2>5
<1>12. ~(~run /\ InRequest(d) /\ c.timer) => Late' = Late
  <2>1. run => c.afterStop = 0 /\ d.afterStop = 0
    BY <1>2, <1>3 DEF ConnInv
  <2>2. ~run /\ ~(InRequest(d) /\ c.timer) => d.afterStop = c.afterStop
    BY <1>3 DEF Follows
  <2>3. ~(~run /\ InRequest(d) /\ c.timer) => (i \in Late <=> i \in Late')
    BY <1>2, <1>9, <2>1, <2>2
  <2> QED
    BY <1>9, <2>3
<1>13. CASE InRequest(d) /\ run
  <2>1. Late' = Late /\ Phase = "running" /\ SlotOf(i) \in {"idle", "busy"}
    BY <1>7, <1>8, <1>12, <1>13
  <2> QED
    BY <1>6, <1>7, <1>8, <1>13, <2>1, PoolBegin
<1>14. CASE InRequest(d) /\ ~run /\ c.timer
  <2>1. i \notin Late /\ Late' = Late \cup {i}
    BY <1>9, <1>11, <1>14
  <2>2. Phase = "ending" /\ SlotOf(i) \in {"idle", "busy"}
    BY <1>7, <1>8, <1>14
  <2> QED
    BY <1>6, <1>7, <1>8, <1>14, <2>1, <2>2, PoolBegin
<1>15. CASE InRequest(d) /\ ~run /\ ~c.timer
  <2>1. InRequest(c)
    BY <1>3, <1>15 DEF Follows
  <2>2. SlotOf(i)' = SlotOf(i) /\ Late' = Late
    BY <1>8, <1>12, <1>15, <2>1
  <2>3. \A j \in Slot : SlotOf(j)' = SlotOf(j)
    BY <1>6, <2>2
  <2> QED
    BY <1>7, <2>2, <2>3, PoolStutter
<1>16. CASE ~InRequest(d) /\ Alive(d)
  <2>1. SlotOf(i)' = "idle" /\ Late' = Late /\ Phase # "over"
    BY <1>2, <1>7, <1>8, <1>12, <1>16
  <2>2. CASE InRequest(c)
    BY <1>6, <1>7, <1>8, <2>1, <2>2, PoolFinish
  <2>3. CASE ~InRequest(c)
    <3>1. \A j \in Slot : SlotOf(j)' = SlotOf(j)
      BY <1>6, <1>8, <2>1, <2>3
    <3> QED
      BY <1>7, <2>1, <3>1, PoolStutter
  <2> QED
    BY <2>2, <2>3
<1>17. CASE ~Alive(d)
  <2>1. /\ SlotOf(i)' = "done" /\ Late' = Late /\ Phase # "over"
        /\ SlotOf(i) \in {"idle", "busy"}
    BY <1>2, <1>7, <1>8, <1>12, <1>17 DEF InRequest, Alive
  <2>2. run => i \notin Kept
    <3>1. run => ~c.keepRunning
      BY <1>3, <1>17 DEF ConnInv, Follows
    <3>2. c.keepRunning <=> i \in Kept
      BY KeptIsListed DEF ResizeInv, ListInv, c
    <3> QED
      BY <3>1, <3>2
  <2> QED
    BY <1>2, <1>6, <1>7, <2>1, <2>2, PoolRetire
<1> QED
  BY <1>2, <1>13, <1>14, <1>15, <1>16, <1>17

LEMMA GrowRefines ==
  ASSUME Inv, Inv', NEW k \in Nat, AddConnections(k),
         UNCHANGED <<threadAt, keepRunning>>, threadAt # "exited"
  PROVE  PoolStep
<1>1. PICK new \in [1 .. k -> StartConnect(NewConnection, shouldKeepRunning)] :
        /\ conns' = conns \o new
        /\ connections' = connections \o [j \in 1 .. k |-> Len(conns) + j]
  BY DEF AddConnections
<1>2. /\ Len(conns) \in Nat /\ Ids = 1 .. Len(conns) /\ Ids' = 1 .. (Len(conns) + k)
      /\ \A i \in Ids : i \in Ids' /\ conns'[i] = conns[i]
      /\ \A i \in Ids' \ Ids : i - Len(conns) \in 1 .. k /\ conns'[i] = new[i - Len(conns)]
  BY <1>1, Appended
<1> DEFINE S == Ids' \ Ids
           busy == {i \in S : InRequest(conns'[i])}
<1>3. S \subseteq Slot /\ busy \subseteq S
  <2>1. Ids' \subseteq Slot
    <3>1. Len(conns') \in Nat /\ Len(conns') <= MaxConnections /\ MaxConnections \in Nat
      BY ThreadAssumption DEF Inv, TypeOK
    <3> QED
      BY <3>1 DEF Ids, Slot
  <2> QED
    BY <2>1
<1>4. \A s \in S : SlotOf(s) = "none"
  BY DEF SlotOf
<1>5. \A i \in S :
        \/ InRequest(conns'[i]) /\ conns'[i].afterStop = IF shouldKeepRunning THEN 0 ELSE 1
        \/ ~InRequest(conns'[i]) /\ Alive(conns'[i]) /\ conns'[i].afterStop = 0
  <2>1. TAKE i \in S
  <2>2. conns'[i] \in StartConnect(NewConnection, shouldKeepRunning)
    BY <1>2
  <2> QED
    BY <2>2, StartConnectSent DEF Alive, shouldKeepRunning
<1>6. \A i \in Slot : SlotOf(i)' = IF i \in busy THEN "busy"
                                  ELSE IF i \in S THEN "idle" ELSE SlotOf(i)
  <2>1. TAKE i \in Slot
  <2>2. CASE i \in busy
    BY <2>2 DEF SlotOf
  <2>3. CASE i \in S /\ i \notin busy
    BY <1>5, <2>3 DEF SlotOf
  <2>4. CASE i \notin S
    BY <1>2, <2>4 DEF SlotOf
  <2> QED
    BY <1>3, <2>2, <2>3, <2>4
<1>7. Phase = (IF shouldKeepRunning THEN "running" ELSE "ending") /\ UNCHANGED Phase
  BY DEF Phase, shouldKeepRunning
<1>8. Kept' = Kept \cup S
  <2> DEFINE L == Len(connections)
             added == [j \in 1 .. k |-> Len(conns) + j]
  <2>1. connections \in Seq(Nat) /\ L \in Nat /\ added \in Seq(Nat) /\ Len(added) = k
    BY <1>2 DEF Inv, TypeOK
  <2>2. connections' = connections \o added
    BY <1>1
  <2>3. /\ DOMAIN connections = 1 .. L /\ DOMAIN connections' = 1 .. (L + k)
        /\ \A m \in 1 .. L : connections'[m] = connections[m]
        /\ \A m \in 1 .. (L + k) : m \notin 1 .. L =>
             connections'[m] = added[m - L] /\ m - L \in 1 .. k
        /\ \A j \in 1 .. k : connections'[L + j] = added[j] /\ L + j \in 1 .. (L + k)
    BY <2>1, <2>2, ConcatProperties
  <2>4. \A j \in 1 .. k : added[j] = Len(conns) + j
    OBVIOUS
  <2> HIDE DEF L, added
  <2>5. Kept' \subseteq Kept \cup S
    <3>1. ASSUME NEW m \in 1 .. (L + k)
          PROVE  connections'[m] \in Kept \cup S
      <4>1. CASE m \in 1 .. L
        BY <2>3, <4>1 DEF Kept
      <4>2. CASE m \notin 1 .. L
        <5>1. m - L \in 1 .. k /\ connections'[m] = Len(conns) + (m - L)
          BY <2>3, <2>4, <4>2
        <5>2. Len(conns) + (m - L) \in S
          BY <1>2, <5>1
        <5> QED
          BY <5>1, <5>2
      <4> QED
        BY <4>1, <4>2
    <3> QED
      BY <2>3, <3>1 DEF Kept
  <2>6. Kept \subseteq Kept'
    <3>1. \A m \in 1 .. L : m \in 1 .. (L + k)
      BY <2>1 DEF L
    <3> QED
      BY <2>3, <3>1 DEF Kept
  <2>7. S \subseteq Kept'
    <3>1. SUFFICES ASSUME NEW i \in S
                   PROVE  i \in Kept'
      OBVIOUS
    <3> DEFINE j == i - Len(conns)
    <3>2. j \in 1 .. k /\ i = Len(conns) + j
      BY <1>2
    <3> HIDE DEF j
    <3>3. connections'[L + j] = i /\ L + j \in DOMAIN connections'
      BY <2>3, <2>4, <3>2
    <3> QED
      BY <3>3 DEF Kept
  <2> QED
    BY <2>5, <2>6, <2>7
<1>9. Late' = IF Phase = "running" THEN Late ELSE Late \cup busy
  <2>1. \A i \in Ids : i \in Late' <=> i \in Late
    BY <1>2 DEF Late
  <2>2. \A i \in S : i \in Late' <=> (~shouldKeepRunning /\ i \in busy)
    BY <1>5 DEF Late
  <2>3. Late \subseteq Ids /\ Late' \subseteq Ids' /\ Ids' = Ids \cup S
    BY <1>2 DEF Late
  <2> QED
    BY <1>7, <2>1, <2>2, <2>3
<1>10. Phase # "over"
  BY <1>7
<1> HIDE DEF S, busy
<1> QED
  BY <1>3, <1>4, <1>6, <1>7, <1>8, <1>9, <1>10, PoolOpen

LEMMA ShrinkRefines ==
  ASSUME Inv, ResizeInv, NEW n \in Nat, Shrink(n), UNCHANGED <<threadAt, keepRunning>>
  PROVE  PoolStep
<1>1. Ids' = Ids /\ \A i \in Ids : conns'[i].io = conns[i].io /\ conns'[i].timer = conns[i].timer
  BY ShrinkArmed
<1>2. \A i \in Ids : conns'[i].afterStop = conns[i].afterStop
  <2> DEFINE popped == {connections[k] : k \in n + 1 .. Len(connections)}
  <2>1. conns' = [i \in Ids |-> IF i \in popped THEN stopRunning(conns[i]) ELSE conns[i]]
    BY DEF Shrink
  <2> HIDE DEF popped
  <2>2. \A i \in Ids : conns[i] \in Connection
    BY DEF Inv, TypeOK, Ids
  <2>3. \A i \in Ids : stopRunning(conns[i]).afterStop = conns[i].afterStop
    BY <2>2 DEF stopRunning, Connection
  <2> QED
    BY <2>1, <2>3
<1>3. \A i \in Slot : SlotOf(i)' = SlotOf(i)
  BY <1>1 DEF SlotOf, InRequest, Alive
<1>4. UNCHANGED <<Phase, Late>>
  BY <1>1, <1>2 DEF Phase, Late
<1>5. Kept' \subseteq Kept
  <2>1. connections \in Seq(Ids) /\ Len(connections) \in Nat
        /\ n <= Len(connections) /\ connections' = SubSeq(connections, 1, n)
    BY DEF Shrink, Inv, TypeOK
  <2>2. /\ DOMAIN connections' = 1 .. n /\ DOMAIN connections = 1 .. Len(connections)
        /\ \A m \in 1 .. n : connections'[m] = connections[m] /\ m \in 1 .. Len(connections)
    BY <2>1
  <2> QED
    BY <2>2 DEF Kept
<1>6. Kept' = Kept \ (Kept \ Kept') /\ Kept \ Kept' \subseteq Slot
  BY <1>5, IdsAreSlots
<1> QED
  BY <1>3, <1>4, <1>6, PoolDismiss

\* Each step of the thread or of its owner is a step of the pool, or none.
LEMMA StepRefines ==
  ASSUME Inv, Inv', LifeInv, RefsInv', ResizeInv, [Next]_vars
  PROVE  PoolStep
<1> USE DEF Phase
<1>0. /\ keepRunning \in {-1, 0, 1} /\ (callback # Idle => threadAt = "run")
      /\ callerAt \in {"joined", "destroyed"} => threadAt = "exited"
  BY DEF Inv, TypeOK
<1>1. CASE Start
  <2>1. /\ threadAt = "none" /\ threadAt' = "create" /\ UNCHANGED <<conns, connections>>
        /\ keepRunning # 0 /\ keepRunning' \in {0, 1}
    BY <1>1 DEF Start, LifeInv
  <2>2. Phase = "running" /\ Phase' \in {"running", "ending"}
    BY <2>1
  <2> QED
    BY <2>1, <2>2, QuietPool, PoolStutter, PoolBeginEnding
<1>2. CASE \/ \E n \in ResizeTargets : SetNumConnections(n)
           \/ RequestStop \/ ev_async_send \/ Join
           \/ AsyncReady \/ CommandsDone \/ HardShutdown \/ Terminated \/ UNCHANGED vars
  <2>1. UNCHANGED <<threadAt, keepRunning, conns, connections>>
    BY <1>2 DEF SetNumConnections, RequestStop, ev_async_send, Join, AsyncReady, CommandsDone,
                HardShutdown, Terminated, vars, loopVars
  <2>2. Phase' = Phase
    BY <2>1
  <2> QED
    BY <2>1, <2>2, QuietPool, PoolStutter
<1>3. CASE Destroy
  <2>1. /\ threadAt = "exited" /\ threadAt' = "exited"
        /\ Ids' = {} /\ connections' = <<>>
    BY <1>0, <1>3 DEF Destroy, loopVars, Ids
  <2>2. (\A i \in Slot : SlotOf(i)' = "none") /\ Kept' = {} /\ Late' = {}
    BY <2>1 DEF SlotOf, Kept, Late
  <2> QED
    BY <2>1, <2>2, PoolDrop
<1>4. CASE CreateLoop \/ StartAsync \/ EnterLoop
  <2>1. /\ UNCHANGED <<keepRunning, conns, connections>>
        /\ threadAt # "exited" /\ threadAt' # "exited"
    BY <1>4 DEF CreateLoop, StartAsync, EnterLoop
  <2>2. Phase' = Phase
    BY <2>1
  <2> QED
    BY <2>1, <2>2, QuietPool, PoolStutter
<1>5. CASE StartConnection
  <2>1. /\ AddConnections(1) /\ UNCHANGED <<threadAt, keepRunning>> /\ threadAt # "exited"
    BY <1>5 DEF StartConnection, loopVars
  <2> QED
    BY <2>1, GrowRefines
<1>6. CASE ProcessStop
  <2>1. /\ threadAt = "run" /\ threadAt' = "run" /\ keepRunning # 0 /\ keepRunning' = 0
        /\ UNCHANGED <<conns, connections>>
    BY <1>0, <1>6 DEF ProcessStop, Pop, LifeInv, Idle, ProcessingCommands
  <2>2. Phase = "running" /\ Phase' = "ending"
    BY <2>1
  <2> QED
    BY <2>1, <2>2, QuietPool, PoolBeginEnding
<1>7. CASE ProcessSetConnections
  <2> DEFINE n == Head(commands).newNumConnections
  <2>1. n \in Nat
    <3>1. Head(commands) \in Command /\ Head(commands).cmd = "SET_CONNECTIONS"
      BY <1>7, PopCommand DEF ProcessSetConnections
    <3> QED BY <3>1, ThreadAssumption DEF Command
  <2>2. /\ setNumConnections(n) /\ threadAt = "run" /\ UNCHANGED <<threadAt, keepRunning>>
    BY <1>0, <1>7 DEF ProcessSetConnections, loopVars, Idle, ProcessingCommands
  <2> HIDE DEF n
  <2>3. CASE Grow(n)
    <3>1. n - Len(connections) \in Nat /\ AddConnections(n - Len(connections))
      BY <2>1, <2>3 DEF Grow, Inv, TypeOK
    <3> QED
      BY <2>2, <3>1, GrowRefines
  <2>4. CASE Shrink(n)
    BY <2>1, <2>2, <2>4, ShrinkRefines
  <2> QED
    BY <2>2, <2>3, <2>4 DEF setNumConnections
<1>8. ASSUME NEW i \in Ids, ConnectionNext(i)
      PROVE  PoolStep
  BY <1>8, CallbackRefines
<1>9. CASE ExitLoop
  <2>1. /\ threadAt = "run" /\ threadAt' = "exited" /\ UNCHANGED <<keepRunning, conns, connections>>
    BY <1>9 DEF ExitLoop
  <2>2. keepRunning = 0
    BY <2>1 DEF RefsInv
  <2>3. Phase = "ending" /\ Phase' = "over"
    BY <2>1, <2>2
  <2> QED
    BY <2>1, <2>3, QuietPool, PoolEnd
<1> QED
  BY <1>1, <1>2, <1>3, <1>4, <1>5, <1>6, <1>7, <1>8, <1>9
  DEF Next, CallerNext, StartupNext, CommandNext

\* Sockets, watchers, both loops inside callbacks, the queue and the shutdown
\* timer implement a pool of slots that carry one request each.
THEOREM ImplementsPool == Spec => RefinesPool
<1>1. Init => Pool!PoolInit
  <2> SUFFICES ASSUME Init PROVE Pool!PoolInit
    OBVIOUS
  <2>1. /\ Ids = {} /\ connections = <<>> /\ threadAt = "none" /\ keepRunning \in {-1, 1}
    BY DEF Init, Ids
  <2> QED
    BY <2>1 DEF Pool!PoolInit, SlotOf
<1>2. Inv /\ Inv' /\ LifeInv /\ RefsInv' /\ ResizeInv /\ [Next]_vars
        => [Pool!PoolNext]_Pool!poolVars
  BY StepRefines DEF PoolStep
<1> QED
  BY <1>1, <1>2, ResizeInvariance, PTL DEF Spec, RefinesPool, Pool!PoolSpec
=============================================================================
