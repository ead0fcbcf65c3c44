---------------------------- MODULE MonitorProofs ----------------------------
(***************************************************************************)
(* Proofs about Monitor, for any number of hosts, descriptors, intervals   *)
(* and faults: whose the descriptors are that main keeps, and what the     *)
(* values are that it reads from them.                                     *)
(***************************************************************************)
EXTENDS Monitor, SumsProofs

\* While main waits for a reply it is in a call that asks, with a connection.
\* A descriptor is closed twice, and a number outlives it, only after a connect has
\* failed.
ControlInv ==
  /\ asked # 0 => Turn({"start"} \cup Asking) /\ fd # 0
  /\ ~connectFailed => closed = 0 /\ stray = {}

\* Main keeps the number of each descriptor that is open for a host, whatever has
\* failed.
KeptInv == \A h \in Hosts, f \in Descriptors : owner[f] = h => remoteCpuSocket[h] = f

\* Each number that main keeps is open for its host: the part of
\* OnlyOwnDescriptors that KeptInv leaves.
OpenInv ==
  at \notin {"end", "done"} =>
    \A h \in Hosts \ stray, f \in Descriptors : remoteCpuSocket[h] = f => owner[f] = h

SocketInv == TypeOK /\ ControlInv /\ KeptInv /\ OpenInv

\* A connection on which nothing is on its way, and one with a command or the
\* reply to it, unless the server has gone away.
Quiet(h) == toServer[h] = <<>> /\ toClient[h] = <<>>
PartOf(h, c, part) == [from |-> h, command |-> c, part |-> part]
Answer(h, c) == <<PartOf(h, c, "head"), PartOf(h, c, "tail")>>
UnderWay(h) ==
  \/ toServer[h] = <<asked>> /\ toClient[h] = <<>>
  \/ toServer[h] = <<>> /\ toClient[h] = Answer(h, asked)
  \/ Quiet(h) /\ ~serverUp[h]

Sound(h) == IF asked # 0 /\ host = h THEN UnderWay(h) ELSE Quiet(h)
ReplyInv ==
  (~connectFailed /\ ~torn) =>
    \A h \in Hosts : remoteCpuSocket[h] \in Descriptors => Sound(h)

ValuesInv == ReplyInv /\ RepliesAnswerCommands

-----------------------------------------------------------------------------
LEMMA HostsAre ==
  /\ NumHosts \in Nat /\ Hosts = 1 .. NumHosts /\ Descriptors = 1 .. NumDescriptors
  /\ Free = 0 /\ Free \notin Hosts /\ Load \notin Hosts /\ Load # Free
  /\ 0 \notin Descriptors /\ Free \notin Descriptors
  /\ Numbers = Descriptors \cup {Invalid} /\ Invalid \notin Descriptors /\ Invalid # 0
  /\ NumTags \in Nat \ {0} /\ Tags = 1 .. NumTags
BY MonitorAssumption DEF Hosts, Descriptors, Free, Load, Tags, Numbers, Invalid

\* socket() returns a descriptor that is not in use.
LEMMA LowestIsUnused ==
  ASSUME Unused # {}
  PROVE  Min(Unused) \in Descriptors /\ owner[Min(Unused)] = Free
<1>1. Unused \subseteq Descriptors /\ Unused \subseteq Nat
  BY MonitorAssumption DEF Unused, Descriptors
<1>2. Min(Unused) \in Unused
  BY <1>1, MinIn
<1> QED BY <1>2 DEF Unused

\* One number is opened or closed; one host's number is changed.
LEMMA OwnersAre ==
  ASSUME TypeOK, NEW f \in Numbers, NEW who \in {Free, Load} \cup Hosts,
         f = Invalid => who = Free, owner' = [owner EXCEPT ![f] = who]
  PROVE  /\ owner' \in [Numbers -> {Free, Load} \cup Hosts] /\ owner'[Invalid] = Free
         /\ \A d \in Descriptors : owner'[d] = IF d = f THEN who ELSE owner[d]
<1>1. owner \in [Numbers -> {Free, Load} \cup Hosts] /\ owner[Invalid] = Free
  BY DEF TypeOK
<1>2. \A d \in Numbers : owner'[d] = IF d = f THEN who ELSE owner[d]
  BY <1>1
<1>3. owner' \in [Numbers -> {Free, Load} \cup Hosts]
  BY <1>1
<1> QED BY <1>1, <1>2, <1>3 DEF Numbers

LEMMA SocketsAre ==
  ASSUME TypeOK, NEW h \in Hosts, NEW f \in {0} \cup Numbers,
         remoteCpuSocket' = [remoteCpuSocket EXCEPT ![h] = f]
  PROVE  /\ remoteCpuSocket' \in [Hosts -> {0} \cup Numbers]
         /\ \A k \in Hosts : remoteCpuSocket'[k] = IF k = h THEN f ELSE remoteCpuSocket[k]
BY DEF TypeOK

-----------------------------------------------------------------------------
(***************************************************************************)
(* Types and descriptors, action by action.                                *)
(***************************************************************************)
LEMMA FaultIs ==
  ASSUME TypeOK, NEW kind, Fault(kind)
  PROVE  faults' \in 0 .. MaxFaults
BY MonitorAssumption DEF TypeOK, Fault

\* What most steps leave alone.
LEMMA SameSockets ==
  ASSUME SocketInv, UNCHANGED <<owner, remoteCpuSocket, stray>>,
         at \in {"end", "done"} => at' \in {"end", "done"}
  PROVE  KeptInv' /\ OpenInv'
<1>1. KeptInv'
  BY DEF SocketInv, KeptInv
<1>2. OpenInv'
  BY DEF SocketInv, OpenInv
<1> QED BY <1>1, <1>2

LEMMA SocketInit == Init => SocketInv
<1> SUFFICES ASSUME Init PROVE SocketInv
  OBVIOUS
<1> USE DEF Init
<1>1. TypeOK
  <2>1. phase \in {"warmup", "run"} /\ at \in Calls
    BY MonitorAssumption DEF Calls
  <2>2. host \in 1 .. NumHosts + 1 /\ intervals \in 0 .. MaxIntervals /\ asked \in 0 .. NumTags
        /\ lastTag \in Tags /\ faults \in 0 .. MaxFaults
    BY MonitorAssumption, HostsAre
  <2>3. toServer \in [Hosts -> Seq(Tags)] /\ toClient \in [Hosts -> Seq(Reply)]
    OBVIOUS
  <2>4. got \in [host : 1 .. NumHosts + 1, command : 0 .. NumTags, reply : Reply]
    BY MonitorAssumption, HostsAre DEF NoValue, Reply
  <2> QED BY <2>1, <2>2, <2>3, <2>4, HostsAre DEF TypeOK
<1>2. ControlInv
  BY DEF ControlInv
<1>3. \A h \in Hosts, f \in Descriptors : owner[f] # h /\ remoteCpuSocket[h] # f
  BY HostsAre
<1>4. KeptInv /\ OpenInv
  BY <1>3 DEF KeptInv, OpenInv
<1> QED BY <1>1, <1>2, <1>4 DEF SocketInv

LEMMA OpenLoadSocketStep == SocketInv /\ OpenLoadSocket => SocketInv'
<1> SUFFICES ASSUME SocketInv, OpenLoadSocket PROVE SocketInv'
  OBVIOUS
<1> USE DEF OpenLoadSocket, mainVars, progress, history, network
<1> DEFINE f == Min(Unused)
<1>2. f \in Descriptors /\ owner[f] = Free /\ owner' = [owner EXCEPT ![f] = Load]
  BY LowestIsUnused
<1> HIDE DEF f
<1>a. f \in Numbers /\ f # Invalid
  BY <1>2, HostsAre
<1>b. owner' \in [Numbers -> {Free, Load} \cup Hosts] /\ owner'[Invalid] = Free
  BY <1>2, <1>a, OwnersAre DEF SocketInv
<1>3. TypeOK'
  BY <1>b DEF SocketInv, TypeOK
<1>4. ControlInv'
  BY DEF SocketInv, ControlInv, Turn, fd
<1>5. KeptInv'
  BY <1>2, HostsAre DEF SocketInv, TypeOK, KeptInv
<1>6. OpenInv'
  BY <1>2, HostsAre DEF SocketInv, TypeOK, OpenInv
<1> QED BY <1>3, <1>4, <1>5, <1>6 DEF SocketInv

LEMMA LoadConnectFailsStep == SocketInv /\ LoadConnectFails => SocketInv'
<1> SUFFICES ASSUME SocketInv, LoadConnectFails PROVE SocketInv'
  OBVIOUS
<1> USE DEF LoadConnectFails, progress, network
<1>1. closed' \in Descriptors /\ faults' \in 0 .. MaxFaults
  BY LowestIsUnused, FaultIs DEF SocketInv
<1>2. TypeOK'
  BY <1>1 DEF SocketInv, TypeOK
<1>3. ControlInv'
  BY DEF SocketInv, ControlInv, Turn, fd
<1>4. KeptInv' /\ OpenInv'
  BY DEF SocketInv, KeptInv, OpenInv
<1> QED BY <1>2, <1>3, <1>4 DEF SocketInv

LEMMA CloseAgainStep == SocketInv /\ CloseAgain => SocketInv'
<1> SUFFICES ASSUME SocketInv, CloseAgain PROVE SocketInv'
  OBVIOUS
<1> USE DEF CloseAgain, progress, network
<1>1. closed \in Descriptors /\ connectFailed
  BY DEF SocketInv, TypeOK, ControlInv
<1>2. TypeOK'
  BY <1>1, HostsAre DEF SocketInv, TypeOK, Strays
<1>3. ControlInv'
  BY <1>1 DEF SocketInv, ControlInv, Turn, fd
<1>4. KeptInv'
  BY <1>1, HostsAre DEF SocketInv, TypeOK, KeptInv
<1>5. OpenInv'
  BY <1>1, HostsAre DEF SocketInv, TypeOK, OpenInv, Strays
<1> QED BY <1>2, <1>3, <1>4, <1>5 DEF SocketInv

LEMMA CloseLoadSocketStep ==
  ASSUME SocketInv, NEW f \in Descriptors, CloseLoadSocket(f)
  PROVE  SocketInv'
<1> USE DEF CloseLoadSocket, mainVars, progress, history, network
<1>1. TypeOK'
  BY HostsAre DEF SocketInv, TypeOK
<1>2. ControlInv'
  BY DEF SocketInv, ControlInv, Turn, fd
<1>3. KeptInv'
  BY HostsAre DEF SocketInv, TypeOK, KeptInv
<1>4. OpenInv'
  BY HostsAre DEF SocketInv, TypeOK, OpenInv
<1> QED BY <1>1, <1>2, <1>3, <1>4 DEF SocketInv

LEMMA ConnectLookupFailsStep == SocketInv /\ ConnectLookupFails => SocketInv'
<1> SUFFICES ASSUME SocketInv, ConnectLookupFails PROVE SocketInv'
  OBVIOUS
<1> USE DEF ConnectLookupFails, progress, history, network, Turn
<1>1. TypeOK'
  <2>1. faults' \in 0 .. MaxFaults
    BY FaultIs DEF SocketInv
  <2> QED BY <2>1, HostsAre DEF SocketInv, TypeOK
<1>2. ControlInv'
  BY DEF SocketInv, ControlInv, fd
<1> QED BY <1>1, <1>2, SameSockets DEF SocketInv

LEMMA ConnectStep == SocketInv /\ Connect => SocketInv'
<1> SUFFICES ASSUME SocketInv, Connect PROVE SocketInv'
  OBVIOUS
<1> USE DEF Connect, progress, history, Turn
<1> DEFINE f == Min(Unused)
<1>1. \A d \in Descriptors : owner[d] # host
  BY HostsAre DEF SocketInv, KeptInv
<1>2. f \in Descriptors /\ owner[f] = Free
  BY LowestIsUnused
<1>3. /\ owner' = [owner EXCEPT ![f] = host]
      /\ remoteCpuSocket' = [remoteCpuSocket EXCEPT ![host] = f]
  OBVIOUS
<1>a. f \in Numbers /\ f # Invalid
  BY <1>2, HostsAre
<1> HIDE DEF f
<1>4. TypeOK'
  <2>1. host' \in 1 .. NumHosts + 1
    BY HostsAre
  <2>2. /\ remoteCpuSocket' \in [Hosts -> {0} \cup Numbers]
        /\ owner' \in [Numbers -> {Free, Load} \cup Hosts] /\ owner'[Invalid] = Free
    BY <1>a, <1>3, OwnersAre, SocketsAre DEF SocketInv
  <2>3. /\ toServer' \in [Hosts -> Seq(Tags)] /\ toClient' \in [Hosts -> Seq(Reply)]
        /\ serverUp' \in [Hosts -> BOOLEAN]
    BY DEF SocketInv, TypeOK
  <2> QED BY <2>1, <2>2, <2>3 DEF SocketInv, TypeOK
<1>5. ControlInv'
  BY DEF SocketInv, ControlInv, fd
<1>6. KeptInv'
  BY <1>1, <1>2, <1>3, HostsAre DEF SocketInv, TypeOK, KeptInv
<1>7. OpenInv'
  <2>1. /\ \A d \in Descriptors : owner'[d] = IF d = f THEN host ELSE owner[d]
        /\ \A k \in Hosts : remoteCpuSocket'[k] = IF k = host THEN f ELSE remoteCpuSocket[k]
    <3>1. TypeOK /\ host \in Hosts /\ f \in {0} \cup Numbers
      BY <1>a DEF SocketInv
    <3>2. \A d \in Descriptors : owner'[d] = IF d = f THEN host ELSE owner[d]
      BY <3>1, <1>a, <1>3, OwnersAre
    <3>3. \A k \in Hosts : remoteCpuSocket'[k] = IF k = host THEN f ELSE remoteCpuSocket[k]
      BY <1>3 DEF SocketInv, TypeOK
    <3> QED BY <3>2, <3>3
  <2>2. \A h \in Hosts \ stray, d \in Descriptors : remoteCpuSocket[h] = d => owner[d] = h
    BY DEF SocketInv, OpenInv
  <2> QED BY <1>2, <2>1, <2>2, HostsAre DEF OpenInv
<1> QED BY <1>4, <1>5, <1>6, <1>7 DEF SocketInv

LEMMA SocketFailsStep == SocketInv /\ SocketFails => SocketInv'
<1> SUFFICES ASSUME SocketInv, SocketFails PROVE SocketInv'
  OBVIOUS
<1> USE DEF SocketFails, progress, history, network, Turn
<1>1. TypeOK'
  <2>1. remoteCpuSocket' \in [Hosts -> {0} \cup Numbers] /\ host' \in 1 .. NumHosts + 1
    BY HostsAre DEF SocketInv, TypeOK
  <2> QED BY <2>1 DEF SocketInv, TypeOK
<1>2. ControlInv'
  BY DEF SocketInv, ControlInv, fd
<1>3. KeptInv'
  BY HostsAre DEF SocketInv, TypeOK, KeptInv
<1>4. OpenInv'
  BY HostsAre DEF SocketInv, TypeOK, OpenInv
<1> QED BY <1>1, <1>2, <1>3, <1>4 DEF SocketInv

LEMMA ConnectFailsStep == SocketInv /\ ConnectFails => SocketInv'
<1> SUFFICES ASSUME SocketInv, ConnectFails PROVE SocketInv'
  OBVIOUS
<1> USE DEF ConnectFails, progress, network, Turn
<1> DEFINE f == Min(Unused)
<1>1. \A d \in Descriptors : owner[d] # host
  BY HostsAre DEF SocketInv, KeptInv
<1>2. f \in Descriptors /\ remoteCpuSocket' = [remoteCpuSocket EXCEPT ![host] = f]
  BY LowestIsUnused
<1> HIDE DEF f
<1>3. TypeOK'
  <2>1. host' \in 1 .. NumHosts + 1 /\ faults' \in 0 .. MaxFaults
    BY HostsAre, FaultIs DEF SocketInv
  <2>2. remoteCpuSocket' \in [Hosts -> {0} \cup Numbers]
    BY <1>2, HostsAre DEF SocketInv, TypeOK
  <2> QED BY <2>1, <2>2 DEF SocketInv, TypeOK
<1>4. ControlInv'
  BY DEF SocketInv, ControlInv, fd
<1>5. KeptInv'
  BY <1>1, <1>2 DEF SocketInv, TypeOK, KeptInv
<1>6. OpenInv'
  BY <1>2, HostsAre DEF SocketInv, TypeOK, OpenInv
<1> QED BY <1>3, <1>4, <1>5, <1>6 DEF SocketInv

LEMMA NotConnectedStep == SocketInv /\ NotConnected => SocketInv'
<1> SUFFICES ASSUME SocketInv, NotConnected PROVE SocketInv'
  OBVIOUS
<1> USE DEF NotConnected, progress, history, network, Turn
<1>1. TypeOK'
  <2>1. host' \in 1 .. NumHosts + 1
    BY HostsAre
  <2> QED BY <2>1 DEF SocketInv, TypeOK
<1>2. ControlInv'
  BY DEF SocketInv, ControlInv, fd
<1> QED BY <1>1, <1>2, SameSockets DEF SocketInv

\* A command goes to the host that the descriptor is open for, if to any.
LEMMA SentIs ==
  ASSUME TypeOK, NEW tag \in Tags, NEW k,
         toServer' = IF k \in Hosts THEN [toServer EXCEPT ![k] = Append(@, tag)] ELSE toServer
  PROVE  toServer' \in [Hosts -> Seq(Tags)]
<1>1. toServer \in [Hosts -> Seq(Tags)]
  BY DEF TypeOK
<1>2. CASE k \in Hosts
  <2>1. Append(toServer[k], tag) \in Seq(Tags)
    BY <1>1, <1>2
  <2>2. toServer' = [toServer EXCEPT ![k] = Append(toServer[k], tag)]
    BY <1>2
  <2> QED BY <1>1, <1>2, <2>1, <2>2
<1> QED BY <1>1, <1>2

LEMMA WriteCommandStep == SocketInv /\ WriteCommand => SocketInv'
<1> SUFFICES ASSUME SocketInv, WriteCommand PROVE SocketInv'
  OBVIOUS
<1> USE DEF WriteCommand, progress, Turn
<1>1. NextTag \in Tags /\ NextTag # 0
  BY HostsAre DEF SocketInv, TypeOK, NextTag
<1>2. TypeOK'
  <2>1. toServer' \in [Hosts -> Seq(Tags)]
    BY <1>1, SentIs DEF SocketInv
  <2>2. got' \in [host : 1 .. NumHosts + 1, command : 0 .. NumTags, reply : Reply]
    BY HostsAre DEF NoValue, Reply
  <2>3. asked' \in 0 .. NumTags
    BY <1>1, HostsAre
  <2> QED BY <1>1, <2>1, <2>2, <2>3 DEF SocketInv, TypeOK
<1>3. ControlInv'
  BY DEF SocketInv, ControlInv, fd
<1> QED BY <1>2, <1>3, SameSockets DEF SocketInv

\* getRemoteStat's failure closes what main keeps for the host, and forgets it.
LEMMA FailureIs ==
  ASSUME SocketInv, host \in Hosts, fd # 0, at \notin {"end", "done"}, failure, at' = at
  PROVE  /\ owner' \in [Numbers -> {Free, Load} \cup Hosts] /\ owner'[Invalid] = Free
         /\ remoteCpuSocket' \in [Hosts -> {0} \cup Numbers]
         /\ host' \in 1 .. NumHosts + 1 /\ asked' = 0
         /\ stray' \subseteq Hosts /\ (~connectFailed => stray' = {})
         /\ KeptInv' /\ OpenInv'
<1>1. PICK f \in Numbers : f = fd
  BY DEF SocketInv, TypeOK, fd
<1>2. /\ owner' = [owner EXCEPT ![f] = Free] /\ remoteCpuSocket[host] = f
      /\ remoteCpuSocket' = [remoteCpuSocket EXCEPT ![host] = 0]
      /\ stray' = (stray \cup Strays(f)) \ {host}
      /\ asked' = 0 /\ host' = host + 1
  BY <1>1 DEF failure, fd
<1>3. /\ owner' \in [Numbers -> {Free, Load} \cup Hosts] /\ owner'[Invalid] = Free
      /\ remoteCpuSocket' \in [Hosts -> {0} \cup Numbers]
      /\ host' \in 1 .. NumHosts + 1 /\ stray' \subseteq Hosts
  <2>1. owner' \in [Numbers -> {Free, Load} \cup Hosts] /\ owner'[Invalid] = Free
    BY <1>2, OwnersAre DEF SocketInv
  <2>2. remoteCpuSocket' \in [Hosts -> {0} \cup Numbers]
    BY <1>2, SocketsAre DEF SocketInv
  <2>3. host' \in 1 .. NumHosts + 1
    BY <1>2, HostsAre
  <2>4. stray' \subseteq Hosts
    BY <1>2 DEF SocketInv, TypeOK, Strays
  <2> QED BY <2>1, <2>2, <2>3, <2>4
<1>4. KeptInv'
  BY <1>2, HostsAre DEF SocketInv, TypeOK, KeptInv
<1>5. OpenInv'
  <2> SUFFICES ASSUME NEW h \in Hosts, h \notin stray', NEW d \in Descriptors,
                      remoteCpuSocket'[h] = d
               PROVE  owner'[d] = h
    BY DEF OpenInv
  <2>1. h # host /\ remoteCpuSocket[h] = d
    BY <1>2, HostsAre DEF SocketInv, TypeOK
  <2>2. h \notin stray /\ h \notin Strays(f)
    BY <1>2, <2>1
  <2>3. owner[d] = h
    BY <2>1, <2>2 DEF SocketInv, OpenInv
  <2>4. d # f
    BY <2>2, <2>3 DEF Strays
  <2> QED BY <1>2, <2>3, <2>4, HostsAre DEF SocketInv, TypeOK
<1>6. ~connectFailed => stray' = {}
  <2> SUFFICES ASSUME ~connectFailed PROVE Strays(f) \subseteq {host}
    BY <1>2 DEF SocketInv, ControlInv
  <2>1. stray = {}
    BY DEF SocketInv, ControlInv
  <2>2. CASE f = Invalid
    BY <2>2, HostsAre DEF SocketInv, TypeOK, Strays
  <2>3. CASE f \in Descriptors
    BY <1>2, <2>1, <2>3 DEF SocketInv, OpenInv, Strays
  <2> QED BY <2>2, <2>3, HostsAre
<1> QED BY <1>2, <1>3, <1>4, <1>5, <1>6

LEMMA WriteFailsStep == SocketInv /\ WriteFails => SocketInv'
<1> SUFFICES ASSUME SocketInv, WriteFails PROVE SocketInv'
  OBVIOUS
<1> USE DEF WriteFails, progress, network, Turn
<1>1. /\ owner' \in [Numbers -> {Free, Load} \cup Hosts] /\ owner'[Invalid] = Free
      /\ remoteCpuSocket' \in [Hosts -> {0} \cup Numbers]
      /\ host' \in 1 .. NumHosts + 1 /\ asked' = 0
      /\ stray' \subseteq Hosts /\ (~connectFailed => stray' = {})
      /\ KeptInv' /\ OpenInv'
  BY FailureIs DEF Asking
<1>2. TypeOK'
  BY <1>1, HostsAre DEF SocketInv, TypeOK
<1>3. ControlInv'
  BY <1>1 DEF SocketInv, ControlInv
<1> QED BY <1>1, <1>2, <1>3 DEF SocketInv

LEMMA ReadFailsStep == SocketInv /\ ReadFails => SocketInv'
<1> SUFFICES ASSUME SocketInv, ReadFails PROVE SocketInv'
  OBVIOUS
<1> USE DEF ReadFails, progress, network
<1>1. host \in Hosts /\ fd # 0 /\ at \notin {"end", "done"}
  BY DEF SocketInv, ControlInv, Turn, Asking
<1>2. /\ owner' \in [Numbers -> {Free, Load} \cup Hosts] /\ owner'[Invalid] = Free
      /\ remoteCpuSocket' \in [Hosts -> {0} \cup Numbers]
      /\ host' \in 1 .. NumHosts + 1 /\ asked' = 0
      /\ stray' \subseteq Hosts /\ (~connectFailed => stray' = {})
      /\ KeptInv' /\ OpenInv'
  BY <1>1, FailureIs
<1>3. TypeOK'
  BY <1>2, HostsAre DEF SocketInv, TypeOK
<1>4. ControlInv'
  BY <1>2 DEF SocketInv, ControlInv
<1> QED BY <1>2, <1>3, <1>4 DEF SocketInv

\* A reply that is there has a first part; a part of it may stay.
LEMMA RepliesStay ==
  ASSUME TypeOK, NEW k \in Hosts, toClient[k] # <<>>
  PROVE  /\ Head(toClient[k]) \in Reply
         /\ \A n \in 1 .. Len(toClient[k]) - 1 :
              SubSeq(toClient[k], n + 1, Len(toClient[k])) \in Seq(Reply)
<1>1. toClient[k] \in Seq(Reply)
  BY DEF TypeOK
<1> QED BY <1>1

LEMMA ReadReplyStep == SocketInv /\ ReadReply => SocketInv'
<1> SUFFICES ASSUME SocketInv, ReadReply PROVE SocketInv'
  OBVIOUS
<1> USE DEF ReadReply, progress
<1>1. host \in Hosts /\ fd # 0
  BY DEF SocketInv, ControlInv, Turn
<1>2. PICK k \in Hosts : k = owner[fd]
  OBVIOUS
<1>3. toClient[k] # <<>> /\ got' = [host |-> host, command |-> asked, reply |-> Head(toClient[k])]
  BY <1>2
<1>4. toClient' \in [Hosts -> Seq(Reply)] /\ torn' \in BOOLEAN /\ faults' \in 0 .. MaxFaults
  <2>1. CASE toClient' = [toClient EXCEPT ![k] = <<>>] /\ UNCHANGED <<torn, faults>>
    BY <2>1 DEF SocketInv, TypeOK
  <2>2. CASE /\ Fault("torn") /\ torn' = TRUE
             /\ \E n \in 1 .. Len(toClient[k]) - 1 :
                  toClient' = [toClient EXCEPT ![k] = SubSeq(@, n + 1, Len(@))]
    <3>1. faults' \in 0 .. MaxFaults
      BY <2>2, FaultIs DEF SocketInv
    <3>2. PICK n \in 1 .. Len(toClient[k]) - 1 :
            toClient' = [toClient EXCEPT ![k] = SubSeq(@, n + 1, Len(@))]
      BY <2>2
    <3>3. SubSeq(toClient[k], n + 1, Len(toClient[k])) \in Seq(Reply)
      BY <1>3, RepliesStay DEF SocketInv
    <3> QED BY <2>2, <3>1, <3>2, <3>3 DEF SocketInv, TypeOK
  <2> QED BY <1>2, <2>1, <2>2
<1>5. TypeOK'
  <2>1. Head(toClient[k]) \in Reply /\ asked \in 0 .. NumTags
    BY <1>3, RepliesStay DEF SocketInv, TypeOK
  <2>2. got' \in [host : 1 .. NumHosts + 1, command : 0 .. NumTags, reply : Reply]
    BY <1>1, <1>3, <2>1, HostsAre
  <2>3. host' \in 1 .. NumHosts + 1 /\ asked' \in 0 .. NumTags
    BY <1>1, HostsAre
  <2> QED BY <1>4, <2>2, <2>3 DEF SocketInv, TypeOK
<1>6. ControlInv'
  BY DEF SocketInv, ControlInv
<1> QED BY <1>5, <1>6, SameSockets DEF SocketInv

LEMMA ReadLoadStep == SocketInv /\ ReadLoad => SocketInv'
<1> SUFFICES ASSUME SocketInv, ReadLoad PROVE SocketInv'
  OBVIOUS
<1> USE DEF ReadLoad, progress, network
<1>1. host \in Hosts
  BY DEF SocketInv, ControlInv, Turn
<1>2. TypeOK'
  <2>1. got' \in [host : 1 .. NumHosts + 1, command : 0 .. NumTags, reply : Reply]
    BY <1>1, HostsAre DEF SocketInv, TypeOK, Reply
  <2>2. host' \in 1 .. NumHosts + 1 /\ asked' \in 0 .. NumTags
    BY <1>1, HostsAre
  <2> QED BY <2>1, <2>2 DEF SocketInv, TypeOK
<1>3. ControlInv'
  BY DEF SocketInv, ControlInv
<1> QED BY <1>2, <1>3, SameSockets DEF SocketInv

LEMMA CloseMonitorStep == SocketInv /\ CloseMonitor => SocketInv'
<1> SUFFICES ASSUME SocketInv, CloseMonitor PROVE SocketInv'
  OBVIOUS
<1> USE DEF CloseMonitor, progress, history, network, Turn
<1>1. fd \in {0} \cup Numbers
  BY DEF SocketInv, TypeOK, fd
<1>2. TypeOK'
  <2>1. owner' \in [Numbers -> {Free, Load} \cup Hosts] /\ owner'[Invalid] = Free
    <3>1. CASE fd = 0
      BY <3>1 DEF SocketInv, TypeOK
    <3>2. CASE fd # 0
      <4>1. PICK f \in Numbers : f = fd
        BY <1>1, <3>2
      <4>2. owner' = [owner EXCEPT ![f] = Free]
        BY <3>2, <4>1
      <4> QED BY <4>2, OwnersAre DEF SocketInv
    <3> QED BY <3>1, <3>2
  <2>2. host' \in 1 .. NumHosts + 1
    BY HostsAre
  <2> QED BY <2>1, <2>2 DEF SocketInv, TypeOK
<1>3. ControlInv'
  BY DEF SocketInv, ControlInv, Asking
<1>4. KeptInv'
  BY <1>1, HostsAre DEF SocketInv, TypeOK, KeptInv
<1>5. OpenInv'
  BY DEF OpenInv
<1> QED BY <1>2, <1>3, <1>4, <1>5 DEF SocketInv

\* What all calls of main begin with.
LEMMA GoIs ==
  ASSUME SocketInv, NEW from, NEW to \in Calls, Go(from, to),
         from \notin {"end", "done"} \/ to = "done",
         from \in {"start"} \cup Asking => host \notin Hosts,
         intervals' \in 0 .. MaxIntervals, phase' \in {"warmup", "run"}
  PROVE  SocketInv'
<1> USE DEF Go, history, network
<1>1. TypeOK'
  <2>1. host' \in 1 .. NumHosts + 1
    BY HostsAre
  <2> QED BY <2>1 DEF SocketInv, TypeOK
<1>2. ControlInv'
  BY DEF SocketInv, ControlInv, Turn
<1> QED BY <1>1, <1>2, SameSockets DEF SocketInv

LEMMA NextCallStep == SocketInv /\ NextCall => SocketInv'
<1> SUFFICES ASSUME SocketInv, NextCall PROVE SocketInv'
  OBVIOUS
<1> USE DEF Finished, Asking, Calls
<1>1. /\ host > NumHosts => host \notin Hosts
      /\ intervals \in 0 .. MaxIntervals
      /\ phase \in {"warmup", "run"}
  BY HostsAre, MonitorAssumption DEF SocketInv, TypeOK
<1>2. CASE Finished("start") /\ Go("start", "wait") /\ UNCHANGED <<phase, intervals>>
  BY <1>1, <1>2, GoIs
<1>3. CASE Finished("interval") /\ Go("interval", "wait") /\ UNCHANGED <<phase, intervals>>
  BY <1>1, <1>3, GoIs
<1>4. CASE intervals > 0 /\ Go("wait", "interval") /\ intervals' = intervals - 1 /\ UNCHANGED phase
  <2>1. intervals' \in 0 .. MaxIntervals
    BY <1>1, <1>4, MonitorAssumption
  <2> QED BY <1>1, <1>4, <2>1, GoIs
<1>5. CASE phase = "warmup" /\ Go("wait", "start") /\ phase' = "run" /\ UNCHANGED intervals
  BY <1>1, <1>5, GoIs
<1>6. CASE phase = "run" /\ Go("wait", "sample") /\ UNCHANGED <<phase, intervals>>
  BY <1>1, <1>6, GoIs
<1>7. CASE Finished("sample") /\ Go("sample", "memory") /\ UNCHANGED <<phase, intervals>>
  BY <1>1, <1>7, GoIs
<1>8. CASE Finished("memory") /\ Go("memory", "end") /\ UNCHANGED <<phase, intervals>>
  BY <1>1, <1>8, GoIs
<1>9. CASE Finished("end") /\ Go("end", "done") /\ UNCHANGED <<phase, intervals>>
  BY <1>1, <1>9, GoIs
<1> QED BY <1>2, <1>3, <1>4, <1>5, <1>6, <1>7, <1>8, <1>9 DEF NextCall

LEMMA ProcessCommandStep ==
  ASSUME SocketInv, NEW h \in Hosts, processCommand(h)
  PROVE  SocketInv'
<1> USE DEF processCommand, mainVars, progress, history
<1>1. toServer[h] \in Seq(Tags) /\ toServer[h] # <<>> /\ toClient[h] \in Seq(Reply)
  BY DEF SocketInv, TypeOK
<1>2. Head(toServer[h]) \in Tags /\ Tail(toServer[h]) \in Seq(Tags)
  BY <1>1
<1>3. PICK c \in Tags : c = Head(toServer[h])
  BY <1>2
<1>4. toClient' = [toClient EXCEPT ![h] = toClient[h] \o Answer(h, c)]
  BY <1>3 DEF Answer, PartOf
<1>5. toClient[h] \o Answer(h, c) \in Seq(Reply)
  <2>1. PartOf(h, c, "head") \in Reply /\ PartOf(h, c, "tail") \in Reply
    BY HostsAre DEF PartOf, Reply, Part
  <2>2. Answer(h, c) \in Seq(Reply)
    BY <2>1 DEF Answer
  <2> QED BY <1>1, <2>2
<1>6. TypeOK'
  <2>1. toServer' \in [Hosts -> Seq(Tags)]
    BY <1>2 DEF SocketInv, TypeOK
  <2>2. toClient' \in [Hosts -> Seq(Reply)]
    BY <1>4, <1>5 DEF SocketInv, TypeOK
  <2> QED BY <2>1, <2>2 DEF SocketInv, TypeOK
<1>7. ControlInv'
  BY DEF SocketInv, ControlInv, Turn, fd
<1> QED BY <1>6, <1>7, SameSockets DEF SocketInv

LEMMA SocketLoopEndsStep ==
  ASSUME SocketInv, NEW h \in Hosts, socketLoopEnds(h)
  PROVE  SocketInv'
<1> USE DEF socketLoopEnds, mainVars, progress, history
<1>1. faults' \in 0 .. MaxFaults
  <2>1. CASE Fault("server")
    BY <2>1, FaultIs DEF SocketInv
  <2> QED BY <2>1 DEF SocketInv, TypeOK
<1>2. TypeOK'
  BY <1>1 DEF SocketInv, TypeOK
<1>3. ControlInv'
  BY DEF SocketInv, ControlInv, Turn, fd
<1> QED BY <1>2, <1>3, SameSockets DEF SocketInv

LEMMA SocketStutter ==
  ASSUME SocketInv, UNCHANGED vars
  PROVE  SocketInv'
<1> USE DEF vars, mainVars, progress, history, network
<1>1. TypeOK' /\ ControlInv'
  BY DEF SocketInv, TypeOK, ControlInv, Turn, fd
<1> QED BY <1>1, SameSockets DEF SocketInv

LEMMA SocketStep == SocketInv /\ [Next]_vars => SocketInv'
<1> SUFFICES ASSUME SocketInv, [Next]_vars PROVE SocketInv'
  OBVIOUS
<1>1. CASE MainNext
  BY <1>1, ConnectLookupFailsStep, ConnectStep, SocketFailsStep, ConnectFailsStep,
     NotConnectedStep, WriteCommandStep, WriteFailsStep, ReadReplyStep, ReadLoadStep, ReadFailsStep,
     CloseMonitorStep, NextCallStep DEF MainNext
<1>2. CASE \E f \in Descriptors : CloseLoadSocket(f)
  BY <1>2, CloseLoadSocketStep
<1>3. CASE \E h \in Hosts : processCommand(h) \/ socketLoopEnds(h)
  BY <1>3, ProcessCommandStep, SocketLoopEndsStep
<1>4. CASE UNCHANGED vars
  BY <1>4, SocketStutter
<1> QED BY <1>1, <1>2, <1>3, <1>4, OpenLoadSocketStep, LoadConnectFailsStep, CloseAgainStep
           DEF Next, Terminated

-----------------------------------------------------------------------------
(***************************************************************************)
(* Commands and replies, action by action.                                 *)
(***************************************************************************)
\* A descriptor that is open for a host is what main keeps for it: main writes
\* to the host that it means, and reads from it.
LEMMA OpenForHost ==
  ASSUME SocketInv, ~connectFailed, host \in Hosts, fd # 0, at \notin {"end", "done"},
         owner[fd] # Free
  PROVE  owner[fd] = host
BY HostsAre DEF SocketInv, TypeOK, ControlInv, OpenInv, fd

\* In a call, nothing is asked of a host without a connection.
LEMMA NothingAsked ==
  ASSUME SocketInv, at = "end" \/ at = "wait" \/ host \notin Hosts \/ fd = 0
  PROVE  asked = 0
BY DEF SocketInv, ControlInv, Turn, Asking

\* What most steps leave alone.
LEMMA SameReplies ==
  ASSUME ReplyInv, UNCHANGED <<network, remoteCpuSocket, asked, connectFailed, torn>>,
         asked = 0 \/ host' = host
  PROVE  ReplyInv'
<1> SUFFICES ASSUME ~connectFailed, ~torn, NEW h \in Hosts, remoteCpuSocket[h] \in Descriptors
             PROVE  Sound(h)'
  BY DEF ReplyInv
<1>1. Sound(h)
  BY DEF ReplyInv
<1>2. Quiet(h)' = Quiet(h) /\ UnderWay(h)' = UnderWay(h)
  BY DEF network, Quiet, UnderWay
<1> QED BY <1>1, <1>2 DEF Sound

LEMMA SameValue ==
  ASSUME RepliesAnswerCommands, UNCHANGED got \/ got' = NoValue,
         connectFailed => connectFailed', torn => torn'
  PROVE  RepliesAnswerCommands'
BY DEF RepliesAnswerCommands, NoValue

LEMMA ReplyInit == Init => ValuesInv
BY HostsAre DEF Init, ValuesInv, ReplyInv, RepliesAnswerCommands, NoValue

LEMMA ConnectReplies == SocketInv /\ ValuesInv /\ Connect => ValuesInv'
<1> SUFFICES ASSUME SocketInv, ValuesInv, Connect PROVE ValuesInv'
  OBVIOUS
<1> USE DEF Connect, history, Turn
<1>1. asked = 0 /\ asked' = 0
  BY NothingAsked DEF fd
<1>2. ASSUME ~connectFailed, ~torn, NEW h \in Hosts, remoteCpuSocket'[h] \in Descriptors
      PROVE  Quiet(h)'
  <2>1. CASE h = host
    BY <2>1 DEF SocketInv, TypeOK, Quiet
  <2>2. CASE h # host
    <3>1. remoteCpuSocket[h] \in Descriptors
      BY <1>2, <2>2 DEF SocketInv, TypeOK
    <3>2. Quiet(h)
      BY <1>1, <1>2, <3>1 DEF ValuesInv, ReplyInv, Sound
    <3> QED BY <2>2, <3>2 DEF SocketInv, TypeOK, Quiet
  <2> QED BY <2>1, <2>2
<1>3. ReplyInv'
  BY <1>1, <1>2 DEF ReplyInv, Sound
<1> QED BY <1>3, SameValue DEF ValuesInv

LEMMA WriteCommandReplies == SocketInv /\ ValuesInv /\ WriteCommand => ValuesInv'
<1> SUFFICES ASSUME SocketInv, ValuesInv, WriteCommand PROVE ValuesInv'
  OBVIOUS
<1> USE DEF WriteCommand, Turn
<1>1. asked = 0 /\ asked' = NextTag /\ NextTag # 0 /\ NextTag \in Tags
  BY HostsAre DEF SocketInv, TypeOK, NextTag
<1>2. ASSUME ~connectFailed, ~torn, NEW h \in Hosts, remoteCpuSocket[h] \in Descriptors
      PROVE  Sound(h)'
  <2>1. owner[fd] = host
    BY <1>2, OpenForHost DEF Asking
  <2>2. toServer' = [toServer EXCEPT ![host] = Append(@, NextTag)]
    BY <2>1
  <2>3. Quiet(h)
    BY <1>1, <1>2 DEF ValuesInv, ReplyInv, Sound
  <2>4. CASE h = host
    <3>1. toServer'[h] = Append(<<>>, NextTag)
      BY <2>2, <2>3, <2>4 DEF SocketInv, TypeOK, Quiet
    <3>2. toServer'[h] = <<asked'>> /\ toClient'[h] = <<>>
      BY <1>1, <2>3, <3>1 DEF Quiet
    <3>3. UnderWay(h)'
      BY <3>2 DEF UnderWay
    <3> QED BY <1>1, <2>4, <3>3 DEF Sound
  <2>5. CASE h # host
    <3>1. Quiet(h)'
      BY <2>2, <2>3, <2>5 DEF SocketInv, TypeOK, Quiet
    <3> QED BY <2>5, <3>1 DEF Sound
  <2> QED BY <2>4, <2>5
<1>3. ReplyInv'
  BY <1>2 DEF ReplyInv
<1> QED BY <1>3, SameValue DEF ValuesInv

\* What getRemoteStat's failure leaves behind is on a connection that is closed.
LEMMA FailureReplies ==
  ASSUME SocketInv, ValuesInv, host \in Hosts, failure,
         UNCHANGED <<got, connectFailed, torn, network>>
  PROVE  ValuesInv'
<1> USE DEF failure, network
<1>1. ASSUME ~connectFailed, ~torn, NEW h \in Hosts, remoteCpuSocket'[h] \in Descriptors
      PROVE  Sound(h)'
  <2>1. h # host /\ remoteCpuSocket[h] \in Descriptors
    BY <1>1, HostsAre DEF SocketInv, TypeOK
  <2>2. Quiet(h)
    BY <1>1, <2>1 DEF ValuesInv, ReplyInv, Sound
  <2>3. Quiet(h)'
    BY <2>2 DEF Quiet
  <2> QED BY <2>3 DEF Sound
<1>2. ReplyInv'
  BY <1>1 DEF ReplyInv
<1> QED BY <1>2, SameValue DEF ValuesInv

LEMMA ReadReplyReplies == SocketInv /\ ValuesInv /\ ReadReply => ValuesInv'
<1> SUFFICES ASSUME SocketInv, ValuesInv, ReadReply PROVE ValuesInv'
  OBVIOUS
<1> SUFFICES ASSUME ~connectFailed', ~torn'
             PROVE  ValuesInv'
  BY DEF ValuesInv, ReplyInv, RepliesAnswerCommands
<1> USE DEF ReadReply
<1>1. host \in Hosts /\ fd # 0 /\ at \notin {"end", "done"} /\ asked' = 0
  BY DEF SocketInv, ControlInv, Turn, Asking
<1>2. ~connectFailed /\ owner[fd] = host
  BY <1>1, HostsAre, OpenForHost
<1>3. toClient[host] # <<>> /\ toClient' = [toClient EXCEPT ![host] = <<>>] /\ ~torn
      /\ got' = [host |-> host, command |-> asked, reply |-> Head(toClient[host])]
  BY <1>2
<1>4. toServer[host] = <<>> /\ toClient[host] = Answer(host, asked)
  <2>0. remoteCpuSocket[host] \in Descriptors
    BY <1>1, <1>2, HostsAre DEF SocketInv, TypeOK, fd
  <2>1. Sound(host)
    BY <1>1, <1>2, <1>3, <2>0 DEF ValuesInv, ReplyInv
  <2>2. UnderWay(host)
    BY <2>1 DEF Sound
  <2> QED BY <1>3, <2>2 DEF UnderWay, Quiet
<1>5. ASSUME NEW h \in Hosts, remoteCpuSocket[h] \in Descriptors
      PROVE  Quiet(h)'
  <2>1. CASE h = host
    BY <1>3, <1>4, <2>1 DEF SocketInv, TypeOK, Quiet
  <2>2. CASE h # host
    <3>1. Quiet(h)
      BY <1>2, <1>3, <1>5, <2>2 DEF ValuesInv, ReplyInv, Sound
    <3> QED BY <1>3, <2>2, <3>1 DEF SocketInv, TypeOK, Quiet
  <2> QED BY <2>1, <2>2
<1>6. ReplyInv'
  BY <1>1, <1>5 DEF ReplyInv, Sound
<1>7. Head(toClient[host]) = PartOf(host, asked, "head")
  BY <1>4 DEF Answer
<1>8. RepliesAnswerCommands'
  BY <1>3, <1>7 DEF RepliesAnswerCommands, PartOf
<1> QED BY <1>6, <1>8 DEF ValuesInv

LEMMA ReadLoadReplies == SocketInv /\ ValuesInv /\ ReadLoad => ValuesInv'
<1> SUFFICES ASSUME SocketInv, ValuesInv, ReadLoad PROVE ValuesInv'
  OBVIOUS
<1>1. host \in Hosts /\ fd # 0 /\ at \notin {"end", "done"} /\ owner[fd] # host
  BY HostsAre DEF SocketInv, ControlInv, Turn, Asking, ReadLoad
<1>2. connectFailed'
  BY <1>1, HostsAre, OpenForHost DEF ReadLoad
<1> QED BY <1>2 DEF ValuesInv, ReplyInv, RepliesAnswerCommands

LEMMA ProcessCommandReplies ==
  ASSUME SocketInv, ValuesInv, NEW k \in Hosts, processCommand(k)
  PROVE  ValuesInv'
<1> USE DEF processCommand, mainVars, history
<1>1. ASSUME ~connectFailed, ~torn, NEW h \in Hosts, remoteCpuSocket[h] \in Descriptors
      PROVE  Sound(h)'
  <2>1. Sound(h)
    BY <1>1 DEF ValuesInv, ReplyInv
  <2>2. CASE h # k
    <3>1. toServer'[h] = toServer[h] /\ toClient'[h] = toClient[h] /\ serverUp' = serverUp
      BY <2>2 DEF SocketInv, TypeOK
    <3> QED BY <2>1, <3>1 DEF Sound, UnderWay, Quiet
  <2>3. CASE h = k
    <3>1. asked # 0 /\ host = h /\ toServer[h] = <<asked>> /\ toClient[h] = <<>>
      BY <2>1, <2>3 DEF Sound, UnderWay, Quiet
    <3>2. Head(toServer[h]) = asked /\ Tail(toServer[h]) = <<>>
      BY <3>1
    <3>3. toServer'[h] = <<>>
      BY <2>3, <3>2 DEF SocketInv, TypeOK
    <3>4. toClient' = [toClient EXCEPT ![h] = @ \o Answer(h, asked)]
      BY <2>3, <3>2 DEF Answer, PartOf
    <3>5. <<>> \o Answer(h, asked) = Answer(h, asked)
      BY DEF Answer
    <3>6. toClient'[h] = Answer(h, asked)
      BY <3>1, <3>4, <3>5 DEF SocketInv, TypeOK
    <3>7. UnderWay(h)'
      BY <3>3, <3>6 DEF UnderWay
    <3> QED BY <3>1, <3>7 DEF Sound
  <2> QED BY <2>2, <2>3
<1>2. ReplyInv'
  BY <1>1 DEF ReplyInv
<1> QED BY <1>2, SameValue DEF ValuesInv

LEMMA SocketLoopEndsReplies ==
  ASSUME SocketInv, ValuesInv, NEW k \in Hosts, socketLoopEnds(k)
  PROVE  ValuesInv'
<1> USE DEF socketLoopEnds, mainVars, history
<1>1. ASSUME ~connectFailed, ~torn, NEW h \in Hosts, remoteCpuSocket[h] \in Descriptors
      PROVE  Sound(h)'
  <2>1. Sound(h)
    BY <1>1 DEF ValuesInv, ReplyInv
  <2>2. CASE h # k
    <3>1. toServer'[h] = toServer[h] /\ toClient' = toClient /\ serverUp'[h] = serverUp[h]
      BY <2>2 DEF SocketInv, TypeOK
    <3> QED BY <2>1, <3>1 DEF Sound, UnderWay, Quiet
  <2>3. CASE h = k
    <3>1. toServer'[h] = <<>> /\ toClient' = toClient /\ serverUp'[h] = FALSE
      BY <2>3 DEF SocketInv, TypeOK
    <3> QED BY <2>1, <3>1 DEF Sound, UnderWay, Quiet
  <2> QED BY <2>2, <2>3
<1>2. ReplyInv'
  BY <1>1 DEF ReplyInv
<1> QED BY <1>2, SameValue DEF ValuesInv

\* The others send and read nothing.
Elsewhere ==
  \/ OpenLoadSocket \/ CloseAgain \/ ConnectLookupFails \/ SocketFails \/ NotConnected \/ CloseMonitor
  \/ NextCall \/ UNCHANGED vars
  \/ \E f \in Descriptors : CloseLoadSocket(f)

LEMMA ElsewhereReplies == SocketInv /\ ValuesInv /\ Elsewhere => ValuesInv'
<1> SUFFICES ASSUME SocketInv, ValuesInv, Elsewhere PROVE ValuesInv'
  OBVIOUS
<1>1. CASE OpenLoadSocket \/ CloseAgain \/ UNCHANGED vars \/ \E f \in Descriptors : CloseLoadSocket(f)
  <2>1. UNCHANGED <<host, asked, remoteCpuSocket, got, connectFailed, torn, network>>
    BY <1>1 DEF OpenLoadSocket, CloseAgain, CloseLoadSocket, vars, mainVars, history
  <2> QED BY <2>1, SameReplies, SameValue DEF ValuesInv
<1>2. CASE ConnectLookupFails \/ NotConnected
  <2>1. asked = 0
    BY <1>2, NothingAsked DEF ConnectLookupFails, NotConnected, fd
  <2>2. UNCHANGED <<network, remoteCpuSocket, asked, history>>
    BY <1>2 DEF ConnectLookupFails, NotConnected
  <2> QED BY <2>1, <2>2, SameReplies, SameValue DEF history, ValuesInv
<1>5. CASE SocketFails
  <2>1. asked = 0 /\ asked' = 0 /\ UNCHANGED <<network, history>>
    BY <1>5, NothingAsked DEF SocketFails, fd
  <2>2. ASSUME ~connectFailed, ~torn, NEW h \in Hosts, remoteCpuSocket'[h] \in Descriptors
        PROVE  Quiet(h)
    <3>1. remoteCpuSocket[h] \in Descriptors
      BY <1>5, <2>2, HostsAre DEF SocketFails, Turn, SocketInv, TypeOK
    <3> QED BY <2>1, <2>2, <3>1 DEF ValuesInv, ReplyInv, Sound
  <2>3. ReplyInv'
    BY <2>1, <2>2 DEF ReplyInv, Sound, Quiet, network, history
  <2> QED BY <2>1, <2>3, SameValue DEF history, ValuesInv
<1>3. CASE CloseMonitor
  <2>1. asked = 0
    BY <1>3, NothingAsked DEF CloseMonitor, Turn
  <2> QED BY <1>3, <2>1, SameReplies, SameValue DEF CloseMonitor, history, ValuesInv
<1>4. CASE NextCall
  <2>1. UNCHANGED <<network, remoteCpuSocket, asked, history>>
    BY <1>4 DEF NextCall, Go
  <2>2. at \in {"wait", "end"} \/ host > NumHosts
    BY <1>4 DEF NextCall, Go, Finished
  <2>3. host > NumHosts => host \notin Hosts
    BY HostsAre
  <2>4. asked = 0
    BY <2>2, <2>3, NothingAsked
  <2> QED BY <2>1, <2>4, SameReplies, SameValue DEF history, ValuesInv
<1> QED BY <1>1, <1>2, <1>3, <1>4, <1>5 DEF Elsewhere

LEMMA ReplyStep == SocketInv /\ ValuesInv /\ [Next]_vars => ValuesInv'
<1> SUFFICES ASSUME SocketInv, ValuesInv, [Next]_vars PROVE ValuesInv'
  OBVIOUS
<1>1. CASE ConnectFails \/ LoadConnectFails
  <2>1. connectFailed'
    BY <1>1 DEF ConnectFails, LoadConnectFails
  <2> QED BY <2>1 DEF ValuesInv, ReplyInv, RepliesAnswerCommands
<1>2. CASE WriteFails
  BY <1>2, FailureReplies DEF WriteFails, Turn
<1>3. CASE ReadFails
  <2>1. host \in Hosts
    BY <1>3 DEF SocketInv, ControlInv, Turn, ReadFails
  <2> QED BY <1>3, <2>1, FailureReplies DEF ReadFails
<1>4. CASE \E h \in Hosts : processCommand(h) \/ socketLoopEnds(h)
  BY <1>4, ProcessCommandReplies, SocketLoopEndsReplies
<1>5. CASE Connect \/ WriteCommand \/ ReadReply \/ ReadLoad
  BY <1>5, ConnectReplies, WriteCommandReplies, ReadReplyReplies, ReadLoadReplies
<1>6. CASE Elsewhere
  BY <1>6, ElsewhereReplies
<1> QED BY <1>1, <1>2, <1>3, <1>4, <1>5, <1>6 DEF Next, MainNext, Terminated, Elsewhere

-----------------------------------------------------------------------------
(***************************************************************************)
(* Theorems.                                                               *)
(***************************************************************************)
LEMMA SocketsAlways == Spec => []SocketInv
BY SocketInit, SocketStep, PTL DEF Spec

\* Each number main keeps for a host that is not stray is open for that host and
\* for nothing else, and no host's socket is leaked, for any number of hosts and
\* descriptors, fewer than hosts among them (connectMonitor, getRemoteStat's failure,
\* and the sockets of the I/O threads, closed twice when their connect fails).
THEOREM DescriptorsKept == Spec => []OnlyOwnDescriptors
<1>1. SocketInv => OnlyOwnDescriptors
  BY DEF SocketInv, KeptInv, OpenInv, OnlyOwnDescriptors
<1> QED BY <1>1, SocketsAlways, PTL

\* Unless a connect has failed or a reply came in parts, each value of
\* getRemoteStat is the answer to its own command, through failures of the servers
\* and new connections.
THEOREM ValuesAnswer == Spec => []RepliesAnswerCommands
<1>1. ValuesInv => RepliesAnswerCommands
  BY DEF ValuesInv
<1>2. Spec => []ValuesInv
  BY SocketsAlways, ReplyInit, ReplyStep, PTL DEF Spec
<1> QED BY <1>1, <1>2, PTL
=============================================================================
