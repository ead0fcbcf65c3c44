--------------------------- MODULE MonServerProofs ---------------------------
(***************************************************************************)
(* The safety properties of MonServer, for any finite set of clients and   *)
(* any limits on descriptors, commands and the backlog.                    *)
(*                                                                         *)
(* LoopInv is inductive by itself.  The others need each other: a          *)
(* descriptor is counted once because no client is accepted twice, a       *)
(* signal can be traced to the client that left because no command is      *)
(* answered twice.                                                         *)
(***************************************************************************)
EXTENDS MonServer, FiniteSetTheorems, SequenceTheorems, TLAPS

-----------------------------------------------------------------------------
(***************************************************************************)
(* The accept thread's loop.                                               *)
(***************************************************************************)
\* Until stop() both references are there; a signal is one that stop() has sent.
LoopInv ==
  /\ loop \in {"none", "looping", "ended"}
  /\ callerAt \in {"start", "failed"} => loop = "none" /\ ~asyncSent
  /\ callerAt = "serving" => loop = "looping" /\ refs = 2 /\ ~asyncSent
  /\ callerAt = "joining" => loop # "none"
  /\ callerAt = "joining" /\ loop = "looping" =>
       (asyncSent => refs = 2) /\ (~asyncSent => refs = 0)
  /\ callerAt = "stopped" => loop = "ended"
  /\ callerAt \in {"start", "failed", "serving", "joining", "stopped"}
  /\ asyncSent \in BOOLEAN /\ refs \in 0 .. 2

LEMMA LoopInvInit == Init => LoopInv
<1> SUFFICES ASSUME Init PROVE LoopInv
  OBVIOUS
<1>1. loop = "none" /\ callerAt = "start" /\ refs = 0 /\ asyncSent = FALSE
  BY DEF Init
<1>2. asyncSent \in BOOLEAN /\ ~asyncSent
  BY <1>1
<1> QED
  BY <1>1, <1>2 DEF LoopInv

LEMMA LoopInvStep == LoopInv /\ [Next]_vars => LoopInv'
<1> SUFFICES ASSUME LoopInv, [Next]_vars PROVE LoopInv'
  OBVIOUS
<1> USE DEF LoopInv
<1>1. ASSUME NEW step, StartFails(step) PROVE LoopInv'
  BY <1>1 DEF StartFails
<1>2. CASE Start
  BY <1>2 DEF Start
<1>3. CASE Stop
  BY <1>3 DEF Stop
<1>4. CASE handleShutdown
  <2>1. callerAt = "joining" /\ refs = 2
    BY <1>4 DEF handleShutdown
  <2>2. callerAt' = "joining" /\ loop' = "looping" /\ refs' = 0 /\ asyncSent' = FALSE
    BY <1>4, <2>1 DEF handleShutdown
  <2>3. ~asyncSent' /\ asyncSent' \in BOOLEAN
    BY <2>2
  <2> QED
    BY <2>2, <2>3
<1>5. CASE LoopEnds
  BY <1>5 DEF LoopEnds
<1>6. CASE Stopped
  BY <1>6 DEF Stopped
<1>7. CASE UNCHANGED serverVars
  BY <1>7 DEF serverVars
<1>8. ASSUME NEW c \in Clients,
             ConnectionStep(c) \/ ClientConnects(c)
               \/ (\E command \in Commands : ClientSends(c, command))
               \/ ClientReads(c) \/ ClientLeaves(c) \/ ResetArrives(c)
      PROVE  UNCHANGED serverVars
  BY <1>8 DEF ConnectionStep, Read, Answer, TooLong, Killed, ClientConnects, ClientSends,
              ClientReads, ClientLeaves, ResetArrives, serverVars
<1>9. Exit \/ acceptOne \/ Idle \/ UNCHANGED vars => UNCHANGED serverVars
  BY DEF Exit, acceptOne, Idle, vars, serverVars
<1> QED
  BY <1>1, <1>2, <1>3, <1>4, <1>5, <1>6, <1>7, <1>8, <1>9 DEF Next

\* The loop ends if stop() was called and not before (start, handleShutdown).
THEOREM LoopRuns == Spec => []LoopWhileWanted
<1>1. LoopInv => LoopWhileWanted
  BY DEF LoopInv, LoopWhileWanted
<1> QED
  BY <1>1, LoopInvInit, LoopInvStep, PTL DEF Spec

-----------------------------------------------------------------------------
(***************************************************************************)
(* Commands and answers.                                                   *)
(***************************************************************************)
Processes == {"up", "killed", "over"}

FieldTypes ==
  /\ client \in [Clients -> {"away", "here", "gone", "refused"}]
  /\ wire \in [Clients -> Wires]
  /\ toServer \in [Clients -> Seq(Commands)] /\ buffered \in [Clients -> Seq(Commands)]
  /\ thread \in [Clients -> {"none", "reading", "answering", "ended"}]
  /\ sent \in [Clients -> 0 .. MaxCommands]
  /\ answered \in [Clients -> Nat] /\ received \in [Clients -> Nat]
  /\ left \in [Clients -> Nat]
  /\ process \in Processes

\* A command is on its way, in the buffer or answered, or it is lost.  A client
\* that has left lacks the answers that are not written yet, and those that were
\* refused besides.
CommandsOf(c) ==
  /\ answered[c] + Len(buffered[c]) + Len(toServer[c]) <= sent[c]
  /\ left[c] <= sent[c] /\ received[c] <= answered[c]
  /\ thread[c] = "answering" => buffered[c] # <<>>
  /\ wire[c] # "open" <=> client[c] = "gone"
  /\ wire[c] = "closed" => left[c] = sent[c] - answered[c]
  /\ wire[c] \in {"answered", "reset"} => left[c] > sent[c] - answered[c]

CommandInv ==
  FieldTypes /\ (\A c \in Clients : CommandsOf(c)) /\ SurvivesPoliteClients

LEMMA CommandInvInit == Init => CommandInv
<1> SUFFICES ASSUME Init PROVE CommandInv
  OBVIOUS
<1> USE MonServerAssumption DEF MonServerAssumption
<1>1. FieldTypes
  BY DEF Init, FieldTypes, Wires, Processes
<1>2. ASSUME NEW c \in Clients PROVE CommandsOf(c)
  BY DEF Init, CommandsOf
<1>3. SurvivesPoliteClients
  BY DEF Init, SurvivesPoliteClients
<1> QED
  BY <1>1, <1>2, <1>3 DEF CommandInv

\* What a step does to one client's fields leaves the others' as they are.
LEMMA OthersUnchanged ==
  ASSUME FieldTypes, NEW c \in Clients, NEW d \in Clients, d # c,
         ConnectionStep(c) \/ ClientConnects(c)
           \/ (\E command \in Commands : ClientSends(c, command))
           \/ ClientReads(c) \/ ClientLeaves(c) \/ ResetArrives(c)
  PROVE  /\ client'[d] = client[d] /\ wire'[d] = wire[d] /\ toServer'[d] = toServer[d]
         /\ buffered'[d] = buffered[d] /\ thread'[d] = thread[d] /\ sent'[d] = sent[d]
         /\ answered'[d] = answered[d] /\ received'[d] = received[d] /\ left'[d] = left[d]
<1> USE DEF FieldTypes, clientVars, connectionVars
<1>1. Read(c) => UNCHANGED <<clientVars, wire, answered>> /\ toServer'[d] = toServer[d]
                 /\ buffered'[d] = buffered[d] /\ thread'[d] = thread[d]
  BY DEF Read, Ends
<1>2. Answer(c) => UNCHANGED <<clientVars, toServer>> /\ wire'[d] = wire[d]
                   /\ buffered'[d] = buffered[d] /\ thread'[d] = thread[d]
                   /\ answered'[d] = answered[d]
  BY DEF Answer, Ends
<1>3. Killed(c) => UNCHANGED <<clientVars, connectionVars>>
  BY DEF Killed
<1>4. ClientConnects(c) =>
        UNCHANGED <<connectionVars, sent, received, left>> /\ client'[d] = client[d]
  BY DEF ClientConnects
<1>5. ASSUME NEW command \in Commands, ClientSends(c, command)
      PROVE  UNCHANGED <<client, received, left, wire, thread, buffered, answered>>
             /\ sent'[d] = sent[d] /\ toServer'[d] = toServer[d]
  BY <1>5 DEF ClientSends
<1>6. ClientLeaves(c) => UNCHANGED <<sent, received, toServer, thread, buffered, answered>>
        /\ client'[d] = client[d] /\ left'[d] = left[d] /\ wire'[d] = wire[d]
  BY DEF ClientLeaves
<1>7. ResetArrives(c) => UNCHANGED <<clientVars, toServer, thread, buffered, answered>>
                         /\ wire'[d] = wire[d]
  BY DEF ResetArrives
<1>8. ClientReads(c) => UNCHANGED <<client, sent, left, connectionVars>>
                        /\ received'[d] = received[d]
  BY DEF ClientReads
<1>9. TooLong(c) => UNCHANGED <<clientVars, wire, toServer, answered>>
                    /\ buffered'[d] = buffered[d] /\ thread'[d] = thread[d]
  BY DEF TooLong, Ends
<1> QED
  BY <1>1, <1>2, <1>3, <1>4, <1>5, <1>6, <1>7, <1>8, <1>9 DEF ConnectionStep

LEMMA ReadCommands ==
  ASSUME CommandInv, NEW c \in Clients, Read(c)
  PROVE  FieldTypes' /\ CommandsOf(c)'
<1> USE DEF CommandInv, FieldTypes
<1>1. UNCHANGED <<clientVars, wire, answered, process>> /\ thread[c] = "reading"
  BY DEF Read
<1>2. CASE /\ toServer[c] # <<>>
           /\ \E n \in 1 .. Len(toServer[c]) :
                /\ buffered' = [buffered EXCEPT ![c] = SubSeq(toServer[c], 1, n)]
                /\ toServer' = [toServer EXCEPT ![c] = SubSeq(@, n + 1, Len(@))]
           /\ thread' = [thread EXCEPT ![c] = "answering"]
  <2>1. PICK n \in 1 .. Len(toServer[c]) :
          /\ buffered' = [buffered EXCEPT ![c] = SubSeq(toServer[c], 1, n)]
          /\ toServer' = [toServer EXCEPT ![c] = SubSeq(@, n + 1, Len(@))]
    BY <1>2
  <2>2. toServer[c] \in Seq(Commands) /\ Len(toServer[c]) \in Nat /\ n \in Int
        /\ \A i \in 1 .. Len(toServer[c]) : toServer[c][i] \in Commands
    BY LenProperties
  <2>3. SubSeq(toServer[c], 1, n) \in Seq(Commands) /\ Len(SubSeq(toServer[c], 1, n)) = n
    BY <2>2, SubSeqProperties
  <2>4. /\ SubSeq(toServer[c], n + 1, Len(toServer[c])) \in Seq(Commands)
        /\ Len(SubSeq(toServer[c], n + 1, Len(toServer[c]))) = Len(toServer[c]) - n
    <3>1. \A i \in n + 1 .. Len(toServer[c]) : toServer[c][i] \in Commands
      BY <2>2
    <3> QED
      BY <2>2, <3>1, SubSeqProperties
  <2>5. buffered'[c] = SubSeq(toServer[c], 1, n) /\ buffered'[c] # <<>>
        /\ toServer'[c] = SubSeq(toServer[c], n + 1, Len(toServer[c]))
    <3>1. SubSeq(toServer[c], 1, n) # <<>>
      <4>1. Len(SubSeq(toServer[c], 1, n)) # 0
        BY <2>3
      <4> QED
        BY <4>1, EmptySeq
    <3> QED
      BY <2>1, <3>1
  <2>6. FieldTypes'
    BY <1>1, <1>2, <2>1, <2>3, <2>4 DEF clientVars
  <2>7. answered'[c] + Len(buffered'[c]) + Len(toServer'[c])
          <= answered[c] + Len(buffered[c]) + Len(toServer[c])
    <3>1. Len(buffered[c]) \in Nat /\ answered[c] \in Nat
      BY LenProperties
    <3> QED
      BY <1>1, <2>2, <2>3, <2>4, <2>5, <3>1
  <2>8. Len(buffered[c]) \in Nat /\ answered[c] \in Nat /\ sent[c] \in Nat
    BY LenProperties, MonServerAssumption DEF MonServerAssumption
  <2>9. Len(buffered'[c]) \in Nat /\ Len(toServer'[c]) \in Nat
    BY <2>6, LenProperties
  <2>10. answered'[c] + Len(buffered'[c]) + Len(toServer'[c]) <= sent'[c]
    BY <1>1, <2>2, <2>7, <2>8, <2>9 DEF CommandsOf, clientVars
  <2> QED
    BY <1>1, <2>5, <2>6, <2>10 DEF CommandsOf, clientVars
<1>3. CASE Ends(c) /\ UNCHANGED toServer
  <2>1. FieldTypes' /\ buffered'[c] = <<>> /\ thread'[c] = "ended"
    BY <1>1, <1>3, EmptySeq DEF Ends, clientVars
  <2>2. Len(buffered[c]) \in Nat /\ Len(toServer[c]) \in Nat /\ answered[c] \in Nat
        /\ sent[c] \in Nat /\ Len(buffered'[c]) = 0
    BY <2>1, LenProperties, EmptySeq, MonServerAssumption DEF MonServerAssumption
  <2> QED
    BY <1>1, <1>3, <2>1, <2>2 DEF CommandsOf, clientVars
<1> QED
  BY <1>2, <1>3 DEF Read

LEMMA AnswerCommands ==
  ASSUME CommandInv, NEW c \in Clients, Answer(c)
  PROVE  FieldTypes' /\ CommandsOf(c)'
<1> USE DEF CommandInv, FieldTypes
<1>1. UNCHANGED <<clientVars, toServer, process>> /\ thread[c] = "answering"
      /\ answered' = [answered EXCEPT ![c] = @ + 1]
      /\ wire' = [wire EXCEPT ![c] = IF @ = "closed" THEN "answered" ELSE @]
  BY DEF Answer
<1>2. buffered[c] \in Seq(Commands) /\ buffered[c] # <<>>
  BY <1>1 DEF CommandsOf
<1>3. Len(buffered[c]) \in Nat \ {0} /\ Len(toServer[c]) \in Nat /\ answered[c] \in Nat
      /\ sent[c] \in Nat /\ left[c] \in Nat
  BY <1>2, LenProperties, EmptySeq, MonServerAssumption DEF MonServerAssumption
<1>4. /\ buffered' \in [Clients -> Seq(Commands)]
      /\ Len(buffered'[c]) \in Nat /\ Len(buffered'[c]) <= Len(buffered[c]) - 1
      /\ thread' \in [Clients -> {"none", "reading", "answering", "ended"}]
      /\ thread'[c] = "answering" => buffered'[c] # <<>>
  <2>1. CASE Ends(c)
    BY <1>3, <2>1, EmptySeq DEF Ends
  <2>2. CASE /\ buffered' = [buffered EXCEPT ![c] = Tail(@)]
             /\ thread' = [thread EXCEPT ![c] = IF buffered'[c] = <<>> THEN "reading" ELSE @]
    <3>1. Tail(buffered[c]) \in Seq(Commands) /\ Len(Tail(buffered[c])) = Len(buffered[c]) - 1
      BY <1>2, HeadTailProperties
    <3>2. buffered' \in [Clients -> Seq(Commands)] /\ buffered'[c] = Tail(buffered[c])
      BY <2>2, <3>1
    <3>3. thread' \in [Clients -> {"none", "reading", "answering", "ended"}]
          /\ (thread'[c] = "answering" => buffered'[c] # <<>>)
      BY <2>2
    <3> QED
      BY <1>3, <3>1, <3>2, <3>3
  <2> QED
    BY <2>1, <2>2 DEF Answer
<1>5. wire' \in [Clients -> Wires] /\ wire'[c] \in {"open", "answered", "reset"}
      /\ (wire'[c] = "open" <=> wire[c] = "open")
  BY <1>1 DEF Wires
<1>6. answered' \in [Clients -> Nat] /\ answered'[c] = answered[c] + 1
  BY <1>1, <1>3
<1>7. FieldTypes'
  BY <1>1, <1>4, <1>5, <1>6 DEF clientVars
<1>8. answered'[c] + Len(buffered'[c]) + Len(toServer'[c]) <= sent'[c]
  <2>1. answered[c] + Len(buffered[c]) + Len(toServer[c]) <= sent[c]
    BY DEF CommandsOf
  <2> QED
    BY <1>1, <1>3, <1>4, <1>6, <2>1 DEF clientVars
<1>9. wire'[c] \in {"answered", "reset"} => left'[c] > sent'[c] - answered'[c]
  <2>1. wire'[c] \in {"answered", "reset"} => wire[c] \in {"closed", "answered", "reset"}
    BY <1>1, <1>5 DEF Wires
  <2>2. wire[c] \in {"closed", "answered", "reset"} => left[c] >= sent[c] - answered[c]
    BY <1>3 DEF CommandsOf
  <2> QED
    BY <1>1, <1>3, <1>6, <2>1, <2>2 DEF clientVars
<1>10. received'[c] <= answered'[c] /\ left'[c] <= sent'[c]
  <2>1. received[c] <= answered[c] /\ left[c] <= sent[c] /\ received[c] \in Nat
    BY DEF CommandsOf
  <2> QED
    BY <1>1, <1>3, <1>6, <2>1 DEF clientVars
<1>11. wire'[c] # "open" <=> client'[c] = "gone"
  BY <1>1, <1>5 DEF CommandsOf, clientVars
<1> QED
  BY <1>4, <1>5, <1>7, <1>8, <1>9, <1>10, <1>11 DEF CommandsOf

LEMMA TooLongCommands ==
  ASSUME CommandInv, NEW c \in Clients, TooLong(c)
  PROVE  FieldTypes' /\ CommandsOf(c)'
<1> USE DEF CommandInv, FieldTypes
<1>1. UNCHANGED <<clientVars, wire, toServer, answered, process>> /\ Ends(c)
  BY DEF TooLong
<1>2. FieldTypes' /\ buffered'[c] = <<>> /\ thread'[c] = "ended"
  BY <1>1, EmptySeq DEF Ends, clientVars
<1>3. Len(buffered[c]) \in Nat /\ Len(toServer[c]) \in Nat /\ answered[c] \in Nat
      /\ sent[c] \in Nat /\ Len(buffered'[c]) = 0
  BY <1>2, LenProperties, EmptySeq, MonServerAssumption DEF MonServerAssumption
<1> QED
  BY <1>1, <1>2, <1>3 DEF CommandsOf, clientVars

LEMMA ClientCommands ==
  ASSUME CommandInv, NEW c \in Clients,
         ClientConnects(c) \/ (\E command \in Commands : ClientSends(c, command))
           \/ ClientReads(c) \/ ClientLeaves(c) \/ ResetArrives(c) \/ Killed(c)
  PROVE  FieldTypes' /\ CommandsOf(c)'
<1> USE DEF CommandInv, FieldTypes
<1>1. Len(buffered[c]) \in Nat /\ Len(toServer[c]) \in Nat /\ answered[c] \in Nat
      /\ sent[c] \in Nat /\ left[c] \in Nat
  BY LenProperties, MonServerAssumption DEF MonServerAssumption
<1>2. CASE ClientConnects(c)
  <2>1. UNCHANGED <<connectionVars, sent, received, left, process>>
        /\ client[c] = "away" /\ client' = [client EXCEPT ![c] = "here"]
    BY <1>2 DEF ClientConnects
  <2> QED
    BY <2>1 DEF CommandsOf, connectionVars
<1>3. ASSUME NEW command \in Commands, ClientSends(c, command)
      PROVE  FieldTypes' /\ CommandsOf(c)'
  <2>1. /\ UNCHANGED <<client, received, left, wire, thread, buffered, answered, process>>
        /\ client[c] = "here" /\ sent[c] < MaxCommands
        /\ sent' = [sent EXCEPT ![c] = @ + 1]
        /\ toServer' = [toServer EXCEPT ![c] = Append(@, command)]
    BY <1>3 DEF ClientSends
  <2>2. Append(toServer[c], command) \in Seq(Commands)
        /\ Len(Append(toServer[c], command)) = Len(toServer[c]) + 1
    BY AppendProperties
  <2>3. FieldTypes'
    BY <1>1, <2>1, <2>2, MonServerAssumption DEF MonServerAssumption
  <2>4. wire[c] = "open"
    BY <2>1 DEF CommandsOf
  <2> QED
    BY <1>1, <2>1, <2>2, <2>3, <2>4 DEF CommandsOf
<1>4. CASE ClientLeaves(c)
  <2>1. /\ UNCHANGED <<sent, received, toServer, thread, buffered, answered, process>>
        /\ client' = [client EXCEPT ![c] = "gone"]
        /\ left' = [left EXCEPT ![c] = sent[c] - received[c]]
        /\ wire' = [wire EXCEPT ![c] = IF received[c] < answered[c] THEN "answered" ELSE "closed"]
    BY <1>4 DEF ClientLeaves
  <2>2. /\ received[c] \in Nat /\ received[c] <= answered[c]
        /\ answered[c] + Len(buffered[c]) + Len(toServer[c]) <= sent[c]
    BY DEF CommandsOf
  <2>3. sent[c] - received[c] \in Nat /\ sent[c] - received[c] <= sent[c]
    BY <1>1, <2>2
  <2>4. FieldTypes'
    BY <2>1, <2>3 DEF Wires
  <2>5. left'[c] = sent[c] - received[c] /\ client'[c] = "gone"
        /\ wire'[c] = (IF received[c] < answered[c] THEN "answered" ELSE "closed")
    BY <2>1
  <2>6. /\ wire'[c] = "closed" => left'[c] = sent[c] - answered[c]
        /\ wire'[c] \in {"answered", "reset"} => left'[c] > sent[c] - answered[c]
    BY <1>1, <2>2, <2>5
  <2>7. thread[c] = "answering" => buffered[c] # <<>>
    BY DEF CommandsOf
  <2> QED
    BY <2>1, <2>2, <2>3, <2>4, <2>5, <2>6, <2>7 DEF CommandsOf
<1>5. CASE ResetArrives(c)
  <2>1. /\ UNCHANGED <<clientVars, toServer, thread, buffered, answered, process>>
        /\ wire[c] = "answered" /\ wire' = [wire EXCEPT ![c] = "reset"]
    BY <1>5 DEF ResetArrives
  <2> QED
    BY <1>1, <2>1 DEF CommandsOf, clientVars, Wires
<1>6. CASE Killed(c)
  BY <1>6 DEF Killed, CommandsOf, clientVars, connectionVars, Processes
<1>7. CASE ClientReads(c)
  <2>1. /\ UNCHANGED <<client, sent, left, connectionVars, process>>
        /\ received[c] < answered[c] /\ received' = [received EXCEPT ![c] = @ + 1]
    BY <1>7 DEF ClientReads
  <2>2. received[c] \in Nat /\ received'[c] = received[c] + 1 /\ received' \in [Clients -> Nat]
    BY <2>1
  <2>3. FieldTypes'
    BY <2>1, <2>2 DEF connectionVars
  <2> QED
    BY <1>1, <2>1, <2>2, <2>3 DEF CommandsOf, connectionVars
<1> QED
  BY <1>2, <1>3, <1>4, <1>5, <1>6, <1>7

\* A client that is answered when its connection is reset has left a command
\* whose answer was refused and this one.
LEMMA KilledForTwo ==
  ASSUME CommandInv, NEW c \in Clients, Killed(c)
  PROVE  left'[c] >= 2
<1> USE DEF CommandInv, FieldTypes
<1>1. thread[c] = "answering" /\ wire[c] = "reset" /\ left' = left
  BY DEF Killed, clientVars
<1>2. Len(buffered[c]) \in Nat \ {0} /\ Len(toServer[c]) \in Nat
  BY <1>1, LenProperties, EmptySeq DEF CommandsOf
<1>3. answered[c] \in Nat /\ sent[c] \in Nat /\ left[c] \in Nat
  BY MonServerAssumption DEF MonServerAssumption
<1>4. answered[c] + Len(buffered[c]) + Len(toServer[c]) <= sent[c]
      /\ left[c] > sent[c] - answered[c]
  BY <1>1 DEF CommandsOf
<1> QED
  BY <1>1, <1>2, <1>3, <1>4

LEMMA CommandInvStep == CommandInv /\ [Next]_vars => CommandInv'
<1> SUFFICES ASSUME CommandInv, [Next]_vars PROVE CommandInv'
  OBVIOUS
<1>1. ASSUME NEW c \in Clients,
             ConnectionStep(c) \/ ClientConnects(c)
               \/ (\E command \in Commands : ClientSends(c, command))
               \/ ClientReads(c) \/ ClientLeaves(c) \/ ResetArrives(c)
      PROVE  CommandInv'
  <2>1. FieldTypes' /\ CommandsOf(c)'
    BY <1>1, ReadCommands, AnswerCommands, TooLongCommands, ClientCommands DEF ConnectionStep
  <2>2. ASSUME NEW d \in Clients, d # c PROVE CommandsOf(d)'
    <3>1. CommandsOf(d)
      BY DEF CommandInv
    <3> QED
      BY <1>1, <2>2, <3>1, OthersUnchanged DEF CommandInv, CommandsOf
  <2>3. process' = "killed" => \E d \in Clients : left'[d] >= 2
    <3>1. CASE Killed(c)
      BY <3>1, KilledForTwo
    <3>2. ~Killed(c) => process' # "killed"
      <4>1. ASSUME NEW command \in Commands, ClientSends(c, command) PROVE process' = "up"
        BY <4>1 DEF ClientSends
      <4> QED
        BY <1>1, <4>1 DEF ConnectionStep, Read, Answer, TooLong, ClientConnects, ClientReads,
                          ClientLeaves, ResetArrives
    <3> QED
      BY <3>1, <3>2
  <2> QED
    BY <2>1, <2>2, <2>3 DEF CommandInv, SurvivesPoliteClients
<1>2. CASE Stopped
  <2>1. /\ UNCHANGED <<sent, received, left, connectionVars, process>> /\ process = "up"
        /\ client' = [c \in Clients |->
             IF Contains(backlog, c) /\ client[c] = "here" THEN "refused" ELSE client[c]]
    BY <1>2 DEF Stopped
  <2>2. FieldTypes'
    BY <2>1 DEF CommandInv, FieldTypes, connectionVars
  <2>3. ASSUME NEW c \in Clients PROVE CommandsOf(c)'
    BY <2>1 DEF CommandInv, CommandsOf, connectionVars
  <2>4. SurvivesPoliteClients'
    BY <2>1 DEF CommandInv, SurvivesPoliteClients
  <2> QED
    BY <2>2, <2>3, <2>4 DEF CommandInv
<1>3. CASE acceptOne
  <2>1. /\ UNCHANGED <<clientVars, wire, toServer, buffered, answered, process>> /\ process = "up"
        /\ thread' = [thread EXCEPT ![Head(backlog)] = "reading"]
    BY <1>3 DEF acceptOne
  <2>2. FieldTypes'
    BY <2>1 DEF CommandInv, FieldTypes, clientVars
  <2>3. ASSUME NEW c \in Clients PROVE CommandsOf(c)'
    <3>1. thread'[c] = "answering" => thread[c] = "answering"
      BY <2>1 DEF CommandInv, FieldTypes
    <3> QED
      BY <2>1, <3>1 DEF CommandInv, CommandsOf, clientVars
  <2>4. SurvivesPoliteClients'
    BY <2>1 DEF SurvivesPoliteClients
  <2> QED
    BY <2>2, <2>3, <2>4 DEF CommandInv
<1>4. CASE UNCHANGED <<clientVars, connectionVars>> /\ (process' = process \/ process' = "over")
  <2>1. FieldTypes'
    BY <1>4 DEF CommandInv, FieldTypes, clientVars, connectionVars, Processes
  <2>2. ASSUME NEW c \in Clients PROVE CommandsOf(c)'
    BY <1>4 DEF CommandInv, CommandsOf, clientVars, connectionVars
  <2>3. SurvivesPoliteClients'
    BY <1>4 DEF CommandInv, SurvivesPoliteClients, clientVars
  <2> QED
    BY <2>1, <2>2, <2>3 DEF CommandInv
<1>5. ASSUME (\E step \in {"cpu", "socket", "mode", "bind", "listen"} : StartFails(step))
             \/ Start \/ Stop \/ handleShutdown \/ LoopEnds \/ Exit \/ Idle \/ UNCHANGED vars
      PROVE  UNCHANGED <<clientVars, connectionVars>> /\ (process' = process \/ process' = "over")
  BY <1>5 DEF StartFails, Start, Stop, handleShutdown, LoopEnds, Exit, Idle, vars
<1> QED
  BY <1>1, <1>2, <1>3, <1>4, <1>5 DEF Next

\* The process survives its clients as long as none leaves with two commands or
\* more whose answers it has not read, be they on their way or not written yet
\* (sendBack).
THEOREM SurvivesPolite == Spec => []SurvivesPoliteClients
<1>1. CommandInv => SurvivesPoliteClients
  BY DEF CommandInv
<1> QED
  BY <1>1, CommandInvInit, CommandInvStep, PTL DEF Spec

-----------------------------------------------------------------------------
(***************************************************************************)
(* Descriptors.                                                            *)
(***************************************************************************)
\* Who waits to be accepted waits once and has no thread yet.
QueueInv ==
  /\ backlog \in Seq(Clients) /\ Len(backlog) <= ListenBacklog
  /\ \A k \in 1 .. Len(backlog) :
       thread[backlog[k]] = "none" /\ client[backlog[k]] # "away"
  /\ \A k, l \in 1 .. Len(backlog) : backlog[k] = backlog[l] => k = l
  /\ \A c \in Clients : client[c] = "away" => thread[c] = "none"

Stages ==
  /\ caller \in Callers
  /\ callerAt \in {"serving", "joining"} => listening = TRUE
  /\ callerAt \notin {"serving", "joining"} => listening = FALSE
  /\ startFailed \in {"no", "cpu", "socket", "mode", "bind", "listen"}
  /\ startFailed # "no" => callerAt = "failed"
  /\ callerAt = "start" => \A c \in Clients : thread[c] = "none"
  /\ callerAt = "failed" => \A c \in Clients : thread[c] = "none"

Server == IF listening \/ startFailed = "bind" THEN 1 ELSE 0
ServedClients == {c \in Clients : Serving(c)}

DescriptorInv ==
  /\ LoopInv /\ CommandInv /\ QueueInv /\ Stages
  /\ used = Server + Cardinality(ServedClients)
  /\ used <= MaxDescriptors

LEMMA ServedFinite == IsFiniteSet(ServedClients) /\ Cardinality(ServedClients) \in Nat
<1>1. ServedClients \subseteq Clients
  BY DEF ServedClients
<1> QED
  BY <1>1, FS_Subset, FS_CardinalityType, MonServerAssumption DEF MonServerAssumption

\* When the thread of one client changes.
LEMMA ServedChange ==
  ASSUME FieldTypes, NEW c \in Clients, NEW life,
         thread' = [thread EXCEPT ![c] = life]
  PROVE  /\ ~Serving(c) /\ life = "reading" =>
              Cardinality(ServedClients') = Cardinality(ServedClients) + 1
         /\ Serving(c) /\ life = "ended" =>
              /\ Cardinality(ServedClients') = Cardinality(ServedClients) - 1
              /\ Cardinality(ServedClients') \in Nat
         /\ Serving(c) /\ life \in {"reading", "answering"} =>
              ServedClients' = ServedClients
<1> USE DEF FieldTypes, ServedClients, Serving
<1>1. ASSUME ~Serving(c), life = "reading"
      PROVE  Cardinality(ServedClients') = Cardinality(ServedClients) + 1
  <2>1. ServedClients' = ServedClients \cup {c} /\ c \notin ServedClients
    BY <1>1
  <2> QED
    BY <2>1, ServedFinite, FS_AddElement
<1>2. ASSUME Serving(c), life = "ended"
      PROVE  Cardinality(ServedClients') = Cardinality(ServedClients) - 1
             /\ Cardinality(ServedClients') \in Nat
  <2>1. ServedClients' = ServedClients \ {c} /\ c \in ServedClients
    BY <1>2
  <2>2. IsFiniteSet(ServedClients \ {c})
        /\ Cardinality(ServedClients \ {c}) = Cardinality(ServedClients) - 1
    BY <2>1, ServedFinite, FS_RemoveElement
  <2> QED
    BY <2>1, <2>2, FS_CardinalityType
<1>3. ASSUME Serving(c), life \in {"reading", "answering"} PROVE ServedClients' = ServedClients
  BY <1>3
<1> QED
  BY <1>1, <1>2, <1>3

LEMMA DescriptorInvInit == Init => DescriptorInv
<1> SUFFICES ASSUME Init PROVE DescriptorInv
  OBVIOUS
<1>1. LoopInv /\ CommandInv
  BY LoopInvInit, CommandInvInit
<1>2. QueueInv
  BY EmptySeq, MonServerAssumption DEF Init, QueueInv, MonServerAssumption
<1>3. Stages
  BY DEF Init, Stages
<1>4. ServedClients = {}
  BY DEF Init, ServedClients, Serving
<1>5. used = 0 /\ Server = 0
  BY DEF Init, Server
<1>6. Cardinality(ServedClients) = 0
  BY <1>4, FS_EmptySet
<1>7. used = Server + Cardinality(ServedClients) /\ used <= MaxDescriptors
  BY <1>5, <1>6, MonServerAssumption DEF MonServerAssumption
<1> QED
  BY <1>1, <1>2, <1>3, <1>7 DEF DescriptorInv

LEMMA AcceptDescriptors ==
  ASSUME DescriptorInv, acceptOne
  PROVE  QueueInv' /\ Stages' /\ used' = Server' + Cardinality(ServedClients')
         /\ used' <= MaxDescriptors
<1> USE DEF DescriptorInv, CommandInv
<1>1. /\ backlog # <<>> /\ used < MaxDescriptors /\ loop = "looping" /\ used' = used + 1
      /\ thread' = [thread EXCEPT ![Head(backlog)] = "reading"] /\ backlog' = Tail(backlog)
      /\ UNCHANGED <<serverVars, clientVars>>
  BY DEF acceptOne
<1>2. /\ Head(backlog) \in Clients /\ Head(backlog) = backlog[1]
      /\ Tail(backlog) \in Seq(Clients) /\ Len(Tail(backlog)) = Len(backlog) - 1
      /\ Len(backlog) \in Nat \ {0}
      /\ \A k \in 1 .. Len(Tail(backlog)) : Tail(backlog)[k] = backlog[k + 1]
  BY <1>1, HeadTailProperties, EmptySeq DEF QueueInv
<1>3. \A k \in 1 .. Len(backlog) : backlog[k] \in Clients
  BY LenProperties DEF QueueInv
<1>4. thread[Head(backlog)] = "none" /\ client[Head(backlog)] # "away"
  BY <1>2 DEF QueueInv
<1>5. QueueInv'
  <2>1. ASSUME NEW k \in 1 .. Len(backlog')
        PROVE  thread'[backlog'[k]] = "none" /\ client'[backlog'[k]] # "away"
    <3>1. k + 1 \in 1 .. Len(backlog) /\ k + 1 # 1 /\ backlog'[k] = backlog[k + 1]
      BY <1>1, <1>2
    <3>2. backlog[k + 1] # backlog[1]
      BY <1>2, <3>1 DEF QueueInv
    <3> QED
      BY <1>1, <1>2, <1>3, <3>1, <3>2 DEF QueueInv, FieldTypes, clientVars
  <2>2. ASSUME NEW k \in 1 .. Len(backlog'), NEW l \in 1 .. Len(backlog'),
               backlog'[k] = backlog'[l]
        PROVE  k = l
    <3>1. k + 1 \in 1 .. Len(backlog) /\ l + 1 \in 1 .. Len(backlog)
          /\ backlog[k + 1] = backlog[l + 1]
      BY <1>1, <1>2, <2>2
    <3>2. k + 1 = l + 1
      BY <3>1 DEF QueueInv
    <3> QED
      BY <1>1, <1>2, <3>2
  <2>3. ASSUME NEW c \in Clients, client'[c] = "away" PROVE thread'[c] = "none"
    BY <1>1, <1>4, <2>3 DEF QueueInv, FieldTypes, clientVars
  <2>4. backlog' \in Seq(Clients) /\ Len(backlog') <= ListenBacklog
    BY <1>1, <1>2, MonServerAssumption DEF QueueInv, MonServerAssumption
  <2> QED
    BY <2>1, <2>2, <2>3, <2>4 DEF QueueInv
<1>6. callerAt \notin {"start", "failed"}
  BY <1>1 DEF LoopInv
<1>7. Stages' /\ Server' = Server
  BY <1>1, <1>6 DEF Stages, Server, serverVars
<1>8. Cardinality(ServedClients') = Cardinality(ServedClients) + 1
  BY <1>1, <1>2, <1>4, ServedChange DEF Serving
<1>9. Server \in Nat /\ MaxDescriptors \in Nat /\ used = Server + Cardinality(ServedClients)
  BY MonServerAssumption DEF Server, MonServerAssumption
<1>10. used' = Server' + Cardinality(ServedClients') /\ used' <= MaxDescriptors
  <2> HIDE DEF DescriptorInv, CommandInv
  <2> QED
    BY <1>1, <1>7, <1>8, <1>9, ServedFinite
<1> QED
  BY <1>5, <1>7, <1>10

\* A step that touches neither the backlog nor a client that waits in it.
LEMMA QueueKept ==
  ASSUME QueueInv, backlog' = backlog,
         \A c \in Clients : (thread[c] = "none" <=> thread'[c] = "none")
                            /\ (client'[c] = "away" <=> client[c] = "away")
  PROVE  QueueInv'
<1>1. \A k \in 1 .. Len(backlog) : backlog[k] \in Clients
  BY LenProperties DEF QueueInv
<1> QED
  BY <1>1 DEF QueueInv

LEMMA ConnectionDescriptors ==
  ASSUME DescriptorInv, NEW c \in Clients, ConnectionStep(c)
  PROVE  QueueInv' /\ Stages' /\ used' = Server' + Cardinality(ServedClients')
         /\ used' <= MaxDescriptors
<1>1. UNCHANGED <<serverVars, backlog, client>> /\ thread[c] \in {"reading", "answering"}
  BY DEF ConnectionStep, Read, Answer, TooLong, Killed, clientVars
<1>2. FieldTypes
  BY DEF DescriptorInv, CommandInv
<1>3. \/ thread' = thread /\ used' = used
      \/ \E life \in {"reading", "answering"} :
           thread' = [thread EXCEPT ![c] = life] /\ used' = used
      \/ thread' = [thread EXCEPT ![c] = "ended"] /\ used' = used - 1
  <2>1. CASE Read(c)
    BY <2>1 DEF Read, Ends
  <2>2. CASE Answer(c)
    <3>1. CASE Ends(c)
      BY <3>1 DEF Ends
    <3>2. CASE /\ thread' = [thread EXCEPT ![c] = IF buffered'[c] = <<>> THEN "reading" ELSE @]
               /\ used' = used
      <4>1. thread[c] = "answering"
        BY <2>2 DEF Answer
      <4> QED
        BY <3>2, <4>1, <1>2 DEF FieldTypes
    <3> QED
      BY <2>2, <3>1, <3>2 DEF Answer
  <2>3. CASE Killed(c)
    BY <2>3 DEF Killed, connectionVars
  <2>4. CASE TooLong(c)
    BY <2>4 DEF TooLong, Ends
  <2> QED
    BY <2>1, <2>2, <2>3, <2>4 DEF ConnectionStep
<1>4. \A d \in Clients : thread[d] = "none" <=> thread'[d] = "none"
  BY <1>1, <1>2, <1>3 DEF FieldTypes
<1>5. QueueInv'
  BY <1>1, <1>4, QueueKept DEF DescriptorInv
<1>6. Stages' /\ Server' = Server
  BY <1>1, <1>4 DEF DescriptorInv, Stages, Server, serverVars
<1>7. used = Server + Cardinality(ServedClients) /\ used <= MaxDescriptors
      /\ Server \in Nat /\ MaxDescriptors \in Nat
  BY MonServerAssumption DEF DescriptorInv, Server, MonServerAssumption
<1>8. CASE thread' = thread /\ used' = used
  <2>1. ServedClients' = ServedClients
    BY <1>8 DEF ServedClients, Serving
  <2> QED
    BY <1>5, <1>6, <1>7, <1>8, <2>1
<1>9. ASSUME NEW life \in {"reading", "answering"},
             thread' = [thread EXCEPT ![c] = life], used' = used
      PROVE  used' = Server' + Cardinality(ServedClients') /\ used' <= MaxDescriptors
  <2>1. ServedClients' = ServedClients
    BY <1>1, <1>2, <1>9, ServedChange DEF Serving
  <2> QED
    BY <1>6, <1>7, <1>9, <2>1
<1>10. CASE thread' = [thread EXCEPT ![c] = "ended"] /\ used' = used - 1
  <2>1. Cardinality(ServedClients') = Cardinality(ServedClients) - 1
        /\ Cardinality(ServedClients') \in Nat
    BY <1>1, <1>2, <1>10, ServedChange DEF Serving
  <2> QED
    BY <1>5, <1>6, <1>7, <1>10, <2>1, ServedFinite
<1> QED
  BY <1>3, <1>5, <1>6, <1>8, <1>9, <1>10

LEMMA ConnectDescriptors ==
  ASSUME DescriptorInv, NEW c \in Clients, ClientConnects(c)
  PROVE  QueueInv'
<1>1. /\ UNCHANGED thread /\ client[c] = "away" /\ Len(backlog) < ListenBacklog
      /\ client' = [client EXCEPT ![c] = "here"] /\ backlog' = Append(backlog, c)
  BY DEF ClientConnects, connectionVars
<1>2. QueueInv /\ FieldTypes
  BY DEF DescriptorInv, CommandInv
<1>3. /\ backlog' \in Seq(Clients) /\ Len(backlog') = Len(backlog) + 1
      /\ \A k \in 1 .. Len(backlog) : backlog'[k] = backlog[k] /\ backlog[k] \in Clients
      /\ backlog'[Len(backlog) + 1] = c /\ Len(backlog) \in Nat
  BY <1>1, <1>2, AppendProperties, LenProperties DEF QueueInv
<1>4. \A k \in 1 .. Len(backlog) : backlog[k] # c
  BY <1>1, <1>2 DEF QueueInv
<1>5. thread[c] = "none"
  BY <1>1, <1>2 DEF QueueInv
<1>6. ASSUME NEW k \in 1 .. Len(backlog')
      PROVE  thread'[backlog'[k]] = "none" /\ client'[backlog'[k]] # "away"
  <2>1. CASE k = Len(backlog) + 1
    BY <1>1, <1>2, <1>3, <1>5, <2>1 DEF FieldTypes
  <2>2. CASE k \in 1 .. Len(backlog)
    BY <1>1, <1>2, <1>3, <1>4, <2>2 DEF FieldTypes, QueueInv
  <2> QED
    BY <1>3, <2>1, <2>2
<1>7. ASSUME NEW k \in 1 .. Len(backlog'), NEW l \in 1 .. Len(backlog'),
             backlog'[k] = backlog'[l]
      PROVE  k = l
  BY <1>2, <1>3, <1>4, <1>7 DEF QueueInv
<1>8. \A d \in Clients : client'[d] = "away" => thread'[d] = "none"
  BY <1>1, <1>2 DEF QueueInv, FieldTypes
<1>9. Len(backlog') <= ListenBacklog
  BY <1>1, <1>3, MonServerAssumption DEF MonServerAssumption
<1> QED
  BY <1>3, <1>6, <1>7, <1>8, <1>9 DEF QueueInv

LEMMA ProgramDescriptors ==
  ASSUME DescriptorInv,
         (\E step \in {"cpu", "socket", "mode", "bind", "listen"} : StartFails(step))
           \/ Start \/ Stopped
  PROVE  QueueInv' /\ Stages' /\ used' = Server' + Cardinality(ServedClients')
         /\ used' <= MaxDescriptors
<1> USE MonServerAssumption DEF MonServerAssumption
<1>1. QueueInv /\ Stages /\ FieldTypes /\ LoopInv
  BY DEF DescriptorInv, CommandInv
<1>2. callerAt = "start" => ServedClients = {}
  BY <1>1 DEF Stages, ServedClients, Serving
<1>3. ASSUME NEW step \in {"cpu", "socket", "mode", "bind", "listen"}, StartFails(step)
      PROVE  QueueInv' /\ Stages' /\ used' = Server' + Cardinality(ServedClients')
             /\ used' <= MaxDescriptors
  <2>1. /\ UNCHANGED <<caller, listening, client, thread, backlog>> /\ callerAt = "start"
        /\ used' = (IF step = "bind" THEN 1 ELSE 0) /\ startFailed' = step /\ callerAt' = "failed"
    BY <1>3 DEF StartFails, clientVars, connectionVars
  <2>2. QueueInv'
    BY <1>1, <2>1, QueueKept
  <2>3. Stages' /\ listening' = FALSE
    BY <1>1, <2>1 DEF Stages
  <2>4. ServedClients' = {}
    BY <1>2, <2>1 DEF ServedClients, Serving
  <2>5. Server' = used'
    BY <2>1, <2>3 DEF Server
  <2> QED
    BY <2>1, <2>2, <2>3, <2>4, <2>5, FS_EmptySet
<1>4. CASE Start
  <2>1. /\ UNCHANGED <<caller, startFailed, client, thread, backlog>> /\ callerAt = "start"
        /\ used' = 1 /\ listening' = TRUE /\ callerAt' = "serving"
    BY <1>4 DEF Start, clientVars, connectionVars
  <2>2. QueueInv'
    BY <1>1, <2>1, QueueKept
  <2>3. Stages'
    BY <1>1, <2>1 DEF Stages
  <2>4. ServedClients' = {}
    BY <1>2, <2>1 DEF ServedClients, Serving
  <2>5. Server' = 1
    BY <2>1 DEF Server
  <2> QED
    BY <2>1, <2>2, <2>3, <2>4, <2>5, FS_EmptySet
<1>5. CASE Stopped
  <2>1. /\ UNCHANGED <<caller, startFailed, thread>> /\ callerAt = "joining"
        /\ used' = used - 1 /\ listening' = FALSE /\ callerAt' = "stopped" /\ backlog' = <<>>
        /\ client' = [c \in Clients |->
             IF Contains(backlog, c) /\ client[c] = "here" THEN "refused" ELSE client[c]]
    BY <1>5 DEF Stopped, connectionVars
  <2>2. \A c \in Clients : client'[c] = "away" => client[c] = "away"
    BY <2>1
  <2>3. QueueInv'
    BY <1>1, <2>1, <2>2, EmptySeq DEF QueueInv
  <2>4. Stages' /\ listening = TRUE /\ startFailed = "no"
    BY <1>1, <2>1 DEF Stages
  <2>5. ServedClients' = ServedClients
    BY <2>1 DEF ServedClients, Serving
  <2>6. Server = 1 /\ Server' = 0
    BY <2>1, <2>4 DEF Server
  <2>7. used = Server + Cardinality(ServedClients) /\ used <= MaxDescriptors
    BY DEF DescriptorInv
  <2> QED
    BY <2>1, <2>3, <2>4, <2>5, <2>6, <2>7, ServedFinite
<1> QED
  BY <1>3, <1>4, <1>5

LEMMA DescriptorInvStep == DescriptorInv /\ [Next]_vars => DescriptorInv'
<1> SUFFICES ASSUME DescriptorInv, [Next]_vars PROVE DescriptorInv'
  OBVIOUS
<1>1. LoopInv' /\ CommandInv' /\ LoopInv /\ FieldTypes /\ QueueInv /\ Stages
  BY LoopInvStep, CommandInvStep DEF DescriptorInv, CommandInv
<1>2. used = Server + Cardinality(ServedClients) /\ used <= MaxDescriptors
  BY DEF DescriptorInv
<1> SUFFICES QueueInv' /\ Stages' /\ used' = Server' + Cardinality(ServedClients')
             /\ used' <= MaxDescriptors
  BY <1>1 DEF DescriptorInv
<1>3. CASE \/ \E step \in {"cpu", "socket", "mode", "bind", "listen"} : StartFails(step)
           \/ Start \/ Stopped
  BY <1>3, ProgramDescriptors
<1>4. CASE acceptOne
  BY <1>4, AcceptDescriptors
<1>5. ASSUME NEW c \in Clients, ConnectionStep(c)
      PROVE  QueueInv' /\ Stages' /\ used' = Server' + Cardinality(ServedClients')
             /\ used' <= MaxDescriptors
  BY <1>5, ConnectionDescriptors
<1>6. CASE UNCHANGED <<caller, listening, startFailed, thread, used>>
           /\ (callerAt' = callerAt \/ (callerAt = "serving" /\ callerAt' = "joining"))
  <2>1. Stages' /\ Server' = Server
    BY <1>1, <1>6 DEF Stages, Server
  <2>2. ServedClients' = ServedClients
    BY <1>6 DEF ServedClients, Serving
  <2>3. ASSUME NEW c \in Clients, ClientConnects(c) PROVE QueueInv'
    BY <2>3, ConnectDescriptors
  <2>4. ASSUME backlog' = backlog,
               \A c \in Clients : client'[c] = "away" <=> client[c] = "away"
        PROVE  QueueInv'
    BY <1>1, <1>6, <2>4, QueueKept
  <2>5. ASSUME NEW c \in Clients, ClientLeaves(c)
        PROVE  backlog' = backlog /\ \A d \in Clients : client'[d] = "away" <=> client[d] = "away"
    BY <1>1, <2>5 DEF ClientLeaves, FieldTypes
  <2>6. ASSUME NEW c \in Clients,
               ResetArrives(c) \/ ClientReads(c)
                 \/ \E command \in Commands : ClientSends(c, command)
        PROVE  UNCHANGED <<backlog, client>>
    BY <2>6 DEF ResetArrives, ClientReads, ClientSends, clientVars
  <2>7. ASSUME Stop \/ handleShutdown \/ LoopEnds \/ Exit \/ Idle \/ UNCHANGED vars
        PROVE  UNCHANGED <<backlog, client>>
    BY <2>7 DEF Stop, handleShutdown, LoopEnds, Exit, Idle, vars, clientVars
  <2>8. QueueInv'
    BY <1>3, <1>4, <1>5, <2>3, <2>4, <2>5, <2>6, <2>7, ProgramDescriptors DEF Next
  <2> QED
    BY <1>2, <1>6, <2>1, <2>2, <2>8
<1>7. ASSUME NEW c \in Clients,
             ClientConnects(c) \/ (\E command \in Commands : ClientSends(c, command))
               \/ ClientReads(c) \/ ClientLeaves(c) \/ ResetArrives(c)
      PROVE  UNCHANGED <<caller, listening, startFailed, thread, used, callerAt>>
  BY <1>7 DEF ClientConnects, ClientSends, ClientReads, ClientLeaves, ResetArrives, serverVars,
              connectionVars
<1>8. ASSUME Stop \/ handleShutdown \/ LoopEnds \/ Exit \/ Idle \/ UNCHANGED vars
      PROVE  UNCHANGED <<caller, listening, startFailed, thread, used>>
             /\ (callerAt' = callerAt \/ (callerAt = "serving" /\ callerAt' = "joining"))
  BY <1>8 DEF Stop, handleShutdown, LoopEnds, Exit, Idle, vars, serverVars, connectionVars
<1> QED
  BY <1>3, <1>4, <1>5, <1>6, <1>7, <1>8 DEF Next

LEMMA InvTypeOK == DescriptorInv => TypeOK
<1> SUFFICES ASSUME DescriptorInv PROVE TypeOK
  OBVIOUS
<1> USE MonServerAssumption DEF MonServerAssumption
<1>1. LoopInv /\ CommandInv /\ FieldTypes /\ QueueInv /\ Stages
  BY DEF DescriptorInv, CommandInv
<1>2. used \in 0 .. MaxDescriptors
  <2>1. Server \in Nat
    BY DEF Server
  <2>2. used = Server + Cardinality(ServedClients) /\ used <= MaxDescriptors
    BY DEF DescriptorInv
  <2> QED
    BY <2>1, <2>2, ServedFinite
<1>3. ASSUME NEW c \in Clients
      PROVE  answered[c] \in 0 .. sent[c] /\ left[c] \in 0 .. sent[c]
             /\ received[c] \in 0 .. answered[c]
  <2>1. Len(buffered[c]) \in Nat /\ Len(toServer[c]) \in Nat /\ answered[c] \in Nat
        /\ left[c] \in Nat /\ sent[c] \in Nat /\ received[c] \in Nat
    BY <1>1, LenProperties DEF FieldTypes
  <2>2. answered[c] + Len(buffered[c]) + Len(toServer[c]) <= sent[c] /\ left[c] <= sent[c]
        /\ received[c] <= answered[c]
    BY <1>1 DEF CommandInv, CommandsOf
  <2> QED
    BY <2>1, <2>2
<1>4. listening \in BOOLEAN
  BY <1>1 DEF Stages
<1>5. /\ caller \in Callers /\ callerAt \in {"start", "serving", "joining", "stopped", "failed"}
      /\ loop \in {"none", "looping", "ended"} /\ refs \in 0 .. 2 /\ asyncSent \in BOOLEAN
      /\ startFailed \in {"no", "cpu", "socket", "mode", "bind", "listen"}
  BY <1>1 DEF LoopInv, Stages
<1>6. backlog \in Seq(Clients) /\ Len(backlog) <= ListenBacklog
  BY <1>1 DEF QueueInv
<1> QED
  BY <1>1, <1>2, <1>3, <1>4, <1>5, <1>6 DEF TypeOK, FieldTypes, Processes

\* Every variable keeps its type: counts stay within their bounds, and no client
\* has more answers than it has sent commands.
THEOREM TypeCorrect == Spec => []TypeOK
BY InvTypeOK, DescriptorInvInit, DescriptorInvStep, PTL DEF Spec

\* Every descriptor is closed once and none is lost, however connections, start
\* and stop end (socketLoop, start, stop).
THEOREM NoneLost == Spec => []DescriptorsAccount
<1>1. DescriptorInv => DescriptorsAccount
  <2>1. DescriptorInv => used = Server + Cardinality(ServedClients)
    BY DEF DescriptorInv
  <2> QED
    BY <2>1, InvTypeOK DEF DescriptorsAccount, Server, ServedClients
<1> QED
  BY <1>1, DescriptorInvInit, DescriptorInvStep, PTL DEF Spec
=============================================================================
