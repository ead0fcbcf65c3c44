--------------------------- MODULE ReportingProofs ---------------------------
(***************************************************************************)
(* Proofs about Reporting, for any number of threads, addresses, records   *)
(* and intervals: where each Counters object is kept, and what becomes of  *)
(* what is recorded in it.                                                 *)
(***************************************************************************)
EXTENDS Reporting, SumsProofs

\* What lies at an address, and what a thread may be in the middle of.
Objects == {Free} \cup [n : [Kinds -> Nat], latencies : Nat]

Operations ==
  {Idle} \cup [at : {"count"}, c : Addresses, kind : Kinds]
         \cup [at : {"push"}, c : Addresses, kind : Kinds \ {"bytes"}]
         \cup [at : {"event"}, event : EventKinds]

TypeInv ==
  /\ TypeOK
  /\ heap \in [Addresses -> Objects] /\ thread \in [Threads -> Operations]

\* Main holds an object in its loops only.  Threads that have not been started,
\* or have been joined, are in the middle of nothing.
ControlInv ==
  /\ hand # NoAddress =>
       mainAt \in {"interval", "stop"} /\ todo <= numThreads
  /\ mainAt = "done" => ~running
  /\ ~running => \A t \in Threads : thread[t] = Idle
  /\ JustOnce => /\ mainAt \in {"begin", "discard", "join", "stopped", "stop", "done"}
                 /\ running => mainAt = "join" /\ reporting

AloneInv == JustOnce => RecordsIntoItsOwn

OwnInv == TypeInv /\ ControlInv /\ OneOwner

USE DEF NoAddress

LEMMA ThreadsAre ==
  ASSUME JustOnce \in BOOLEAN
  PROVE  /\ numThreads \in Nat \ {0} /\ Threads = 1 .. numThreads
         /\ JustOnce => numThreads = 1
BY ReportingAssumption DEF numThreads, Threads

LEMMA KindsAre == Kinds = {"ok", "failed", "bytes"} /\ Zero \in [Kinds -> Nat]
BY DEF Kinds, Zero

LEMMA ObjectShape ==
  ASSUME NEW o \in Objects
  PROVE  o.n \in [Kinds -> Nat] /\ o.latencies \in Int /\ (o # Free => o.latencies \in Nat)
BY KindsAre DEF Objects, Free

LEMMA NewIsObject == NewCounters \in Objects /\ NewCounters # Free /\ Free \in Objects
BY KindsAre DEF Objects, NewCounters, Free

LEMMA OperationShape ==
  ASSUME NEW o \in Operations
  PROVE  /\ o.at \in {"idle", "count", "push", "event"}
         /\ o.at = "idle" <=> o = Idle
         /\ o.at = "count" => o = [at |-> "count", c |-> o.c, kind |-> o.kind]
                              /\ o.c \in Addresses /\ o.kind \in Kinds
         /\ o.at = "push" => o = [at |-> "push", c |-> o.c, kind |-> o.kind]
                             /\ o.c \in Addresses /\ o.kind \in Kinds \ {"bytes"}
         /\ o.at = "event" => o.event \in EventKinds
BY DEF Operations, Idle

\* The object a thread has counted into: changed, and still an object.
LEMMA WriteIs ==
  ASSUME TypeInv, NEW c \in Addresses, NEW o \in Objects, o # Free, Write(c, o)
  PROVE  /\ heap' \in [Addresses -> Objects]
         /\ \A a \in Addresses : a # c => heap'[a] = heap[a]
         /\ heap'[c] = IF heap[c] = Free THEN Free ELSE o
         /\ Allocated' = Allocated
BY DEF TypeInv, Write, Allocated

\* The object at c after a count of kind k.
CountedAt(c, k) == [heap[c] EXCEPT !.n[k] = @ + 1]
PushedAt(c) == [heap[c] EXCEPT !.latencies = @ + 1]

LEMMA CountedIs ==
  ASSUME TypeInv, NEW c \in Addresses, heap[c] # Free, NEW k \in Kinds
  PROVE  /\ CountedAt(c, k) \in Objects /\ CountedAt(c, k) # Free
         /\ CountedAt(c, k).latencies = heap[c].latencies
         /\ CountedAt(c, k).n = [heap[c].n EXCEPT ![k] = @ + 1]
<1>1. heap[c] \in [n : [Kinds -> Nat], latencies : Nat]
  BY DEF TypeInv, Objects
<1> QED BY <1>1 DEF CountedAt, Objects, Free

LEMMA PushedIs ==
  ASSUME TypeInv, NEW c \in Addresses, heap[c] # Free
  PROVE  /\ PushedAt(c) \in Objects /\ PushedAt(c) # Free
         /\ PushedAt(c).latencies = heap[c].latencies + 1
         /\ PushedAt(c).n = heap[c].n
<1>1. heap[c] \in [n : [Kinds -> Nat], latencies : Nat]
  BY DEF TypeInv, Objects
<1> QED BY <1>1 DEF PushedAt, Objects, Free

\* Count and PushLatency change one object, if it is one, and nothing that owns.
LEMMA CountHeap ==
  ASSUME TypeInv, NEW t \in Threads, Count(t)
  PROVE  /\ thread[t].c \in Addresses /\ thread[t].kind \in Kinds
         /\ heap' \in [Addresses -> Objects] /\ Allocated' = Allocated
         /\ \A a \in Addresses : a # thread[t].c => heap'[a] = heap[a]
         /\ heap[thread[t].c] = Free => heap'[thread[t].c] = Free
         /\ heap[thread[t].c] # Free =>
              heap'[thread[t].c] = CountedAt(thread[t].c, thread[t].kind)
         /\ alive' \in BOOLEAN /\ (heap[thread[t].c] # Free => alive' = alive)
<1>1. thread[t].c \in Addresses /\ thread[t].kind \in Kinds
  BY OperationShape DEF TypeInv, Count
<1>2. Write(thread[t].c, CountedAt(thread[t].c, thread[t].kind))
  BY DEF Count, CountedAt
<1>3. CASE heap[thread[t].c] = Free
  BY <1>1, <1>2, <1>3 DEF Write, Allocated, TypeInv
<1>4. CASE heap[thread[t].c] # Free
  <2>1. alive' = alive /\ alive \in BOOLEAN
    BY <1>1, <1>2, <1>4 DEF Write, Allocated, TypeInv, TypeOK
  <2> QED BY <1>1, <1>2, <1>4, <2>1, CountedIs, WriteIs
<1> QED BY <1>1, <1>3, <1>4

LEMMA PushHeap ==
  ASSUME TypeInv, NEW t \in Threads, PushLatency(t)
  PROVE  /\ thread[t].c \in Addresses
         /\ heap' \in [Addresses -> Objects] /\ Allocated' = Allocated
         /\ \A a \in Addresses : a # thread[t].c => heap'[a] = heap[a]
         /\ heap[thread[t].c] = Free => heap'[thread[t].c] = Free
         /\ heap[thread[t].c] # Free => heap'[thread[t].c] = PushedAt(thread[t].c)
         /\ alive' \in BOOLEAN /\ (heap[thread[t].c] # Free => alive' = alive)
<1>1. thread[t].c \in Addresses
  BY OperationShape DEF TypeInv, PushLatency
<1>2. Write(thread[t].c, PushedAt(thread[t].c))
  BY DEF PushLatency, PushedAt
<1>3. CASE heap[thread[t].c] = Free
  BY <1>1, <1>2, <1>3 DEF Write, Allocated, TypeInv
<1>4. CASE heap[thread[t].c] # Free
  <2>1. alive' = alive /\ alive \in BOOLEAN
    BY <1>1, <1>2, <1>4 DEF Write, Allocated, TypeInv, TypeOK
  <2> QED BY <1>1, <1>2, <1>4, <2>1, PushedIs, WriteIs
<1> QED BY <1>1, <1>3, <1>4

LEMMA AllocatableIsFree == Allocatable \subseteq Addresses \ Allocated
BY DEF Allocatable

-----------------------------------------------------------------------------
(***************************************************************************)
(* Types and control.                                                      *)
(***************************************************************************)
LEMMA TypeInit == Init => TypeInv /\ ControlInv
<1> SUFFICES ASSUME Init PROVE TypeInv /\ ControlInv
  OBVIOUS
<1>1. JustOnce \in BOOLEAN /\ phase \in {"warmup", "run"}
  BY ReportingAssumption DEF Init
<1>2. /\ numThreads \in Nat \ {0} /\ Threads = 1 .. numThreads
      /\ Threads \subseteq Addresses
  BY <1>1, ReportingAssumption DEF numThreads, Threads, Addresses
<1>3. NoEvents \in [EventKinds -> Nat]
  BY DEF NoEvents
<1>4. heap \in [Addresses -> Objects]
  BY NewIsObject DEF Init
<1>5. thread \in [Threads -> Operations]
  BY DEF Init, Operations
<1>6. counterPtr \in [Threads -> Addresses]
  BY <1>2 DEF Init
<1>7. TypeOK
  <2>1. /\ 0 \in 0 .. MaxIntervals /\ 1 \in 1 .. numThreads + 1
        /\ MaxRecords \in 0 .. MaxRecords /\ 0 \in Nat
    BY <1>2, ReportingAssumption
  <2>2. accumulatedResults \in Seq(Addresses)
    BY DEF Init
  <2> QED BY <1>1, <1>3, <1>6, <2>1, <2>2, KindsAre DEF Init, TypeOK
<1>8. ControlInv
  BY DEF Init, ControlInv
<1> QED BY <1>4, <1>5, <1>7, <1>8 DEF TypeInv

LEMMA ThreadTypes ==
  ASSUME TypeInv, ControlInv, NEW t \in Threads, ThreadNext(t)
  PROVE  TypeInv' /\ ControlInv'
<1> USE DEF TypeInv, ControlInv, mainVars
<1>0. JustOnce' = JustOnce => Threads' = Threads /\ numThreads' = numThreads
  BY DEF Threads, numThreads
<1>a. thread[t] \in Operations /\ counterPtr[t] \in Addresses /\ Idle \in Operations
  BY DEF TypeOK, Operations
<1>b. left > 0 /\ left \in 0 .. MaxRecords => left - 1 \in 0 .. MaxRecords
  BY ReportingAssumption
<1>1. ASSUME NEW kind \in {"ok", "failed"}, recordResult(t, kind)
      PROVE  TypeInv' /\ ControlInv'
  <2>1. [at |-> "count", c |-> counterPtr[t], kind |-> kind] \in Operations
    BY <1>a, KindsAre DEF Operations
  <2>2. thread' \in [Threads -> Operations] /\ left' \in 0 .. MaxRecords
    BY <1>1, <2>1, <1>b DEF recordResult, Begin, TypeOK
  <2>3. running /\ running' = running
    BY <1>1 DEF recordResult, Begin
  <2> QED BY <1>1, <1>0, <2>2, <2>3 DEF recordResult, TypeOK
<1>2. CASE recordBytes(t)
  <2>1. [at |-> "count", c |-> counterPtr[t], kind |-> "bytes"] \in Operations
    BY <1>a, KindsAre DEF Operations
  <2>2. thread' \in [Threads -> Operations] /\ left' \in 0 .. MaxRecords
    BY <1>2, <2>1, <1>b DEF recordBytes, Begin, TypeOK
  <2>3. running /\ running' = running
    BY <1>2 DEF recordBytes, Begin
  <2> QED BY <1>2, <1>0, <2>2, <2>3 DEF recordBytes, TypeOK
<1>3. CASE Count(t)
  <2>1. thread[t].at = "count" /\ thread[t] # Idle
    BY <1>3 DEF Count, Idle
  <2>2. running
    BY <2>1
  <2>3. /\ thread[t].c \in Addresses /\ thread[t].kind \in Kinds
        /\ heap' \in [Addresses -> Objects] /\ alive' \in BOOLEAN
    BY <1>3, CountHeap
  <2>4. thread[t].kind # "bytes" => [thread[t] EXCEPT !.at = "push"] \in Operations
    <3> SUFFICES ASSUME thread[t].kind # "bytes"
                 PROVE  [thread[t] EXCEPT !.at = "push"] \in Operations
      OBVIOUS
    <3>1. thread[t] = [at |-> "count", c |-> thread[t].c, kind |-> thread[t].kind]
      BY <1>a, <2>1, OperationShape
    <3>2. [thread[t] EXCEPT !.at = "push"] = [at |-> "push", c |-> thread[t].c, kind |-> thread[t].kind]
      BY <3>1
    <3> QED BY <2>3, <3>2 DEF Operations
  <2>5. thread' \in [Threads -> Operations]
    BY <1>3, <1>a, <2>4 DEF Count
  <2>6. recorded' \in [Kinds -> Nat]
    BY <1>3, <2>3 DEF Count, TypeOK
  <2>7. UNCHANGED <<mainVars, counterPtr, events, left, happened>>
    BY <1>3 DEF Count
  <2> QED BY <1>0, <2>2, <2>3, <2>5, <2>6, <2>7 DEF TypeOK
<1>4. CASE PushLatency(t)
  <2>1. thread[t] # Idle
    BY <1>4 DEF PushLatency, Idle
  <2>2. running
    BY <2>1
  <2>3. heap' \in [Addresses -> Objects] /\ alive' \in BOOLEAN
    BY <1>4, PushHeap
  <2>5. thread' \in [Threads -> Operations]
    BY <1>4, <1>a DEF PushLatency
  <2>7. UNCHANGED <<mainVars, counterPtr, events, left, recorded, happened>>
    BY <1>4 DEF PushLatency
  <2> QED BY <1>0, <2>2, <2>3, <2>5, <2>7 DEF TypeOK
<1>5. ASSUME NEW e \in EventKinds, RecordEvent(t, e)
      PROVE  TypeInv' /\ ControlInv'
  <2>1. [at |-> "event", event |-> e] \in Operations
    BY DEF Operations
  <2>2. thread' \in [Threads -> Operations] /\ left' \in 0 .. MaxRecords
    BY <1>5, <2>1, <1>a, <1>b DEF RecordEvent, Begin, TypeOK
  <2>3. running /\ happened' \in [EventKinds -> Nat]
    BY <1>5 DEF RecordEvent, Begin, TypeOK
  <2> QED BY <1>5, <1>0, <2>2, <2>3 DEF RecordEvent, TypeOK
<1>6. CASE CountEvent(t)
  <2>1. thread[t] # Idle /\ thread[t].event \in EventKinds
    BY <1>6, <1>a, OperationShape DEF CountEvent, Idle
  <2>2. running
    BY <2>1
  <2>3. thread' \in [Threads -> Operations] /\ events' \in [EventKinds -> Nat]
    BY <1>6, <1>a, <2>1 DEF CountEvent, TypeOK
  <2>4. UNCHANGED <<mainVars, alive, counterPtr, heap, left, recorded, happened>>
    BY <1>6 DEF CountEvent
  <2> QED BY <1>0, <2>2, <2>3, <2>4 DEF TypeOK
<1> QED BY <1>1, <1>2, <1>3, <1>4, <1>5, <1>6 DEF ThreadNext

LEMMA MainTypes ==
  ASSUME TypeInv, ControlInv, MainNext, UNCHANGED alive
  PROVE  TypeInv' /\ ControlInv'
<1> USE DEF TypeInv, ControlInv
<1>0. JustOnce' = JustOnce => Threads' = Threads /\ numThreads' = numThreads
  BY DEF Threads, numThreads
<1>a. numThreads \in Nat \ {0} /\ Threads = 1 .. numThreads
  BY ThreadsAre DEF TypeOK
<1>b. \A a \in Allocatable : a \in Addresses
  BY AllocatableIsFree
<1>1. CASE StartThreads
  BY <1>1, <1>0 DEF StartThreads, TypeOK
<1>2. CASE RecordStart
  <2>1. heap' \in [Addresses -> Objects]
    BY <1>2, NewIsObject DEF RecordStart
  <2>2. NoEvents \in [EventKinds -> Nat] /\ 1 \in 1 .. numThreads + 1
    BY <1>a DEF NoEvents
  <2>3. hand = NoAddress
    BY <1>2 DEF RecordStart
  <2>4. TypeInv'
    BY <1>2, <1>0, <2>1, <2>2, KindsAre DEF RecordStart, TypeOK
  <2>5. ControlInv'
    BY <1>2, <1>0, <2>3 DEF RecordStart
  <2> QED BY <2>4, <2>5
<1>3. CASE Discard
  <2>1. PICK a \in Allocatable :
          /\ exchangeCounters(todo, a)
          /\ heap' = [heap EXCEPT ![a] = NewCounters, ![counterPtr[todo]] = Free]
    BY <1>3 DEF Discard
  <2>2. heap' \in [Addresses -> Objects]
    BY <2>1, NewIsObject
  <2>3. counterPtr' \in [Threads -> Addresses] /\ overtaken' \in Nat
    <3>1. a \in Addresses
      BY <1>b
    <3>2. overtaken' = overtaken + 1 \/ overtaken' = overtaken
      BY <2>1 DEF exchangeCounters
    <3>3. counterPtr' = [counterPtr EXCEPT ![todo] = a]
      BY <2>1 DEF exchangeCounters
    <3>4. todo \in Threads
      BY <1>3, <1>a DEF Discard, TypeOK
    <3> QED BY <3>1, <3>2, <3>3, <3>4 DEF TypeOK
  <2>4. todo' \in 1 .. numThreads + 1 /\ mainAt = "discard" /\ mainAt' = mainAt
    BY <1>3, <1>a DEF Discard, TypeOK
  <2>5. UNCHANGED <<JustOnce, mainAt, phase, intervals, hand, accumulatedResults, totals,
                 reporting, running, events, thread, left, recorded, happened>>
    BY <1>3 DEF Discard
  <2> QED BY <1>0, <2>2, <2>3, <2>4, <2>5 DEF TypeOK
<1>4. CASE StartReporting
  <2>1. MaxIntervals \in 0 .. MaxIntervals
    BY ReportingAssumption
  <2> QED BY <1>4, <1>0, <2>1 DEF StartReporting, TypeOK
<1>5. CASE ReportInterval
  <2>1. intervals - 1 \in 0 .. MaxIntervals /\ 1 \in 1 .. numThreads + 1
    BY <1>5, <1>a, ReportingAssumption DEF ReportInterval, TypeOK
  <2> QED BY <1>5, <1>0, <2>1 DEF ReportInterval, TypeOK
<1>6. CASE Exchange
  <2>1. PICK a \in Allocatable :
          exchangeCounters(todo, a) /\ heap' = [heap EXCEPT ![a] = NewCounters]
    BY <1>6 DEF Exchange
  <2>2. heap' \in [Addresses -> Objects]
    BY <2>1, NewIsObject
  <2>3. /\ counterPtr' \in [Threads -> Addresses] /\ overtaken' \in Nat
        /\ todo \in Threads
    BY <1>6, <1>a, <1>b, <2>1 DEF Exchange, exchangeCounters, TypeOK
  <2>4. hand' \in Addresses
    BY <1>6, <2>3 DEF Exchange, TypeOK
  <2>5. UNCHANGED <<JustOnce, mainAt, phase, intervals, todo, accumulatedResults, totals,
                 reporting, running, events, thread, left, recorded, happened>>
    BY <1>6 DEF Exchange
  <2>6. mainAt \in {"interval", "stop"} /\ todo <= numThreads
    BY <1>6 DEF Exchange
  <2> QED BY <1>0, <2>2, <2>3, <2>4, <2>5, <2>6 DEF TypeOK
<1>7. CASE Collect
  <2>1. hand \in Addresses /\ heap[hand].n \in [Kinds -> Nat]
    BY <1>7, ObjectShape DEF Collect, TypeOK
  <2>2. totals' \in [Kinds -> Nat]
    BY <1>7, <2>1 DEF Collect, TypeOK, Plus
  <2>3. accumulatedResults' \in Seq(Addresses)
    BY <1>7, <2>1 DEF Collect, TypeOK
  <2>4. todo' \in 1 .. numThreads + 1
    BY <1>7, <1>a DEF Collect, TypeOK
  <2> QED BY <1>7, <1>0, <2>2, <2>3, <2>4 DEF Collect, TypeOK
<1>8. CASE LoopDone("interval", "wait")
  BY <1>8, <1>0 DEF LoopDone, TypeOK
<1>9. CASE LoopDone("stop", IF JustOnce THEN "done" ELSE "join")
  BY <1>9, <1>0 DEF LoopDone, TypeOK
<1>10. CASE EndWarmup
  BY <1>10, <1>0 DEF EndWarmup, TypeOK
<1>11. CASE RecordStop
  <2>1. 1 \in 1 .. numThreads + 1
    BY <1>a
  <2> QED BY <1>11, <1>0, <2>1 DEF RecordStop, TypeOK
<1>12. CASE Join
  BY <1>12, <1>0 DEF Join, TypeOK
<1> QED BY <1>1, <1>2, <1>3, <1>4, <1>5, <1>6, <1>7, <1>8, <1>9, <1>10, <1>11, <1>12 DEF MainNext

\* A step that changes nothing.
LEMMA StutterTypes ==
  ASSUME TypeInv, ControlInv, UNCHANGED vars
  PROVE  TypeInv' /\ ControlInv'
<1>1. Threads' = Threads /\ numThreads' = numThreads
  BY DEF Threads, numThreads, vars, mainVars
<1> QED BY <1>1 DEF TypeInv, ControlInv, TypeOK, vars, mainVars

-----------------------------------------------------------------------------
(***************************************************************************)
(* Who owns what.                                                          *)
(***************************************************************************)
Kept == Range(accumulatedResults)
Held == {hand} \ {NoAddress}
InUse == Range(counterPtr)

\* OneOwner without the types.
Apart ==
  /\ IsInjective(counterPtr) /\ IsInjective(accumulatedResults)
  /\ Allocated = InUse \cup Kept \cup Held
  /\ InUse \cap (Kept \cup Held) = {} /\ Kept \cap Held = {}

LEMMA OneOwnerIs == OneOwner <=> TypeOK /\ Apart /\ AloneInv
BY DEF OneOwner, Placed, AloneInv, Apart, Kept, Held, InUse

LEMMA SameOwners ==
  ASSUME Apart, UNCHANGED <<counterPtr, accumulatedResults, hand>>, Allocated' = Allocated
  PROVE  Apart'
BY DEF Apart, Kept, Held, InUse

LEMMA OwnInit == Init => Apart
<1> SUFFICES ASSUME Init PROVE Apart
  OBVIOUS
<1>1. JustOnce \in BOOLEAN
  BY ReportingAssumption DEF Init
<1>2. Threads \subseteq Addresses
  BY <1>1, ReportingAssumption DEF numThreads, Threads, Addresses
<1>3. InUse = Threads
  BY DEF Init, InUse, Range
<1>4. Allocated = Threads
  BY <1>2, NewIsObject DEF Init, Allocated
<1>5. Kept = {} /\ Held = {}
  BY DEF Init, Kept, Held, Range
<1>6. IsInjective(counterPtr) /\ IsInjective(accumulatedResults)
  BY DEF Init, IsInjective
<1> QED BY <1>3, <1>4, <1>5, <1>6 DEF Apart

LEMMA ThreadOwn ==
  ASSUME OwnInv, NEW t \in Threads, ThreadNext(t)
  PROVE  Apart'
<1>0. Apart /\ TypeInv
  BY OneOwnerIs DEF OwnInv
<1>1. UNCHANGED <<counterPtr, accumulatedResults, hand>>
  BY DEF ThreadNext, recordResult, recordBytes, Count, PushLatency, RecordEvent, CountEvent,
         mainVars
<1>2. heap' = heap => Allocated' = Allocated
  BY DEF Allocated
<1>3. Allocated' = Allocated
  <2>1. CASE Count(t)
    BY <1>0, <2>1, CountHeap
  <2>2. CASE PushLatency(t)
    BY <1>0, <2>2, PushHeap
  <2>3. CASE ~Count(t) /\ ~PushLatency(t)
    BY <1>2, <2>3 DEF ThreadNext, recordResult, recordBytes, RecordEvent, CountEvent
  <2> QED BY <2>1, <2>2, <2>3
<1> QED BY <1>0, <1>1, <1>3, SameOwners

\* A new object for thread j: the address was nobody's, and the one it had goes.
LEMMA ExchangeOwn ==
  ASSUME OwnInv, NEW j \in Threads, NEW a \in Allocatable,
         counterPtr' = [counterPtr EXCEPT ![j] = a]
  PROVE  /\ counterPtr[j] \in InUse /\ counterPtr[j] # a
         /\ a \in Addresses /\ a # NoAddress
         /\ heap[a] = Free /\ a \notin Allocated
         /\ InUse' = (InUse \ {counterPtr[j]}) \cup {a}
         /\ IsInjective(counterPtr')
<1>1. a \in Addresses \ Allocated
  BY AllocatableIsFree
<1>2. a # NoAddress /\ a \notin InUse /\ heap[a] = Free
  BY <1>1, OneOwnerIs DEF OwnInv, Apart, Addresses, Allocated
<1>3. counterPtr \in [Threads -> Addresses] /\ IsInjective(counterPtr)
  BY OneOwnerIs DEF OwnInv, TypeOK, Apart
<1>4. counterPtr[j] \in InUse
  BY <1>3 DEF InUse, Range
<1>5. \A t \in Threads : counterPtr'[t] = IF t = j THEN a ELSE counterPtr[t]
  BY <1>3
<1>6. DOMAIN counterPtr' = Threads
  BY <1>3
<1>7. \A t \in Threads : t # j => counterPtr[t] # counterPtr[j] /\ counterPtr[t] # a
  BY <1>2, <1>3 DEF IsInjective, InUse, Range
<1>8. IsInjective(counterPtr')
  BY <1>3, <1>5, <1>6, <1>7 DEF IsInjective
<1>9. InUse' = (InUse \ {counterPtr[j]}) \cup {a}
  BY <1>3, <1>5, <1>6, <1>7 DEF InUse, Range
<1> QED BY <1>1, <1>2, <1>4, <1>8, <1>9

LEMMA MainOwn ==
  ASSUME OwnInv, MainNext
  PROVE  Apart'
<1>0. Apart /\ TypeInv /\ ControlInv /\ TypeOK
  BY OneOwnerIs DEF OwnInv
<1>a. numThreads \in Nat \ {0} /\ Threads = 1 .. numThreads
  BY <1>0, ThreadsAre DEF TypeOK
<1>b. heap \in [Addresses -> Objects]
  BY <1>0 DEF TypeInv
<1>1. CASE RecordStart
  <2>1. /\ accumulatedResults' = <<>> /\ UNCHANGED <<counterPtr, hand>>
        /\ heap' = [a \in Addresses |-> IF a \in Kept THEN Free ELSE heap[a]]
    BY <1>1 DEF RecordStart, Kept
  <2>2. hand = NoAddress
    BY <1>0, <1>1 DEF RecordStart, ControlInv
  <2>3. Held = {} /\ Held' = {} /\ Kept' = {} /\ InUse' = InUse
    BY <2>1, <2>2 DEF Held, Kept, InUse, Range
  <2>4. Allocated' = Allocated \ Kept
    BY <2>1 DEF Allocated
  <2>5. Allocated' = InUse
    BY <1>0, <2>3, <2>4 DEF Apart
  <2>6. IsInjective(counterPtr') /\ IsInjective(accumulatedResults')
    BY <1>0, <2>1 DEF Apart, IsInjective
  <2> QED BY <2>3, <2>5, <2>6 DEF Apart
<1>2. CASE Discard
  <2>1. PICK a \in Allocatable :
          /\ counterPtr' = [counterPtr EXCEPT ![todo] = a]
          /\ heap' = [heap EXCEPT ![a] = NewCounters, ![counterPtr[todo]] = Free]
    BY <1>2 DEF Discard, exchangeCounters
  <2>2. todo \in Threads
    BY <1>0, <1>2, <1>a DEF Discard, TypeOK
  <2> DEFINE old == counterPtr[todo]
  <2>3. /\ old \in InUse /\ old # a /\ a \in Addresses /\ a \notin Allocated
        /\ InUse' = (InUse \ {old}) \cup {a} /\ IsInjective(counterPtr')
    BY <2>1, <2>2, ExchangeOwn
  <2>4. UNCHANGED <<hand, accumulatedResults>>
    BY <1>2 DEF Discard
  <2>5. Kept' = Kept /\ Held' = Held /\ IsInjective(accumulatedResults')
    BY <1>0, <2>4 DEF Kept, Held, Apart
  <2>6. old \in Addresses
    BY <1>0, <2>2 DEF TypeOK
  <2>7. Allocated' = (Allocated \ {old}) \cup {a}
    <3>1. \A b \in Addresses : heap'[b] = IF b = old THEN Free ELSE IF b = a THEN NewCounters ELSE heap[b]
      BY <1>b, <2>1, <2>3, <2>6
    <3> HIDE DEF old
    <3> QED BY <2>3, <2>6, <3>1, NewIsObject DEF Allocated
  <2> HIDE DEF old
  <2>8. a \notin Kept /\ a \notin Held /\ a \notin InUse /\ old \notin Kept /\ old \notin Held
    BY <1>0, <2>3 DEF Apart
  <2> QED BY <1>0, <2>3, <2>5, <2>7, <2>8 DEF Apart
<1>3. CASE Exchange
  <2>1. PICK a \in Allocatable :
          /\ counterPtr' = [counterPtr EXCEPT ![todo] = a]
          /\ heap' = [heap EXCEPT ![a] = NewCounters]
    BY <1>3 DEF Exchange, exchangeCounters
  <2>2. todo \in Threads
    BY <1>0, <1>3, <1>a DEF Exchange, TypeOK
  <2> DEFINE old == counterPtr[todo]
  <2>3. /\ old \in InUse /\ old # a /\ a \in Addresses /\ a \notin Allocated
        /\ InUse' = (InUse \ {old}) \cup {a} /\ IsInjective(counterPtr')
    BY <2>1, <2>2, ExchangeOwn
  <2>4. hand = NoAddress /\ hand' = old /\ accumulatedResults' = accumulatedResults
    BY <1>3 DEF Exchange
  <2>5. old \in Addresses /\ old # NoAddress
    BY <1>0, <2>2 DEF TypeOK, Addresses
  <2>6. Kept' = Kept /\ Held = {} /\ Held' = {old} /\ IsInjective(accumulatedResults')
    BY <1>0, <2>4, <2>5 DEF Kept, Held, Apart
  <2>7. Allocated' = Allocated \cup {a}
    BY <1>b, <2>1, <2>3, NewIsObject DEF Allocated
  <2> HIDE DEF old
  <2>8. a \notin Kept /\ a \notin InUse /\ old \notin Kept
    BY <1>0, <2>3 DEF Apart
  <2> QED BY <1>0, <2>3, <2>6, <2>7, <2>8 DEF Apart
<1>4. CASE Collect
  <2>1. /\ hand # NoAddress /\ hand' = NoAddress /\ UNCHANGED <<counterPtr, heap>>
        /\ accumulatedResults' = Append(accumulatedResults, hand)
    BY <1>4 DEF Collect
  <2>2. Held = {hand} /\ Held' = {} /\ InUse' = InUse /\ Allocated' = Allocated
    BY <2>1 DEF Held, InUse, Allocated
  <2>3. accumulatedResults \in Seq(Addresses) /\ hand \in Addresses
    BY <1>0, <2>1 DEF TypeOK
  <2> DEFINE n == Len(accumulatedResults)
  <2>4. /\ DOMAIN accumulatedResults = 1 .. n /\ DOMAIN accumulatedResults' = 1 .. n + 1
        /\ n \in Nat
        /\ accumulatedResults'[n + 1] = hand
        /\ \A i \in 1 .. n : accumulatedResults'[i] = accumulatedResults[i]
    BY <2>1, <2>3
  <2> HIDE DEF n
  <2>5. Kept' = Kept \cup {hand}
    BY <2>4 DEF Kept, Range
  <2>6. hand \notin Kept
    BY <1>0, <2>2 DEF Apart
  <2>7. \A i \in 1 .. n : accumulatedResults[i] # hand
    BY <2>4, <2>6 DEF Kept, Range
  <2>8. IsInjective(accumulatedResults')
    BY <1>0, <2>4, <2>7 DEF Apart, IsInjective
  <2>9. IsInjective(counterPtr')
    BY <1>0, <2>1 DEF Apart
  <2> QED BY <1>0, <2>2, <2>5, <2>8, <2>9 DEF Apart
<1>5. CASE UNCHANGED <<counterPtr, accumulatedResults, hand, heap>>
  <2>1. Allocated' = Allocated
    BY <1>5 DEF Allocated
  <2> QED BY <1>0, <1>5, <2>1, SameOwners
<1>6. \/ RecordStart \/ Discard \/ Exchange \/ Collect
      \/ UNCHANGED <<counterPtr, accumulatedResults, hand, heap>>
  BY DEF MainNext, StartThreads, StartReporting, ReportInterval, LoopDone, EndWarmup,
         RecordStop, Join
<1> QED BY <1>1, <1>2, <1>3, <1>4, <1>5, <1>6

\* With "-1" the thread records into its current object: it takes that one, and
\* it does not run while main exchanges it.  So what it writes into is there.
LEMMA AloneInit == Init => AloneInv
BY DEF Init, AloneInv, RecordsIntoItsOwn, Counting, Idle

LEMMA ThreadAlone ==
  ASSUME OwnInv, NEW t \in Threads, ThreadNext(t)
  PROVE  AloneInv'
<1>0. TypeInv /\ Apart /\ AloneInv
  BY OneOwnerIs DEF OwnInv
<1>1. UNCHANGED <<JustOnce, counterPtr>>
  BY DEF ThreadNext, recordResult, recordBytes, Count, PushLatency, RecordEvent, CountEvent,
         mainVars
<1>2. Threads' = Threads
  BY <1>1 DEF Threads, numThreads
<1> SUFFICES ASSUME JustOnce PROVE RecordsIntoItsOwn'
  BY <1>1 DEF AloneInv
<1>3. alive /\ \A u \in Threads : Counting(u) => thread[u].c = counterPtr[u]
  BY <1>0 DEF AloneInv, RecordsIntoItsOwn
<1>4. heap[counterPtr[t]] # Free
  BY <1>0 DEF Apart, InUse, Range, Allocated, TypeInv, TypeOK
<1> DEFINE Own == /\ alive' = alive
                  /\ \A u \in Threads : u # t => thread'[u] = thread[u]
                  /\ thread'[t].at \in {"count", "push"} => thread'[t].c = counterPtr[t]
<1>5. Own
  <2>0. thread \in [Threads -> Operations]
    BY <1>0 DEF TypeInv
  <2>1. ASSUME NEW kind \in {"ok", "failed"}, recordResult(t, kind)
        PROVE  Own
    BY <2>0, <2>1 DEF recordResult, Begin
  <2>2. CASE recordBytes(t)
    BY <2>0, <2>2 DEF recordBytes, Begin
  <2>3. CASE Count(t)
    <3>1. Counting(t) /\ thread[t].c = counterPtr[t]
      BY <1>3, <2>3 DEF Count, Counting
    <3>2. alive' = alive
      BY <1>0, <1>4, <2>3, <3>1, CountHeap
    <3>3. thread' = [thread EXCEPT ![t] = IF thread[t].kind = "bytes" THEN Idle
                                          ELSE [thread[t] EXCEPT !.at = "push"]]
      BY <2>3 DEF Count
    <3>4. thread[t] = [at |-> "count", c |-> thread[t].c, kind |-> thread[t].kind]
      BY <2>0, <2>3, OperationShape DEF Count
    <3> QED BY <2>0, <3>1, <3>2, <3>3, <3>4 DEF Idle
  <2>4. CASE PushLatency(t)
    <3>1. Counting(t) /\ thread[t].c = counterPtr[t]
      BY <1>3, <2>4 DEF PushLatency, Counting
    <3>2. alive' = alive
      BY <1>0, <1>4, <2>4, <3>1, PushHeap
    <3> QED BY <2>0, <2>4, <3>2 DEF PushLatency, Idle
  <2>5. ASSUME NEW e \in EventKinds, RecordEvent(t, e)
        PROVE  Own
    BY <2>0, <2>5 DEF RecordEvent, Begin, Idle
  <2>6. CASE CountEvent(t)
    BY <2>0, <2>6 DEF CountEvent, Idle
  <2> QED BY <2>1, <2>2, <2>3, <2>4, <2>5, <2>6 DEF ThreadNext
<1>6. \A u \in Threads : Counting(u)' => thread'[u].c = counterPtr[u]
  BY <1>3, <1>5 DEF Counting
<1> QED BY <1>1, <1>2, <1>3, <1>5, <1>6 DEF RecordsIntoItsOwn

LEMMA MainAlone ==
  ASSUME OwnInv, MainNext, UNCHANGED alive
  PROVE  AloneInv'
<1>0. TypeInv /\ ControlInv /\ AloneInv
  BY OneOwnerIs DEF OwnInv
<1>1. UNCHANGED <<JustOnce, thread>>
  BY DEF MainNext, StartThreads, RecordStart, Discard, StartReporting, ReportInterval,
         Exchange, Collect, LoopDone, EndWarmup, RecordStop, Join
<1>2. Threads' = Threads
  BY <1>1 DEF Threads, numThreads
<1> SUFFICES ASSUME JustOnce PROVE RecordsIntoItsOwn'
  BY <1>1 DEF AloneInv
<1>3. alive' /\ \A u \in Threads : Counting(u) => thread[u].c = counterPtr[u]
  BY <1>0 DEF AloneInv, RecordsIntoItsOwn
<1>4. counterPtr' = counterPtr \/ \A u \in Threads : thread[u] = Idle
  <2>1. counterPtr' = counterPtr \/ mainAt \in {"discard", "interval", "stop"}
    BY DEF MainNext, StartThreads, RecordStart, Discard, StartReporting, ReportInterval,
           Exchange, Collect, LoopDone, EndWarmup, RecordStop, Join
  <2> QED BY <1>0, <2>1 DEF ControlInv
<1>5. \A u \in Threads : Counting(u)' => thread'[u].c = counterPtr'[u]
  BY <1>1, <1>3, <1>4 DEF Counting, Idle
<1> QED BY <1>2, <1>3, <1>5 DEF RecordsIntoItsOwn

\* Types, control and ownership are one inductive invariant.
LEMMA OwnInvariance ==
  /\ Init => OwnInv
  /\ OwnInv /\ [Next]_vars => OwnInv'
<1>0. ASSUME TypeInv', ControlInv', Apart', AloneInv'
      PROVE  OwnInv'
  BY <1>0 DEF OwnInv, TypeInv, OneOwner, Placed, AloneInv, Apart, Kept, Held, InUse
<1>1. Init => OwnInv
  BY TypeInit, OwnInit, AloneInit, OneOwnerIs DEF OwnInv, TypeInv
<1>2. ASSUME OwnInv, [Next]_vars
      PROVE  OwnInv'
  <2>0. TypeInv /\ ControlInv /\ Apart /\ AloneInv
    BY <1>2, OneOwnerIs DEF OwnInv
  <2>1. CASE MainNext /\ UNCHANGED alive
    BY <1>0, <1>2, <2>0, <2>1, MainTypes, MainOwn, MainAlone
  <2>2. ASSUME NEW t \in Threads, ThreadNext(t)
        PROVE  OwnInv'
    BY <1>0, <1>2, <2>0, <2>2, ThreadTypes, ThreadOwn, ThreadAlone
  <2>3. CASE UNCHANGED vars
    <3>1. TypeInv' /\ ControlInv'
      BY <2>0, <2>3, StutterTypes
    <3>2. Apart'
      BY <2>0, <2>3 DEF Apart, Allocated, Kept, Held, InUse, vars, mainVars
    <3>3. AloneInv'
      BY <2>0, <2>3 DEF AloneInv, RecordsIntoItsOwn, Counting, Threads, numThreads, vars, mainVars
    <3> QED BY <1>0, <3>1, <3>2, <3>3
  <2> QED BY <1>2, <2>1, <2>2, <2>3 DEF Next, Terminated
<1> QED BY <1>1, <1>2

\* However the threads' loads of the atomic pointer and main's exchanges
\* interleave, no Counters object is leaked, and none is deleted or allocated
\* again while it is a thread's current one, in main's hand or accumulated.  A
\* thread that loaded the pointer earlier is not kept safe by this; with "-1"
\* it never holds another object than its current one.
THEOREM ObjectsOwned == Spec => []OneOwner
<1>1. OwnInv => OneOwner
  BY DEF OwnInv
<1> QED BY <1>1, OwnInvariance, PTL DEF Spec

-----------------------------------------------------------------------------
(***************************************************************************)
(* Sums over owners: ptr says what each owner i has, w what that weighs,   *)
(* and F which of the owners count.                                        *)
(***************************************************************************)
Weights(ptr, F, w) == [i \in DOMAIN ptr |-> IF i \in F THEN w[ptr[i]] ELSE 0]
Weigh(ptr, F, w) == Total(Weights(ptr, F, w))

AreWeights(s, n, ptr, F, w) ==
  /\ s \in Seq(Int) /\ Len(s) = n
  /\ \A i \in 1 .. n : s[i] = IF i \in F THEN w[ptr[i]] ELSE 0

LEMMA WeightsAre ==
  ASSUME NEW n \in Nat, NEW A, NEW ptr \in [1 .. n -> A], NEW F, NEW w \in [A -> Int]
  PROVE  AreWeights(Weights(ptr, F, w), n, ptr, F, w)
<1>1. Weights(ptr, F, w) \in [1 .. n -> Int]
  BY DEF Weights
<1>2. \A i \in 1 .. n : Weights(ptr, F, w)[i] = IF i \in F THEN w[ptr[i]] ELSE 0
  BY DEF Weights
<1> HIDE DEF Weights
<1> QED BY <1>1, <1>2 DEF AreWeights

LEMMA WeighType ==
  ASSUME NEW n \in Nat, NEW A, NEW ptr \in [1 .. n -> A], NEW F, NEW w \in [A -> Int]
  PROVE  Weigh(ptr, F, w) \in Int
BY WeightsAre, TotalType DEF Weigh, AreWeights

LEMMA WeighNone ==
  ASSUME NEW n \in Nat, NEW A, NEW ptr \in [1 .. n -> A], NEW F, NEW w \in [A -> Int],
         \A i \in F : w[ptr[i]] = 0
  PROVE  Weigh(ptr, F, w) = 0
<1> DEFINE s == Weights(ptr, F, w)
<1>1. s \in Seq(Int) /\ Zeros(s)
  <2>1. AreWeights(s, n, ptr, F, w)
    BY WeightsAre
  <2> HIDE DEF s
  <2> QED BY <2>1 DEF Zeros, AreWeights
<1> QED BY <1>1, TotalZeros DEF Weigh

\* What one owner has, and nobody else, changes its weight by d.
Heavier(v, w, c, d, A) == v[c] = w[c] + d /\ \A a \in A : a # c => v[a] = w[a]

\* Then so does the sum, if that owner counts.
SumFollows(n, ptr, F, v, w, c, d) ==
  /\ \A t \in F \cap (1 .. n) : ptr[t] = c => Weigh(ptr, F, v) = Weigh(ptr, F, w) + d
  /\ (\A t \in F \cap (1 .. n) : ptr[t] # c) => Weigh(ptr, F, v) = Weigh(ptr, F, w)

LEMMA WeighChange ==
  ASSUME NEW n \in Nat, NEW A, NEW ptr \in [1 .. n -> A], IsInjective(ptr), NEW F,
         NEW w \in [A -> Int], NEW v \in [A -> Int], NEW c \in A, NEW d \in Int,
         Heavier(v, w, c, d, A)
  PROVE  SumFollows(n, ptr, F, v, w, c, d)
<1> DEFINE r == Weights(ptr, F, w)
           s == Weights(ptr, F, v)
<1>1. /\ r \in Seq(Int) /\ Len(r) = n /\ s \in Seq(Int) /\ Len(s) = n
      /\ \A i \in 1 .. n : r[i] = IF i \in F THEN w[ptr[i]] ELSE 0
      /\ \A i \in 1 .. n : s[i] = IF i \in F THEN v[ptr[i]] ELSE 0
  <2>1. AreWeights(r, n, ptr, F, w) /\ AreWeights(s, n, ptr, F, v)
    BY WeightsAre
  <2> HIDE DEF r, s
  <2> QED BY <2>1 DEF AreWeights
<1>2. \A i \in 1 .. n : ptr[i] # c => v[ptr[i]] = w[ptr[i]]
  BY DEF Heavier
<1>3. ASSUME NEW t \in F \cap (1 .. n), ptr[t] = c
      PROVE  Weigh(ptr, F, v) = Weigh(ptr, F, w) + d
  <2>1. \A i \in 1 .. n : i # t => ptr[i] # c
    BY <1>3 DEF IsInjective
  <2>2. s[t] = r[t] + d
    BY <1>1, <1>3 DEF Heavier
  <2>3. \A i \in 1 .. n : i # t => s[i] = r[i]
    BY <1>1, <1>2, <2>1
  <2> HIDE DEF r, s
  <2>4. Differ(r, s, t, d)
    BY <1>1, <2>2, <2>3 DEF Differ
  <2>5. Total(s) = Total(r) + d
    BY <1>1, <2>4, TotalDiffers
  <2> QED BY <2>5 DEF Weigh, r, s
<1>4. ASSUME \A t \in F \cap (1 .. n) : ptr[t] # c
      PROVE  Weigh(ptr, F, v) = Weigh(ptr, F, w)
  <2>1. s = r
    BY <1>2, <1>4 DEF Weights
  <2> QED BY <2>1 DEF Weigh
<1> QED BY <1>3, <1>4 DEF SumFollows

\* Owner j is given something that weighs nothing, and counts from now on.
Swapped(n, A, ptr, F, w, qtr, G, v, j) ==
  /\ j \in 1 .. n /\ v[qtr[j]] = 0
  /\ \A i \in 1 .. n :
       i # j => qtr[i] = ptr[i] /\ v[ptr[i]] = w[ptr[i]] /\ (i \in F <=> i \in G)

GivenUp(ptr, F, w, j) == IF j \in F THEN 0 - w[ptr[j]] ELSE 0

SumSwapped(n, A, ptr, F, w, qtr, G, v, j) ==
  Weigh(qtr, G, v) = Weigh(ptr, F, w) + GivenUp(ptr, F, w, j)

LEMMA WeighSwap ==
  ASSUME NEW n \in Nat, NEW A, NEW ptr \in [1 .. n -> A], NEW qtr \in [1 .. n -> A],
         NEW F, NEW G, NEW w \in [A -> Int], NEW v \in [A -> Int], NEW j,
         Swapped(n, A, ptr, F, w, qtr, G, v, j)
  PROVE  SumSwapped(n, A, ptr, F, w, qtr, G, v, j)
<1> DEFINE r == Weights(ptr, F, w)
           s == Weights(qtr, G, v)
           d == GivenUp(ptr, F, w, j)
<1>1. /\ r \in Seq(Int) /\ Len(r) = n /\ s \in Seq(Int) /\ Len(s) = n
      /\ \A i \in 1 .. n : r[i] = IF i \in F THEN w[ptr[i]] ELSE 0
      /\ \A i \in 1 .. n : s[i] = IF i \in G THEN v[qtr[i]] ELSE 0
  <2>1. AreWeights(r, n, ptr, F, w) /\ AreWeights(s, n, qtr, G, v)
    BY WeightsAre
  <2> HIDE DEF r, s
  <2> QED BY <2>1 DEF AreWeights
<1>2. j \in 1 .. n /\ v[qtr[j]] = 0
  BY DEF Swapped
<1>3. w[ptr[j]] \in Int /\ d \in Int
  BY <1>2 DEF GivenUp
<1>4. \A i \in 1 .. n : i # j => s[i] = r[i]
  BY <1>1 DEF Swapped
<1> HIDE DEF r, s
<1>5. s[j] = r[j] + d
  <2>1. s[j] = 0 /\ r[j] = IF j \in F THEN w[ptr[j]] ELSE 0
    BY <1>1, <1>2
  <2> QED BY <1>3, <2>1 DEF GivenUp
<1> HIDE DEF d
<1>6. Differ(r, s, j, d)
  BY <1>1, <1>2, <1>4, <1>5 DEF Differ
<1>7. Total(s) = Total(r) + d
  BY <1>1, <1>3, <1>6, TotalDiffers
<1> QED BY <1>7 DEF Weigh, SumSwapped, r, s, d

SumGrows(s, c, w) ==
  Weigh(Append(s, c), DOMAIN Append(s, c), w) = Weigh(s, DOMAIN s, w) + w[c]

LEMMA WeighAppend ==
  ASSUME NEW A, NEW s \in Seq(A), NEW c \in A, NEW w \in [A -> Int]
  PROVE  SumGrows(s, c, w)
<1> DEFINE r == Weights(s, DOMAIN s, w)
           q == Weights(Append(s, c), DOMAIN Append(s, c), w)
<1>1. /\ Len(s) \in Nat /\ DOMAIN s = 1 .. Len(s) /\ s \in [1 .. Len(s) -> A]
      /\ DOMAIN Append(s, c) = 1 .. Len(s) + 1
      /\ Append(s, c)[Len(s) + 1] = c /\ \A i \in 1 .. Len(s) : Append(s, c)[i] = s[i]
  OBVIOUS
<1>2. r \in Seq(Int) /\ Len(r) = Len(s) /\ \A i \in 1 .. Len(s) : r[i] = w[s[i]]
  <2>1. AreWeights(r, Len(s), s, DOMAIN s, w)
    BY <1>1, WeightsAre
  <2> HIDE DEF r
  <2> QED BY <1>1, <2>1 DEF AreWeights
<1>3. q = [i \in 1 .. Len(s) + 1 |-> w[Append(s, c)[i]]]
  BY <1>1 DEF Weights
<1>4. q = Append(r, w[c])
  <2>1. w[c] \in Int /\ q \in [1 .. Len(s) + 1 -> Int]
    <3>1. \A i \in 1 .. Len(s) + 1 : Append(s, c)[i] \in A
      BY <1>1
    <3> QED BY <1>3, <3>1
  <2>2. q \in Seq(Int) /\ Len(q) = Len(s) + 1
    <3> HIDE DEF q
    <3> QED BY <1>1, <2>1
  <2>3. \A i \in 1 .. Len(s) : q[i] = r[i]
    BY <1>1, <1>2, <1>3
  <2>4. q[Len(s) + 1] = w[c]
    BY <1>1, <1>3
  <2> HIDE DEF r, q
  <2>5. Append(r, w[c]) \in Seq(Int) /\ Len(Append(r, w[c])) = Len(s) + 1
    BY <1>2, <2>1
  <2>6. \A i \in 1 .. Len(s) + 1 : Append(r, w[c])[i] = q[i]
    BY <1>1, <1>2, <2>1, <2>3, <2>4
  <2> QED BY <1>1, <2>2, <2>5, <2>6, SameSequence
<1> HIDE DEF r, q
<1>5. Total(Append(r, w[c])) = Total(r) + w[c]
  BY <1>2, TotalAppend
<1> QED BY <1>4, <1>5 DEF SumGrows, Weigh, r, q

-----------------------------------------------------------------------------
(***************************************************************************)
(* What is counted.                                                        *)
(***************************************************************************)
\* The threads whose objects are not to be discarded any more.
FreshThreads == {t \in Threads : mainAt = "discard" => t < todo}

AllKept == DOMAIN accumulatedResults

LEMMA OwnersAre ==
  ASSUME OwnInv
  PROVE  /\ numThreads \in Nat \ {0} /\ Threads = 1 .. numThreads
         /\ counterPtr \in [1 .. numThreads -> Addresses] /\ IsInjective(counterPtr)
         /\ Len(accumulatedResults) \in Nat /\ AllKept = 1 .. Len(accumulatedResults)
         /\ accumulatedResults \in [1 .. Len(accumulatedResults) -> Addresses]
         /\ IsInjective(accumulatedResults)
         /\ FreshThreads \subseteq 1 .. numThreads
         /\ heap \in [Addresses -> Objects]
<1>1. TypeOK /\ Apart /\ TypeInv
  BY OneOwnerIs DEF OwnInv
<1>2. numThreads \in Nat \ {0} /\ Threads = 1 .. numThreads
  BY <1>1, ThreadsAre DEF TypeOK
<1>3. accumulatedResults \in Seq(Addresses) /\ counterPtr \in [Threads -> Addresses]
  BY <1>1 DEF TypeOK
<1>4. /\ Len(accumulatedResults) \in Nat /\ AllKept = 1 .. Len(accumulatedResults)
      /\ accumulatedResults \in [1 .. Len(accumulatedResults) -> Addresses]
  BY <1>3 DEF AllKept
<1> QED BY <1>1, <1>2, <1>3, <1>4 DEF Apart, FreshThreads, TypeInv

\* When what lies at one address changes, so does the sum over the owners it
\* has, and no other.
LEMMA OneChanges ==
  ASSUME OwnInv, NEW c \in Allocated, NEW w \in [Addresses -> Int],
         NEW v \in [Addresses -> Int], NEW d \in Int, Heavier(v, w, c, d, Addresses)
  PROVE  \/ /\ c \in Kept /\ c # hand /\ c \notin InUse
            /\ Weigh(counterPtr, FreshThreads, v) = Weigh(counterPtr, FreshThreads, w)
            /\ Weigh(accumulatedResults, AllKept, v) = Weigh(accumulatedResults, AllKept, w) + d
         \/ /\ c = hand /\ hand # NoAddress /\ c \notin InUse
            /\ Weigh(counterPtr, FreshThreads, v) = Weigh(counterPtr, FreshThreads, w)
            /\ Weigh(accumulatedResults, AllKept, v) = Weigh(accumulatedResults, AllKept, w)
         \/ /\ c \in InUse /\ c # hand
            /\ \E u \in FreshThreads : counterPtr[u] = c
            /\ Weigh(counterPtr, FreshThreads, v) = Weigh(counterPtr, FreshThreads, w) + d
            /\ Weigh(accumulatedResults, AllKept, v) = Weigh(accumulatedResults, AllKept, w)
         \/ /\ c \in InUse /\ c # hand
            /\ \A u \in FreshThreads : counterPtr[u] # c
            /\ Weigh(counterPtr, FreshThreads, v) = Weigh(counterPtr, FreshThreads, w)
            /\ Weigh(accumulatedResults, AllKept, v) = Weigh(accumulatedResults, AllKept, w)
<1>1. Apart
  BY OneOwnerIs DEF OwnInv
<1>2. c \in Addresses /\ c # NoAddress
  BY DEF Allocated, Addresses
<1>a. Heavier(v, w, c, d, Addresses)
  OBVIOUS
<1>3. SumFollows(numThreads, counterPtr, FreshThreads, v, w, c, d)
  <2>1. numThreads \in Nat /\ counterPtr \in [1 .. numThreads -> Addresses] /\ IsInjective(counterPtr)
    BY OwnersAre
  <2> QED BY <1>2, <1>a, <2>1, WeighChange
<1>4. SumFollows(Len(accumulatedResults), accumulatedResults, AllKept, v, w, c, d)
  <2>1. /\ Len(accumulatedResults) \in Nat /\ IsInjective(accumulatedResults)
        /\ accumulatedResults \in [1 .. Len(accumulatedResults) -> Addresses]
    BY OwnersAre
  <2> QED BY <1>2, <1>a, <2>1, WeighChange
<1>5. c \in Kept <=> \E t \in AllKept \cap (1 .. Len(accumulatedResults)) : accumulatedResults[t] = c
  BY OwnersAre DEF Kept, Range, AllKept
<1>6. c \in InUse <=> \E t \in 1 .. numThreads : counterPtr[t] = c
  BY OwnersAre DEF InUse, Range
<1>7. FreshThreads \cap (1 .. numThreads) = FreshThreads
  BY OwnersAre
<1>8. CASE c \in Kept
  <2>1. c # hand /\ c \notin InUse
    BY <1>1, <1>2, <1>8 DEF Apart, Held
  <2> QED BY <1>3, <1>4, <1>5, <1>6, <1>8, <2>1 DEF SumFollows
<1>9. CASE c \in Held
  <2>1. c = hand /\ hand # NoAddress /\ c \notin Kept /\ c \notin InUse
    BY <1>1, <1>9 DEF Apart, Held
  <2> QED BY <1>3, <1>4, <1>5, <1>6, <2>1 DEF SumFollows
<1>10. CASE c \in InUse
  <2>1. c # hand /\ c \notin Kept
    BY <1>1, <1>2, <1>10 DEF Apart, Held
  <2>2. CASE \E u \in FreshThreads : counterPtr[u] = c
    BY <1>3, <1>4, <1>5, <1>7, <1>10, <2>1, <2>2 DEF SumFollows
  <2>3. CASE \A u \in FreshThreads : counterPtr[u] # c
    BY <1>3, <1>4, <1>5, <1>7, <1>10, <2>1, <2>3 DEF SumFollows
  <2> QED BY <2>2, <2>3
<1> QED BY <1>1, <1>8, <1>9, <1>10 DEF Apart

\* Nothing is weighed anew but what one thread, j, has.
OnlyThread(j, v, w) ==
  \A i \in Threads :
    i # j => v[counterPtr[i]] = w[counterPtr[i]] /\ (i \in FreshThreads <=> i \in FreshThreads')

LEMMA ExchangeMoves ==
  ASSUME OwnInv, JustOnce' = JustOnce, NEW j \in Threads, NEW a \in Allocatable,
         counterPtr' = [counterPtr EXCEPT ![j] = a],
         NEW w \in [Addresses -> Int], NEW v \in [Addresses -> Int],
         v[a] = 0, OnlyThread(j, v, w)
  PROVE  Weigh(counterPtr', FreshThreads', v)
           = Weigh(counterPtr, FreshThreads, w) + GivenUp(counterPtr, FreshThreads, w, j)
<1>1. /\ numThreads \in Nat /\ Threads = 1 .. numThreads
      /\ counterPtr \in [1 .. numThreads -> Addresses]
  BY OwnersAre
<1>2. counterPtr' \in [1 .. numThreads -> Addresses] /\ j \in 1 .. numThreads
  BY <1>1, AllocatableIsFree
<1>3. PICK p, q, F, G : p = counterPtr /\ q = counterPtr' /\ F = FreshThreads /\ G = FreshThreads'
  OBVIOUS
<1>4. p \in [1 .. numThreads -> Addresses] /\ q \in [1 .. numThreads -> Addresses]
  BY <1>1, <1>2, <1>3
<1>5. Swapped(numThreads, Addresses, p, F, w, q, G, v, j)
  <2>1. v[q[j]] = 0 /\ Threads = 1 .. numThreads /\ j \in 1 .. numThreads
    BY <1>1, <1>2, <1>3
  <2>2. \A i \in Threads : i # j => q[i] = p[i]
    BY <1>1, <1>3
  <2>3. \A i \in Threads : i # j => v[p[i]] = w[p[i]] /\ (i \in F <=> i \in G)
    BY <1>3 DEF OnlyThread
  <2> QED BY <2>1, <2>2, <2>3 DEF Swapped
<1>6. SumSwapped(numThreads, Addresses, p, F, w, q, G, v, j)
  BY <1>1, <1>4, <1>5, WeighSwap
<1> QED BY <1>3, <1>6 DEF SumSwapped

\* The steps after which every object is where it was.
Quiet ==
  \/ \E t \in Threads : ThreadNext(t)
  \/ StartThreads \/ StartReporting \/ ReportInterval
  \/ LoopDone("interval", "wait") \/ LoopDone("stop", IF JustOnce THEN "done" ELSE "join")
  \/ EndWarmup \/ RecordStop \/ Join \/ UNCHANGED vars

LEMMA NextIs ==
  ASSUME [Next]_vars
  PROVE  Quiet \/ RecordStart \/ Discard \/ Exchange \/ Collect
BY DEF Next, MainNext, Terminated, Quiet

LEMMA QuietKeeps ==
  ASSUME OwnInv, Quiet
  PROVE  /\ UNCHANGED <<JustOnce, counterPtr, hand, accumulatedResults, totals, overtaken>>
         /\ Threads' = Threads /\ FreshThreads' = FreshThreads
<1>1. UNCHANGED <<JustOnce, counterPtr, hand, accumulatedResults, totals, overtaken>>
  BY DEF Quiet, ThreadNext, recordResult, recordBytes, Count, PushLatency, RecordEvent,
         CountEvent, mainVars, vars, StartThreads, StartReporting, ReportInterval, LoopDone,
         EndWarmup, RecordStop, Join
<1>2. Threads' = Threads /\ numThreads' = numThreads
  BY <1>1 DEF Threads, numThreads
<1>3. Threads = 1 .. numThreads /\ numThreads \in Nat /\ todo \in 1 .. numThreads + 1
  BY OwnersAre, OneOwnerIs DEF OwnInv, TypeOK
<1>4. CASE UNCHANGED <<mainAt, todo>>
  BY <1>1, <1>2, <1>4 DEF FreshThreads
<1>5. CASE mainAt # "discard" /\ mainAt' # "discard"
  BY <1>1, <1>2, <1>5 DEF FreshThreads
<1>6. CASE StartReporting
  <2>1. mainAt' # "discard" /\ \A t \in Threads : t < todo
    BY <1>3, <1>6 DEF StartReporting
  <2> QED BY <1>1, <1>2, <2>1 DEF FreshThreads
<1>7. \/ UNCHANGED <<mainAt, todo>>
      \/ mainAt # "discard" /\ mainAt' # "discard"
      \/ StartReporting
  BY DEF Quiet, ThreadNext, recordResult, recordBytes, Count, PushLatency, RecordEvent,
         CountEvent, mainVars, vars, StartThreads, ReportInterval, LoopDone,
         EndWarmup, RecordStop, Join
<1> QED BY <1>1, <1>2, <1>4, <1>5, <1>6, <1>7

\* Main's next thread, and what becomes of its object.
LEMMA DiscardIs ==
  ASSUME OwnInv, Discard
  PROVE  /\ todo \in Threads /\ todo \notin FreshThreads
         /\ \A i \in Threads : i # todo => (i \in FreshThreads <=> i \in FreshThreads')
         /\ UNCHANGED <<JustOnce, hand, accumulatedResults, totals, recorded, thread>>
         /\ Threads' = Threads /\ hand = NoAddress
         /\ \E a \in Allocatable :
              /\ counterPtr' = [counterPtr EXCEPT ![todo] = a]
              /\ a # counterPtr[todo] /\ a \in Addresses /\ heap[a] = Free
              /\ heap'[a] = NewCounters
              /\ \A i \in Threads : i # todo => heap'[counterPtr[i]] = heap[counterPtr[i]]
              /\ \A b \in Kept : heap'[b] = heap[b]
              /\ overtaken' = IF Counting(todo) THEN overtaken + 1 ELSE overtaken
<1>1. TypeOK /\ Apart /\ ControlInv
  BY OneOwnerIs DEF OwnInv
<1>2. /\ Threads = 1 .. numThreads /\ numThreads \in Nat /\ todo \in 1 .. numThreads + 1
      /\ counterPtr \in [Threads -> Addresses] /\ IsInjective(counterPtr)
      /\ heap \in [Addresses -> Objects]
  BY <1>1, OwnersAre DEF TypeOK
<1>3. mainAt = "discard" /\ mainAt' = "discard" /\ todo <= numThreads /\ todo' = todo + 1
      /\ UNCHANGED <<JustOnce, hand, accumulatedResults, totals, recorded, thread>>
  BY DEF Discard
<1>4. Threads' = Threads /\ todo \in Threads
  BY <1>2, <1>3 DEF Threads, numThreads
<1>5. hand = NoAddress
  BY <1>1, <1>3 DEF ControlInv
<1>6. todo \notin FreshThreads
  BY <1>2, <1>3 DEF FreshThreads
<1>7. \A i \in Threads : i # todo => (i \in FreshThreads <=> i \in FreshThreads')
  BY <1>2, <1>3, <1>4 DEF FreshThreads
<1>8. PICK a \in Allocatable :
        /\ exchangeCounters(todo, a)
        /\ heap' = [heap EXCEPT ![a] = NewCounters, ![counterPtr[todo]] = Free]
  BY DEF Discard
<1>9. counterPtr' = [counterPtr EXCEPT ![todo] = a]
      /\ overtaken' = IF Counting(todo) THEN overtaken + 1 ELSE overtaken
  BY <1>8 DEF exchangeCounters
<1>10. /\ counterPtr[todo] \in InUse /\ counterPtr[todo] # a /\ a \in Addresses
       /\ heap[a] = Free /\ a \notin Allocated /\ counterPtr[todo] \in Addresses
  BY <1>2, <1>4, <1>9, ExchangeOwn
<1>11. \A b \in Addresses : heap'[b] = IF b = counterPtr[todo] THEN Free
                                     ELSE IF b = a THEN NewCounters ELSE heap[b]
  BY <1>2, <1>8, <1>10
<1>12. \A i \in Threads : i # todo => counterPtr[i] # counterPtr[todo] /\ counterPtr[i] # a
                                    /\ counterPtr[i] \in Addresses
  BY <1>1, <1>2, <1>4, <1>10 DEF IsInjective, Apart, InUse, Range
<1>13. \A b \in Kept : b # counterPtr[todo] /\ b # a /\ b \in Addresses
  BY <1>1, <1>10 DEF Apart, Allocated
<1> QED BY <1>3, <1>4, <1>5, <1>6, <1>7, <1>9, <1>10, <1>11, <1>12, <1>13

LEMMA ExchangeIs ==
  ASSUME OwnInv, Exchange
  PROVE  /\ todo \in Threads /\ todo \in FreshThreads
         /\ \A i \in Threads : i # todo => (i \in FreshThreads <=> i \in FreshThreads')
         /\ UNCHANGED <<JustOnce, accumulatedResults, totals, recorded, thread>>
         /\ Threads' = Threads /\ hand = NoAddress
         /\ hand' = counterPtr[todo] /\ hand' # NoAddress /\ hand' \in Addresses
         /\ heap'[hand'] = heap[hand']
         /\ \E a \in Allocatable :
              /\ counterPtr' = [counterPtr EXCEPT ![todo] = a]
              /\ a # counterPtr[todo] /\ a \in Addresses /\ heap[a] = Free
              /\ heap'[a] = NewCounters
              /\ \A i \in Threads : i # todo => heap'[counterPtr[i]] = heap[counterPtr[i]]
              /\ \A b \in Kept : heap'[b] = heap[b]
              /\ overtaken' = IF Counting(todo) THEN overtaken + 1 ELSE overtaken
<1>1. TypeOK /\ Apart
  BY OneOwnerIs DEF OwnInv
<1>2. /\ Threads = 1 .. numThreads /\ numThreads \in Nat /\ todo \in 1 .. numThreads + 1
      /\ counterPtr \in [Threads -> Addresses] /\ IsInjective(counterPtr)
      /\ heap \in [Addresses -> Objects]
  BY <1>1, OwnersAre DEF TypeOK
<1>3. /\ mainAt # "discard" /\ mainAt' # "discard" /\ todo <= numThreads /\ hand = NoAddress
      /\ hand' = counterPtr[todo]
      /\ UNCHANGED <<JustOnce, accumulatedResults, totals, recorded, thread>>
  BY DEF Exchange
<1>4. Threads' = Threads /\ todo \in Threads
  BY <1>2, <1>3 DEF Threads, numThreads
<1>5. todo \in FreshThreads
  BY <1>3, <1>4 DEF FreshThreads
<1>6. \A i \in Threads : i # todo => (i \in FreshThreads <=> i \in FreshThreads')
  BY <1>3, <1>4 DEF FreshThreads
<1>7. PICK a \in Allocatable :
        exchangeCounters(todo, a) /\ heap' = [heap EXCEPT ![a] = NewCounters]
  BY DEF Exchange
<1>8. counterPtr' = [counterPtr EXCEPT ![todo] = a]
      /\ overtaken' = IF Counting(todo) THEN overtaken + 1 ELSE overtaken
  BY <1>7 DEF exchangeCounters
<1>9. /\ counterPtr[todo] \in InUse /\ counterPtr[todo] # a /\ a \in Addresses
      /\ heap[a] = Free /\ a \notin Allocated /\ counterPtr[todo] \in Addresses
  BY <1>2, <1>4, <1>8, ExchangeOwn
<1>10. \A b \in Addresses : heap'[b] = IF b = a THEN NewCounters ELSE heap[b]
  BY <1>2, <1>7, <1>9
<1>11. \A i \in Threads : i # todo => counterPtr[i] # a /\ counterPtr[i] \in Addresses
  BY <1>1, <1>2, <1>4, <1>9 DEF Apart, InUse, Range
<1>12. \A b \in Kept : b # a /\ b \in Addresses
  BY <1>1, <1>9 DEF Apart, Allocated
<1>13. hand' # NoAddress /\ hand' \in Addresses
  BY <1>3, <1>9 DEF Addresses
<1> QED BY <1>3, <1>4, <1>5, <1>6, <1>8, <1>9, <1>10, <1>11, <1>12, <1>13

-----------------------------------------------------------------------------
(***************************************************************************)
(* Nothing is counted twice.                                               *)
(***************************************************************************)
LEMMA WeighNat ==
  ASSUME NEW n \in Nat, NEW A, NEW ptr \in [1 .. n -> A], NEW F, NEW w \in [A -> Nat]
  PROVE  Weigh(ptr, F, w) \in Nat
<1>1. Weights(ptr, F, w) \in [1 .. n -> Nat]
  BY DEF Weights
<1> DEFINE s == Weights(ptr, F, w)
<1> HIDE DEF s
<1>2. s \in Seq(Nat)
  BY <1>1 DEF s
<1> QED BY <1>2, TotalNat DEF Weigh, s

\* What each object has counted of kind k, ...
N(k) == [a \in Addresses |-> heap[a].n[k]]
\* ... the one in main's hand, and those that threads have and main may read.
InHand(k) == IF hand = NoAddress THEN 0 ELSE heap[hand].n[k]
Unread(k) == Weigh(counterPtr, FreshThreads, N(k))

CountsInv == \A k \in Kinds : totals[k] + InHand(k) + Unread(k) <= recorded[k]

LEMMA CountTypes ==
  ASSUME OwnInv, NEW k \in Kinds
  PROVE  /\ N(k) \in [Addresses -> Nat] /\ N(k) \in [Addresses -> Int]
         /\ totals[k] \in Nat /\ recorded[k] \in Nat
         /\ InHand(k) \in Nat /\ Unread(k) \in Nat
<1>1. heap \in [Addresses -> Objects] /\ TypeOK
  BY DEF OwnInv, TypeInv
<1>2. \A a \in Addresses : heap[a].n[k] \in Nat
  BY <1>1, ObjectShape
<1>3. N(k) \in [Addresses -> Nat] /\ N(k) \in [Addresses -> Int]
  BY <1>2 DEF N
<1>4. totals[k] \in Nat /\ recorded[k] \in Nat /\ InHand(k) \in Nat
  BY <1>1, <1>2 DEF TypeOK, InHand
<1>5. Unread(k) \in Nat
  <2>1. numThreads \in Nat /\ counterPtr \in [1 .. numThreads -> Addresses]
    BY OwnersAre
  <2>2. PICK w : w = N(k) /\ w \in [Addresses -> Nat]
    BY <1>3
  <2>3. Weigh(counterPtr, FreshThreads, w) \in Nat
    BY <2>1, <2>2, WeighNat
  <2> QED BY <2>2, <2>3 DEF Unread
<1> QED BY <1>3, <1>4, <1>5

\* What a thread counts belongs to one owner, or to nobody any more.
LEMMA CountGoes ==
  ASSUME OwnInv, OwnInv', NEW t \in Threads, Count(t), NEW k \in Kinds
  PROVE  \E d \in {0, 1} :
           /\ d = 1 <=> thread[t].kind = k
           /\ recorded'[k] = recorded[k] + d
           /\ \/ InHand(k)' = InHand(k) + d /\ Unread(k)' = Unread(k)
              \/ InHand(k)' = InHand(k) /\ Unread(k)' = Unread(k) + d
              \/ InHand(k)' = InHand(k) /\ Unread(k)' = Unread(k)
<1> DEFINE c == thread[t].c
           d == IF thread[t].kind = k THEN 1 ELSE 0
<1>1. TypeInv /\ TypeOK
  BY DEF OwnInv, TypeInv
<1>2. /\ c \in Addresses /\ thread[t].kind \in Kinds
      /\ heap' \in [Addresses -> Objects] /\ Allocated' = Allocated
      /\ \A a \in Addresses : a # c => heap'[a] = heap[a]
      /\ heap[c] = Free => heap'[c] = Free
      /\ heap[c] # Free => heap'[c] = CountedAt(c, thread[t].kind)
  BY <1>1, CountHeap
<1>3. recorded'[k] = recorded[k] + d
  <2>1. recorded' = [recorded EXCEPT ![thread[t].kind] = @ + 1] /\ recorded \in [Kinds -> Nat]
    BY <1>1 DEF Count, TypeOK
  <2> QED BY <1>2, <2>1
<1>4. UNCHANGED <<counterPtr, hand>> /\ FreshThreads' = FreshThreads
  BY QuietKeeps DEF Quiet, ThreadNext
<1>5. CASE heap[c] = Free
  <2>1. heap' = heap
    BY <1>1, <1>2, <1>5 DEF TypeInv
  <2> QED BY <1>3, <1>4, <2>1 DEF InHand, Unread, N
<1>6. CASE heap[c] # Free
  <2>1. heap'[c].n[k] = heap[c].n[k] + d
    <3>1. heap'[c].n = [heap[c].n EXCEPT ![thread[t].kind] = @ + 1]
      BY <1>1, <1>2, <1>6, CountedIs
    <3>2. heap[c].n \in [Kinds -> Nat]
      BY <1>1, <1>2, ObjectShape DEF TypeInv
    <3> QED BY <1>2, <3>1, <3>2
  <2>2. PICK v, w : v = N(k)' /\ w = N(k)
    OBVIOUS
  <2>3. v \in [Addresses -> Int] /\ w \in [Addresses -> Int]
    <3>1. w \in [Addresses -> Int]
      BY <2>2, CountTypes
    <3>2. \A a \in Addresses : heap'[a].n[k] \in Int
      BY <1>2, ObjectShape
    <3> QED BY <2>2, <3>1, <3>2 DEF N
  <2>4. c \in Allocated /\ d \in Int
    BY <1>2, <1>6 DEF Allocated
  <2> HIDE DEF c, d
  <2>5. Heavier(v, w, c, d, Addresses)
    BY <1>2, <2>1, <2>2 DEF Heavier, N
  <2>6. \/ c = hand /\ Weigh(counterPtr, FreshThreads, v) = Weigh(counterPtr, FreshThreads, w)
        \/ c # hand /\ Weigh(counterPtr, FreshThreads, v) = Weigh(counterPtr, FreshThreads, w)
        \/ c # hand /\ Weigh(counterPtr, FreshThreads, v) = Weigh(counterPtr, FreshThreads, w) + d
    BY <2>3, <2>4, <2>5, OneChanges
  <2>7. c = hand => InHand(k)' = InHand(k) + d
    BY <1>2, <1>4, <2>1 DEF InHand, Addresses
  <2>8. c # hand => InHand(k)' = InHand(k)
    <3>1. hand \in Addresses \cup {NoAddress}
      BY <1>1 DEF TypeOK
    <3> QED BY <1>2, <1>4, <3>1 DEF InHand
  <2> QED BY <1>3, <1>4, <2>2, <2>6, <2>7, <2>8 DEF Unread, d
<1> QED BY <1>5, <1>6

\* The steps after which every object is as it was.
LEMMA NoCount ==
  ASSUME OwnInv, Quiet, \A t \in Threads : ~Count(t), NEW k \in Kinds
  PROVE  /\ N(k)' = N(k) /\ InHand(k)' = InHand(k) /\ Unread(k)' = Unread(k)
         /\ recorded'[k] = recorded[k] /\ totals'[k] = totals[k]
<1>1. /\ UNCHANGED <<counterPtr, hand, totals>> /\ FreshThreads' = FreshThreads
  BY QuietKeeps
<1>2. recorded' = recorded
  BY DEF Quiet, ThreadNext, recordResult, recordBytes, PushLatency, RecordEvent,
         CountEvent, mainVars, vars, StartThreads, StartReporting, ReportInterval, LoopDone,
         EndWarmup, RecordStop, Join
<1>3. \A a \in Addresses : heap'[a].n = heap[a].n
  <2>1. ASSUME NEW t \in Threads, PushLatency(t), NEW a \in Addresses
        PROVE  heap'[a].n = heap[a].n
    <3>1. TypeInv
      BY DEF OwnInv
    <3>2. /\ thread[t].c \in Addresses
          /\ \A b \in Addresses : b # thread[t].c => heap'[b] = heap[b]
          /\ heap[thread[t].c] = Free => heap'[thread[t].c] = Free
          /\ heap[thread[t].c] # Free => heap'[thread[t].c] = PushedAt(thread[t].c)
      BY <2>1, <3>1, PushHeap
    <3>3. heap[thread[t].c] # Free => PushedAt(thread[t].c).n = heap[thread[t].c].n
      BY <3>1, <3>2, PushedIs
    <3> QED BY <3>2, <3>3
  <2>2. heap' = heap \/ \E t \in Threads : PushLatency(t)
    BY DEF Quiet, ThreadNext, recordResult, recordBytes, RecordEvent,
           CountEvent, mainVars, vars, StartThreads, StartReporting, ReportInterval, LoopDone,
           EndWarmup, RecordStop, Join
  <2> QED BY <2>1, <2>2
<1>4. N(k)' = N(k)
  BY <1>3 DEF N
<1>5. hand # NoAddress => hand \in Addresses
  BY DEF OwnInv, TypeInv, TypeOK
<1> QED BY <1>1, <1>2, <1>3, <1>4, <1>5 DEF InHand, Unread

\* Of a new object nothing is counted; main discards what it does not read.
LEMMA DiscardCounts ==
  ASSUME OwnInv, OwnInv', Discard, NEW k \in Kinds
  PROVE  /\ InHand(k)' = InHand(k) /\ Unread(k)' = Unread(k)
         /\ recorded'[k] = recorded[k] /\ totals'[k] = totals[k]
<1>1. /\ todo \in Threads /\ todo \notin FreshThreads
      /\ \A i \in Threads : i # todo => (i \in FreshThreads <=> i \in FreshThreads')
      /\ UNCHANGED <<JustOnce, hand, totals, recorded>> /\ hand = NoAddress
  BY DiscardIs
<1>2. PICK a \in Allocatable :
        /\ counterPtr' = [counterPtr EXCEPT ![todo] = a] /\ a \in Addresses
        /\ heap'[a] = NewCounters
        /\ \A i \in Threads : i # todo => heap'[counterPtr[i]] = heap[counterPtr[i]]
  BY DiscardIs
<1>3. PICK v, w : v = N(k)' /\ w = N(k)
  OBVIOUS
<1>4. v \in [Addresses -> Int] /\ w \in [Addresses -> Int]
  <2>1. heap' \in [Addresses -> Objects]
    BY DEF OwnInv, TypeInv
  <2>2. \A b \in Addresses : heap'[b].n[k] \in Int
    BY <2>1, ObjectShape
  <2> QED BY <1>3, <2>2, CountTypes DEF N
<1>5. v[a] = 0
  BY <1>2, <1>3, KindsAre DEF N, NewCounters, Zero
<1>6. OnlyThread(todo, v, w)
  <2>1. \A i \in Threads : counterPtr[i] \in Addresses
    BY OwnersAre
  <2> QED BY <1>1, <1>2, <1>3, <2>1 DEF OnlyThread, N
<1>7. Weigh(counterPtr', FreshThreads', v)
        = Weigh(counterPtr, FreshThreads, w) + GivenUp(counterPtr, FreshThreads, w, todo)
  BY <1>1, <1>2, <1>4, <1>5, <1>6, ExchangeMoves
<1>8. Weigh(counterPtr, FreshThreads, w) \in Int
  BY <1>3, CountTypes DEF Unread
<1> QED BY <1>1, <1>3, <1>7, <1>8 DEF GivenUp, InHand, Unread

LEMMA ExchangeCounts ==
  ASSUME OwnInv, OwnInv', Exchange, NEW k \in Kinds
  PROVE  /\ InHand(k) = 0 /\ Unread(k)' = Unread(k) - InHand(k)'
         /\ recorded'[k] = recorded[k] /\ totals'[k] = totals[k]
<1>1. /\ todo \in Threads /\ todo \in FreshThreads
      /\ \A i \in Threads : i # todo => (i \in FreshThreads <=> i \in FreshThreads')
      /\ UNCHANGED <<JustOnce, totals, recorded>> /\ hand = NoAddress
      /\ hand' = counterPtr[todo] /\ hand' # NoAddress /\ hand' \in Addresses
      /\ heap'[hand'] = heap[hand']
  BY ExchangeIs
<1>2. PICK a \in Allocatable :
        /\ counterPtr' = [counterPtr EXCEPT ![todo] = a] /\ a \in Addresses
        /\ heap'[a] = NewCounters
        /\ \A i \in Threads : i # todo => heap'[counterPtr[i]] = heap[counterPtr[i]]
  BY ExchangeIs
<1>3. PICK v, w : v = N(k)' /\ w = N(k)
  OBVIOUS
<1>4. v \in [Addresses -> Int] /\ w \in [Addresses -> Int]
  <2>1. heap' \in [Addresses -> Objects]
    BY DEF OwnInv, TypeInv
  <2>2. \A b \in Addresses : heap'[b].n[k] \in Int
    BY <2>1, ObjectShape
  <2> QED BY <1>3, <2>2, CountTypes DEF N
<1>5. v[a] = 0
  BY <1>2, <1>3, KindsAre DEF N, NewCounters, Zero
<1>6. OnlyThread(todo, v, w)
  <2>1. \A i \in Threads : counterPtr[i] \in Addresses
    BY OwnersAre
  <2> QED BY <1>1, <1>2, <1>3, <2>1 DEF OnlyThread, N
<1>7. Weigh(counterPtr', FreshThreads', v)
        = Weigh(counterPtr, FreshThreads, w) + GivenUp(counterPtr, FreshThreads, w, todo)
  BY <1>1, <1>2, <1>4, <1>5, <1>6, ExchangeMoves
<1>8. Weigh(counterPtr, FreshThreads, w) \in Int
  BY <1>3, CountTypes DEF Unread
<1>9. InHand(k)' = w[counterPtr[todo]] /\ w[counterPtr[todo]] \in Int
  BY <1>1, <1>3, <1>4 DEF InHand, N
<1> QED BY <1>1, <1>3, <1>7, <1>8, <1>9 DEF GivenUp, InHand, Unread

LEMMA CollectCounts ==
  ASSUME OwnInv, Collect, NEW k \in Kinds
  PROVE  /\ InHand(k)' = 0 /\ Unread(k)' = Unread(k)
         /\ recorded'[k] = recorded[k] /\ totals'[k] = totals[k] + InHand(k)
<1>1. /\ hand # NoAddress /\ hand' = NoAddress
      /\ UNCHANGED <<counterPtr, heap, mainAt, recorded, JustOnce>>
      /\ totals' = [i \in Kinds |-> totals[i] + heap[hand].n[i]]
  BY DEF Collect, Plus
<1>2. mainAt # "discard" /\ Threads' = Threads
  BY <1>1 DEF OwnInv, ControlInv, Threads, numThreads
<1>3. FreshThreads' = FreshThreads
  BY <1>1, <1>2 DEF FreshThreads
<1> QED BY <1>1, <1>3 DEF InHand, Unread, N

LEMMA StartCounts ==
  ASSUME OwnInv, OwnInv', RecordStart, NEW k \in Kinds
  PROVE  InHand(k)' = 0 /\ Unread(k)' = 0 /\ recorded'[k] = 0 /\ totals'[k] = 0
<1>1. /\ mainAt' = "discard" /\ todo' = 1 /\ hand' = hand
      /\ totals' = Zero /\ recorded' = Zero /\ UNCHANGED <<JustOnce, counterPtr>>
  BY DEF RecordStart
<1>2. hand = NoAddress
  BY DEF OwnInv, ControlInv, RecordStart
<1>3. FreshThreads' = {}
  <2>1. Threads' = Threads
    BY <1>1 DEF Threads, numThreads
  <2>2. \A t \in Threads : ~(t < 1)
    BY OwnersAre
  <2> QED BY <1>1, <2>1, <2>2 DEF FreshThreads
<1>4. Unread(k)' = 0
  <2>1. PICK n, p, w : n = numThreads /\ p = counterPtr /\ w = N(k)'
    OBVIOUS
  <2>2. n \in Nat /\ p \in [1 .. n -> Addresses]
    BY <2>1, OwnersAre
  <2>3. w \in [Addresses -> Int]
    <3>1. heap' \in [Addresses -> Objects]
      BY DEF OwnInv, TypeInv
    <3>2. \A b \in Addresses : heap'[b].n[k] \in Int
      BY <3>1, ObjectShape
    <3> QED BY <2>1, <3>2 DEF N
  <2>4. Weigh(p, {}, w) = 0
    BY <2>2, <2>3, WeighNone
  <2> QED BY <1>1, <1>3, <2>1, <2>4 DEF Unread
<1> QED BY <1>1, <1>2, <1>4, KindsAre DEF InHand, Zero

LEMMA CountsStep ==
  ASSUME OwnInv, OwnInv', [Next]_vars, CountsInv
  PROVE  CountsInv'
<1> SUFFICES ASSUME NEW k \in Kinds
             PROVE  totals'[k] + InHand(k)' + Unread(k)' <= recorded'[k]
  BY DEF CountsInv
<1>0. /\ totals[k] \in Nat /\ recorded[k] \in Nat /\ InHand(k) \in Nat /\ Unread(k) \in Nat
      /\ totals[k] + InHand(k) + Unread(k) <= recorded[k]
  BY CountTypes DEF CountsInv
<1>1. ASSUME NEW t \in Threads, Count(t)
      PROVE  totals'[k] + InHand(k)' + Unread(k)' <= recorded'[k]
  <2>1. totals'[k] = totals[k]
    BY <1>1 DEF Count, mainVars
  <2>2. PICK d \in {0, 1} :
          /\ recorded'[k] = recorded[k] + d
          /\ \/ InHand(k)' = InHand(k) + d /\ Unread(k)' = Unread(k)
             \/ InHand(k)' = InHand(k) /\ Unread(k)' = Unread(k) + d
             \/ InHand(k)' = InHand(k) /\ Unread(k)' = Unread(k)
    BY <1>1, CountGoes
  <2> QED BY <1>0, <2>1, <2>2
<1>2. CASE Quiet /\ \A t \in Threads : ~Count(t)
  BY <1>0, <1>2, NoCount
<1>3. CASE RecordStart
  BY <1>3, StartCounts
<1>4. CASE Discard
  BY <1>0, <1>4, DiscardCounts
<1>5. CASE Exchange
  <2>1. /\ InHand(k) = 0 /\ Unread(k)' = Unread(k) - InHand(k)'
        /\ recorded'[k] = recorded[k] /\ totals'[k] = totals[k]
    BY <1>5, ExchangeCounts
  <2>2. PICK i, u : i = InHand(k)' /\ u = Unread(k)'
    OBVIOUS
  <2>3. i \in Nat
    <3>1. heap' \in [Addresses -> Objects] /\ hand' \in Addresses \cup {NoAddress}
      BY DEF OwnInv, TypeInv, TypeOK
    <3>2. hand' # NoAddress => heap'[hand'].n[k] \in Nat
      BY <3>1, ObjectShape
    <3> QED BY <2>2, <3>2 DEF InHand
  <2> QED BY <1>0, <2>1, <2>2, <2>3
<1>6. CASE Collect
  BY <1>0, <1>6, CollectCounts
<1> QED BY <1>1, <1>2, <1>3, <1>4, <1>5, <1>6, NextIs

LEMMA CountsInit == Init => CountsInv
<1> SUFFICES ASSUME Init, OwnInv PROVE CountsInv
  BY OwnInvariance
<1>1. ASSUME NEW k \in Kinds
      PROVE  totals[k] = 0 /\ recorded[k] = 0 /\ InHand(k) = 0
  BY <1>1, KindsAre DEF Init, InHand, Zero
<1>2. ASSUME NEW k \in Kinds
      PROVE  Unread(k) = 0
  <2>1. numThreads \in Nat /\ counterPtr \in [1 .. numThreads -> Addresses]
    BY OwnersAre
  <2>2. PICK w : w = N(k) /\ w \in [Addresses -> Int]
    BY CountTypes
  <2>3. \A i \in FreshThreads : w[counterPtr[i]] = 0
    <3>1. \A i \in FreshThreads : counterPtr[i] = i /\ i \in Addresses /\ heap[i] = NewCounters
      BY <2>1, OwnersAre DEF Init, FreshThreads
    <3>2. NewCounters.n[k] = 0
      BY KindsAre DEF NewCounters, Zero
    <3> QED BY <2>2, <3>1, <3>2 DEF N
  <2>4. Weigh(counterPtr, FreshThreads, w) = 0
    BY <2>1, <2>2, <2>3, WeighNone
  <2> QED BY <2>2, <2>4 DEF Unread
<1> QED BY <1>1, <1>2 DEF CountsInv

\* With "-1" the only thread is started after its counters have been reset and
\* joined before they are read: they are what was recorded, nothing is lost.
Mine == heap[counterPtr[1]]
Pending(e) == IF thread[1].at = "event" /\ thread[1].event = e THEN 1 ELSE 0

OnlyInv ==
  JustOnce =>
    /\ \A k \in Kinds : recorded[k] = totals[k] + InHand(k) + Mine.n[k]
    /\ \A e \in EventKinds : happened[e] = events[e] + Pending(e)
    /\ Counting(1) => thread[1].c = counterPtr[1]
    /\ \/ hand # NoAddress \/ mainAt \in {"begin", "discard", "done"}
       \/ mainAt = "stop" /\ todo > 1
       => Mine.n = Zero

LEMMA OnlyOne ==
  ASSUME OwnInv, JustOnce
  PROVE  /\ Threads = {1} /\ numThreads = 1
         /\ counterPtr[1] \in Addresses /\ counterPtr[1] \in Allocated
         /\ counterPtr[1] # hand /\ counterPtr[1] \notin Kept
         /\ Mine \in Objects /\ Mine # Free /\ Mine.n \in [Kinds -> Nat]
         /\ thread[1] \in Operations
         /\ running => mainAt = "join" /\ reporting /\ hand = NoAddress
         /\ mainAt # "join" => thread[1] = Idle
<1>1. TypeOK /\ Apart /\ TypeInv /\ ControlInv
  BY OneOwnerIs DEF OwnInv
<1>2. numThreads = 1 /\ Threads = {1}
  BY <1>1, ThreadsAre DEF TypeOK
<1>3. counterPtr[1] \in InUse /\ counterPtr[1] \in Addresses
  BY <1>1, <1>2 DEF TypeOK, InUse, Range
<1>4. counterPtr[1] \in Allocated /\ counterPtr[1] # hand /\ counterPtr[1] \notin Kept
  BY <1>1, <1>3 DEF Apart, Held, Addresses
<1>5. Mine \in Objects /\ Mine # Free
  BY <1>1, <1>4, <1>3 DEF TypeInv, Mine, Allocated
<1>6. Mine.n \in [Kinds -> Nat]
  BY <1>5, ObjectShape
<1> QED BY <1>1, <1>2, <1>3, <1>4, <1>5, <1>6 DEF TypeInv, ControlInv

LEMMA OnlyThreadStep ==
  ASSUME OwnInv, OwnInv', OnlyInv, JustOnce, ThreadNext(1)
  PROVE  OnlyInv'
<1>0. /\ counterPtr[1] \in Addresses /\ counterPtr[1] # hand
      /\ Mine # Free /\ Mine.n \in [Kinds -> Nat] /\ thread[1] \in Operations
      /\ running => mainAt = "join" /\ reporting /\ hand = NoAddress
      /\ mainAt # "join" => thread[1] = Idle
      /\ 1 \in Threads
  BY OnlyOne
<1>a. TypeInv /\ TypeOK
  BY DEF OwnInv, TypeInv
<1>b. /\ \A k \in Kinds : recorded[k] = totals[k] + InHand(k) + Mine.n[k]
      /\ \A e \in EventKinds : happened[e] = events[e] + Pending(e)
      /\ Counting(1) => thread[1].c = counterPtr[1]
  BY DEF OnlyInv
<1>c. UNCHANGED <<mainVars, counterPtr>>
  BY DEF ThreadNext, recordResult, recordBytes, Count, PushLatency, RecordEvent, CountEvent
<1>d. mainAt = "join" /\ hand = NoAddress
  <2>1. running \/ thread[1] # Idle
    BY DEF ThreadNext, recordResult, recordBytes, Count, PushLatency, RecordEvent, CountEvent,
           Begin, Idle
  <2> QED BY <1>0, <1>a, <2>1 DEF OwnInv, ControlInv
<1>e. thread \in [Threads -> Operations] /\ DOMAIN thread = Threads
  BY <1>a DEF TypeInv
<1>f. /\ \A k \in Kinds : recorded'[k] = totals'[k] + InHand(k)' + Mine'.n[k]
      /\ \A e \in EventKinds : happened'[e] = events'[e] + Pending(e)'
      /\ Counting(1)' => thread'[1].c = counterPtr'[1]
      => OnlyInv'
  BY <1>c, <1>d DEF OnlyInv, mainVars
<1>1. ASSUME NEW kind \in Kinds,
             Begin(1, [at |-> "count", c |-> counterPtr[1], kind |-> kind]),
             UNCHANGED <<mainVars, counterPtr, heap, events, recorded, happened>>
      PROVE  OnlyInv'
  <2>1. thread[1] = Idle /\ thread'[1] = [at |-> "count", c |-> counterPtr[1], kind |-> kind]
    BY <1>0, <1>1, <1>e DEF Begin
  <2>2. \A e \in EventKinds : Pending(e)' = Pending(e)
    BY <2>1 DEF Pending, Idle
  <2> QED BY <1>1, <1>b, <1>f, <2>1, <2>2 DEF InHand, Mine, mainVars
<1>2. CASE Count(1)
  <2>1. /\ thread[1].c = counterPtr[1] /\ thread[1].kind \in Kinds
        /\ heap'[counterPtr[1]] = CountedAt(counterPtr[1], thread[1].kind)
        /\ recorded' = [recorded EXCEPT ![thread[1].kind] = @ + 1]
        /\ thread'[1] = Idle \/ thread'[1] = [thread[1] EXCEPT !.at = "push"]
        /\ thread[1].at = "count" /\ UNCHANGED <<events, happened>>
    <3>1. thread[1].c = counterPtr[1]
      BY <1>2, <1>b DEF Count, Counting
    <3>2. thread[1].kind \in Kinds
          /\ heap'[counterPtr[1]] = CountedAt(counterPtr[1], thread[1].kind)
      BY <1>0, <1>2, <1>a, <3>1, CountHeap DEF Mine
    <3> QED BY <1>0, <1>2, <1>e, <3>1, <3>2 DEF Count
  <2>2. Mine'.n = [Mine.n EXCEPT ![thread[1].kind] = @ + 1]
    <3>1. CountedAt(counterPtr[1], thread[1].kind).n = [Mine.n EXCEPT ![thread[1].kind] = @ + 1]
      BY <1>0, <1>a, <2>1, CountedIs DEF Mine
    <3> QED BY <1>c, <2>1, <3>1 DEF Mine
  <2>3. \A k \in Kinds : InHand(k)' = 0 /\ InHand(k) = 0
    BY <1>c, <1>d DEF InHand, mainVars
  <2>4. \A k \in Kinds : recorded'[k] = totals'[k] + InHand(k)' + Mine'.n[k]
    <3>1. recorded \in [Kinds -> Nat] /\ totals \in [Kinds -> Nat] /\ totals' = totals
      BY <1>a, <1>c DEF TypeOK, mainVars
    <3> QED BY <1>0, <1>b, <2>1, <2>2, <2>3, <3>1
  <2>5. \A e \in EventKinds : Pending(e)' = 0 /\ Pending(e) = 0
    <3>1. thread'[1].at # "event"
      <4>1. thread[1] = [at |-> "count", c |-> thread[1].c, kind |-> thread[1].kind]
        BY <1>0, <2>1, OperationShape
      <4> QED BY <2>1, <4>1 DEF Idle
    <3> QED BY <2>1, <3>1 DEF Pending
  <2>6. Counting(1)' => thread'[1].c = counterPtr'[1]
    <3>1. thread[1] = [at |-> "count", c |-> thread[1].c, kind |-> thread[1].kind]
      BY <1>0, <2>1, OperationShape
    <3> QED BY <1>c, <2>1, <3>1 DEF Counting, Idle
  <2> QED BY <1>b, <1>f, <2>1, <2>4, <2>5, <2>6
<1>3. CASE PushLatency(1)
  <2>1. thread'[1] = Idle /\ thread[1].at = "push" /\ UNCHANGED <<recorded, events, happened>>
    BY <1>0, <1>3, <1>e DEF PushLatency
  <2>2. Mine'.n = Mine.n
    <3>1. thread[1].c = counterPtr[1]
      BY <1>b, <2>1 DEF Counting
    <3>2. heap'[counterPtr[1]] = PushedAt(counterPtr[1])
      BY <1>0, <1>3, <1>a, <3>1, PushHeap DEF Mine
    <3>3. PushedAt(counterPtr[1]).n = Mine.n
      BY <1>0, <1>a, PushedIs DEF Mine
    <3> QED BY <1>c, <3>2, <3>3 DEF Mine
  <2>3. \A k \in Kinds : InHand(k)' = 0 /\ InHand(k) = 0
    BY <1>c, <1>d DEF InHand, mainVars
  <2>4. \A e \in EventKinds : Pending(e)' = 0 /\ Pending(e) = 0
    BY <2>1 DEF Pending, Idle
  <2> QED BY <1>b, <1>c, <1>f, <2>1, <2>2, <2>3, <2>4 DEF Counting, Idle, mainVars
<1>4. ASSUME NEW e \in EventKinds, RecordEvent(1, e)
      PROVE  OnlyInv'
  <2>1. reporting /\ thread[1] = Idle
    BY <1>0, <1>4 DEF RecordEvent, Begin
  <2>2. /\ thread'[1] = [at |-> "event", event |-> e]
        /\ happened' = [happened EXCEPT ![e] = @ + 1]
        /\ UNCHANGED <<heap, events, recorded>>
    BY <1>0, <1>4, <1>e, <2>1 DEF RecordEvent, Begin
  <2>3. \A f \in EventKinds : Pending(f) = 0 /\ Pending(f)' = IF f = e THEN 1 ELSE 0
    BY <2>1, <2>2 DEF Pending, Idle
  <2>4. \A f \in EventKinds : happened'[f] = events'[f] + Pending(f)'
    <3>1. happened \in [EventKinds -> Nat] /\ events \in [EventKinds -> Nat]
      BY <1>a DEF TypeOK
    <3> QED BY <1>b, <2>2, <2>3, <3>1
  <2>5. ~Counting(1)'
    BY <2>2 DEF Counting
  <2> QED BY <1>b, <1>c, <1>f, <2>2, <2>4, <2>5 DEF InHand, Mine, mainVars
<1>5. CASE CountEvent(1)
  <2>1. /\ thread[1].at = "event" /\ thread'[1] = Idle
        /\ events' = [events EXCEPT ![thread[1].event] = @ + 1]
        /\ UNCHANGED <<heap, recorded, happened>>
    BY <1>0, <1>5, <1>e DEF CountEvent
  <2>2. \A f \in EventKinds : Pending(f)' = 0 /\ Pending(f) = IF f = thread[1].event THEN 1 ELSE 0
    BY <2>1 DEF Pending, Idle
  <2>3. \A f \in EventKinds : happened'[f] = events'[f] + Pending(f)'
    <3>1. happened \in [EventKinds -> Nat] /\ events \in [EventKinds -> Nat]
      BY <1>a DEF TypeOK
    <3> QED BY <1>b, <2>1, <2>2, <3>1
  <2> QED BY <1>b, <1>c, <1>f, <2>1, <2>3 DEF InHand, Mine, Counting, Idle, mainVars
<1> QED BY <1>1, <1>2, <1>3, <1>4, <1>5, KindsAre DEF ThreadNext, recordResult, recordBytes

\* Where main is when the thread's object must be untouched.
Untouched ==
  \/ hand # NoAddress \/ mainAt \in {"begin", "discard", "done"}
  \/ mainAt = "stop" /\ todo > 1

LEMMA OnlyMainStep ==
  ASSUME OwnInv, OwnInv', OnlyInv, JustOnce, MainNext
  PROVE  OnlyInv'
<1>0. /\ counterPtr[1] \in Addresses /\ counterPtr[1] # hand /\ counterPtr[1] \notin Kept
      /\ Mine.n \in [Kinds -> Nat] /\ numThreads = 1 /\ Threads = {1}
      /\ running => mainAt = "join" /\ reporting /\ hand = NoAddress
      /\ mainAt # "join" => thread[1] = Idle
  BY OnlyOne
<1>a. TypeInv /\ TypeOK /\ ControlInv
  BY DEF OwnInv, TypeInv
<1>b. /\ \A k \in Kinds : recorded[k] = totals[k] + InHand(k) + Mine.n[k]
      /\ \A e \in EventKinds : happened[e] = events[e] + Pending(e)
      /\ Counting(1) => thread[1].c = counterPtr[1]
      /\ Untouched => Mine.n = Zero
  BY DEF OnlyInv, Untouched
<1>c. /\ mainAt \in {"begin", "discard", "join", "stopped", "stop", "done"}
      /\ hand # NoAddress => mainAt = "stop" /\ todo <= 1
  BY <1>0, <1>a DEF ControlInv
<1>d. UNCHANGED <<JustOnce, thread>>
  BY DEF MainNext, StartThreads, RecordStart, Discard, StartReporting, ReportInterval,
         Exchange, Collect, LoopDone, EndWarmup, RecordStop, Join
<1>e. Counting(1)' = Counting(1) /\ \A e \in EventKinds : Pending(e)' = Pending(e)
  BY <1>d DEF Counting, Pending
<1>f. \A k \in Kinds : totals[k] \in Nat /\ recorded[k] \in Nat /\ InHand(k) \in Nat
                       /\ Mine.n[k] \in Nat
  BY <1>0, CountTypes
<1>g. /\ \A k \in Kinds : recorded'[k] = totals'[k] + InHand(k)' + Mine'.n[k]
      /\ \A e \in EventKinds : happened'[e] = events'[e] + Pending(e)'
      /\ Counting(1)' => thread'[1].c = counterPtr'[1]
      /\ Untouched' => Mine'.n = Zero
      => OnlyInv'
  BY DEF OnlyInv, Untouched
<1>h. NewCounters.n = Zero /\ \A k \in Kinds : Zero[k] = 0
  BY KindsAre DEF NewCounters, Zero
<1>1. CASE RecordStart
  <2>1. mainAt = "begin" /\ thread[1] = Idle /\ hand = NoAddress /\ Mine.n = Zero
    BY <1>0, <1>b, <1>c, <1>1 DEF RecordStart, Untouched
  <2>2. /\ totals' = Zero /\ recorded' = Zero /\ events' = NoEvents /\ happened' = NoEvents
        /\ UNCHANGED <<hand, counterPtr>>
    BY <1>1 DEF RecordStart
  <2>3. Mine' = Mine
    <3>1. heap' = [a \in Addresses |-> IF a \in Kept THEN Free ELSE heap[a]]
      BY <1>1 DEF RecordStart, Kept
    <3> QED BY <1>0, <2>2, <3>1 DEF Mine
  <2>4. \A k \in Kinds : InHand(k)' = 0
    BY <2>1, <2>2 DEF InHand
  <2>5. \A e \in EventKinds : Pending(e)' = 0 /\ NoEvents[e] = 0
    BY <1>e, <2>1 DEF Pending, Idle, NoEvents
  <2>6. ~Counting(1)
    BY <2>1 DEF Counting, Idle
  <2> QED BY <1>e, <1>g, <1>h, <2>1, <2>2, <2>3, <2>4, <2>5, <2>6
<1>2. CASE Discard
  <2>1. mainAt = "discard" /\ thread[1] = Idle /\ todo = 1
    <3>1. mainAt = "discard" /\ todo <= numThreads
      BY <1>2 DEF Discard
    <3>2. todo \in 1 .. numThreads + 1
      BY <1>a DEF TypeOK
    <3> QED BY <1>0, <3>1, <3>2
  <2>2. Mine.n = Zero
    BY <1>b, <2>1 DEF Untouched
  <2>3. /\ UNCHANGED <<totals, recorded, hand>> /\ hand = NoAddress
        /\ Mine'.n = Zero
    <3>1. PICK a \in Allocatable : counterPtr' = [counterPtr EXCEPT ![todo] = a]
                                   /\ heap'[a] = NewCounters
      BY <1>2, DiscardIs
    <3>2. counterPtr'[1] = a
      BY <1>a, <1>0, <2>1, <3>1 DEF TypeOK
    <3> QED BY <1>2, <1>h, <3>1, <3>2, DiscardIs DEF Mine
  <2>4. UNCHANGED <<events, happened>>
    BY <1>2 DEF Discard
  <2>5. \A k \in Kinds : InHand(k)' = InHand(k)
    BY <2>3 DEF InHand
  <2>6. ~Counting(1)
    BY <2>1 DEF Counting, Idle
  <2> QED BY <1>b, <1>e, <1>g, <2>2, <2>3, <2>4, <2>5, <2>6
<1>3. CASE Exchange
  <2>1. mainAt = "stop" /\ thread[1] = Idle /\ todo = 1 /\ hand = NoAddress
    <3>1. mainAt \in {"interval", "stop"} /\ todo <= numThreads /\ hand = NoAddress
      BY <1>3 DEF Exchange
    <3>2. todo \in 1 .. numThreads + 1
      BY <1>a DEF TypeOK
    <3> QED BY <1>0, <1>c, <3>1, <3>2
  <2>2. /\ UNCHANGED <<totals, recorded>> /\ hand' = counterPtr[1] /\ hand' # NoAddress
        /\ heap'[hand'] = heap[hand'] /\ Mine'.n = Zero
    <3>1. PICK a \in Allocatable : counterPtr' = [counterPtr EXCEPT ![todo] = a]
                                   /\ heap'[a] = NewCounters
      BY <1>3, ExchangeIs
    <3>2. counterPtr'[1] = a
      BY <1>a, <1>0, <2>1, <3>1 DEF TypeOK
    <3> QED BY <1>3, <1>h, <2>1, <3>1, <3>2, ExchangeIs DEF Mine
  <2>3. UNCHANGED <<events, happened>>
    BY <1>3 DEF Exchange
  <2>4. \A k \in Kinds : InHand(k) = 0 /\ InHand(k)' = Mine.n[k]
    BY <2>1, <2>2 DEF InHand, Mine
  <2>5. ~Counting(1)
    BY <2>1 DEF Counting, Idle
  <2> QED BY <1>b, <1>e, <1>f, <1>g, <1>h, <2>2, <2>3, <2>4, <2>5
<1>4. CASE Collect
  <2>1. hand # NoAddress /\ mainAt = "stop" /\ thread[1] = Idle /\ Mine.n = Zero
    BY <1>0, <1>b, <1>c, <1>4 DEF Collect, Untouched
  <2>2. UNCHANGED <<heap, counterPtr, events, happened, recorded>>
    BY <1>4 DEF Collect
  <2>3. \A k \in Kinds : InHand(k)' = 0 /\ totals'[k] = totals[k] + InHand(k)
    BY <1>4, CollectCounts
  <2>4. ~Counting(1) /\ Mine' = Mine
    BY <2>1, <2>2 DEF Counting, Idle, Mine
  <2> QED BY <1>b, <1>e, <1>f, <1>g, <2>1, <2>2, <2>3, <2>4
<1>5. CASE UNCHANGED <<hand, counterPtr, heap, totals, recorded, events, happened>>
  <2>1. Untouched' => Untouched
    <3>1. \/ StartReporting \/ LoopDone("stop", "done") \/ RecordStop \/ Join
          \/ UNCHANGED <<mainAt, todo>> \/ Untouched
      BY <1>c DEF MainNext, StartThreads, RecordStart, Discard, ReportInterval, Exchange,
                  Collect, LoopDone, EndWarmup, Untouched
    <3>2. CASE StartReporting
      BY <3>2 DEF StartReporting, Untouched
    <3>3. CASE LoopDone("stop", "done")
      BY <1>0, <3>3 DEF LoopDone, Untouched
    <3>4. CASE RecordStop
      BY <3>4 DEF RecordStop, Untouched
    <3>5. CASE Join
      BY <3>5 DEF Join, Untouched
    <3>6. CASE UNCHANGED <<mainAt, todo>>
      BY <1>5, <3>6 DEF Untouched
    <3> QED BY <3>1, <3>2, <3>3, <3>4, <3>5, <3>6
  <2>2. Mine' = Mine /\ \A k \in Kinds : InHand(k)' = InHand(k)
    BY <1>5 DEF Mine, InHand
  <2> QED BY <1>5, <1>b, <1>d, <1>e, <1>g, <2>1, <2>2
<1>6. \/ RecordStart \/ Discard \/ Exchange \/ Collect
      \/ UNCHANGED <<hand, counterPtr, heap, totals, recorded, events, happened>>
  BY DEF MainNext, StartThreads, StartReporting, ReportInterval, LoopDone, EndWarmup,
         RecordStop, Join
<1> QED BY <1>1, <1>2, <1>3, <1>4, <1>5, <1>6

LEMMA OnlyStep ==
  ASSUME OwnInv, OwnInv', [Next]_vars, OnlyInv
  PROVE  OnlyInv'
<1>1. JustOnce' = JustOnce
  BY NextIs, QuietKeeps, DiscardIs, ExchangeIs DEF RecordStart, Collect
<1>2. CASE ~JustOnce
  BY <1>1, <1>2 DEF OnlyInv
<1>3. CASE JustOnce /\ MainNext
  BY <1>3, OnlyMainStep
<1>4. CASE JustOnce /\ \E t \in Threads : ThreadNext(t)
  <2>1. Threads = {1}
    BY <1>4, OnlyOne
  <2> QED BY <1>4, <2>1, OnlyThreadStep
<1>5. CASE UNCHANGED vars
  BY <1>5 DEF OnlyInv, InHand, Mine, Pending, Counting, vars, mainVars
<1> QED BY <1>2, <1>3, <1>4, <1>5 DEF Next, Terminated

LEMMA OnlyInit == Init => OnlyInv
<1> SUFFICES ASSUME Init, JustOnce, OwnInv PROVE OnlyInv
  BY OwnInvariance DEF OnlyInv
<1>1. Threads = {1} /\ counterPtr[1] \in Addresses
  BY OnlyOne
<1>2. Mine = NewCounters /\ thread[1] = Idle
  BY <1>1 DEF Init, Mine
<1>3. Mine.n = Zero
  BY <1>2 DEF NewCounters
<1>4. totals = Zero /\ recorded = Zero /\ hand = NoAddress
  BY DEF Init
<1>5. events = NoEvents /\ happened = NoEvents
  BY DEF Init
<1>6. \A k \in Kinds : recorded[k] = totals[k] + InHand(k) + Mine.n[k]
  BY <1>3, <1>4, KindsAre DEF InHand, Zero
<1>7. \A e \in EventKinds : happened[e] = events[e] + Pending(e)
  BY <1>2, <1>5 DEF Pending, Idle, NoEvents
<1> QED BY <1>2, <1>3, <1>6, <1>7 DEF OnlyInv, Counting, Idle

LEMMA CountsMeanIt ==
  ASSUME OwnInv, CountsInv, OnlyInv
  PROVE  NothingCountedTwice
<1>1. TypeOK /\ ControlInv
  BY DEF OwnInv, TypeInv
<1>2. \A k \in Kinds : totals[k] <= recorded[k]
  BY CountTypes DEF CountsInv
<1>3. ASSUME JustOnce, mainAt = "done"
      PROVE  totals = recorded /\ events = happened
  <2>1. Mine.n = Zero /\ hand = NoAddress /\ thread[1] = Idle
    BY <1>1, <1>3, OnlyOne DEF OnlyInv, ControlInv
  <2>2. \A k \in Kinds : recorded[k] = totals[k]
    <3>1. \A k \in Kinds : recorded[k] = totals[k] + InHand(k) + Mine.n[k]
      BY <1>3 DEF OnlyInv
    <3>2. \A k \in Kinds : InHand(k) = 0 /\ Mine.n[k] = 0
      BY <2>1, KindsAre DEF InHand, Zero
    <3> QED BY <3>1, <3>2, CountTypes
  <2>3. \A e \in EventKinds : happened[e] = events[e]
    <3>1. \A e \in EventKinds : happened[e] = events[e] + Pending(e)
      BY <1>3 DEF OnlyInv
    <3>2. \A e \in EventKinds : Pending(e) = 0
      BY <2>1 DEF Pending, Idle
    <3> QED BY <1>1, <3>1, <3>2 DEF TypeOK
  <2> QED BY <1>1, <2>2, <2>3 DEF TypeOK
<1> QED BY <1>2, <1>3 DEF NothingCountedTwice

\* However the threads record and main reports, main never counts a result
\* twice; with "-1" the report is exactly what happened.
THEOREM CountedOnce == Spec => []NothingCountedTwice
<1> DEFINE Inv == OwnInv /\ CountsInv /\ OnlyInv
<1>1. Init => Inv
  BY OwnInvariance, CountsInit, OnlyInit
<1>2. Inv /\ [Next]_vars => Inv'
  BY OwnInvariance, CountsStep, OnlyStep
<1>3. Inv => NothingCountedTwice
  BY CountsMeanIt
<1> QED BY <1>1, <1>2, <1>3, PTL DEF Spec

-----------------------------------------------------------------------------
(***************************************************************************)
(* Every result has its latency.                                           *)
(***************************************************************************)
\* S and T differ in t at most.
Toggled(S, T, t) == S \ {t} = T \ {t}

CardFollows(S, T, t) ==
  /\ Cardinality(S) \in Nat /\ Cardinality(T) \in Nat
  /\ (t \in S <=> t \in T) => Cardinality(T) = Cardinality(S)
  /\ t \in T /\ t \notin S => Cardinality(T) = Cardinality(S) + 1
  /\ t \notin T /\ t \in S => Cardinality(T) = Cardinality(S) - 1

LEMMA OneMember ==
  ASSUME NEW S, NEW T, NEW t, IsFiniteSet(S), Toggled(S, T, t)
  PROVE  CardFollows(S, T, t)
<1> DEFINE U == S \ {t}
<1>1. /\ IsFiniteSet(U) /\ Cardinality(U) \in Nat
      /\ Cardinality(U) = IF t \in S THEN Cardinality(S) - 1 ELSE Cardinality(S)
  BY FS_RemoveElement, FS_CardinalityType
<1>2. U = T \ {t} /\ Cardinality(S) \in Nat
  BY FS_CardinalityType DEF Toggled
<1>3. t \notin U
  OBVIOUS
<1> HIDE DEF U
<1>4. Cardinality(U \cup {t}) = Cardinality(U) + 1
  BY <1>1, <1>3, FS_AddElement
<1>5. CASE t \in T
  <2>1. T = U \cup {t}
    BY <1>2, <1>5
  <2>2. Cardinality(T) = Cardinality(U) + 1
    BY <1>4, <2>1
  <2> QED BY <1>1, <1>2, <1>5, <2>2 DEF CardFollows
<1>6. CASE t \notin T
  <2>1. T = U
    BY <1>2, <1>6
  <2>2. Cardinality(T) = Cardinality(U)
    BY <2>1
  <2> QED BY <1>1, <1>2, <1>6, <2>2 DEF CardFollows
<1> QED BY <1>5, <1>6

LEMMA SubsetsOfThreads ==
  ASSUME OwnInv, NEW S, S \subseteq Threads
  PROVE  IsFiniteSet(S) /\ Cardinality(S) \in Nat
<1>1. IsFiniteSet(Threads)
  BY OwnersAre, FS_Interval
<1> QED BY <1>1, FS_Subset, FS_CardinalityType

\* The threads that have counted a result in the object at a and not pushed its
\* latency yet.
Pushers(a) == {t \in Threads : thread[t].at = "push" /\ thread[t].c = a}

\* In every object, each result has its latency or a thread that pushes it.
OwedInv ==
  \A a \in Addresses :
    heap[a] # Free => Completed(heap[a].n) <= heap[a].latencies + Cardinality(Pushers(a))

LEMMA CompletedIs ==
  ASSUME NEW n \in [Kinds -> Nat]
  PROVE  /\ Completed(n) \in Nat
         /\ \A k \in Kinds :
              Completed([n EXCEPT ![k] = @ + 1])
                = IF k = "bytes" THEN Completed(n) ELSE Completed(n) + 1
<1>1. n.ok \in Nat /\ n.failed \in Nat
  BY KindsAre
<1>2. ASSUME NEW k \in Kinds
      PROVE  Completed([n EXCEPT ![k] = @ + 1])
               = IF k = "bytes" THEN Completed(n) ELSE Completed(n) + 1
  <2> DEFINE m == [n EXCEPT ![k] = @ + 1]
  <2>1. /\ m.ok = IF k = "ok" THEN n.ok + 1 ELSE n.ok
        /\ m.failed = IF k = "failed" THEN n.failed + 1 ELSE n.failed
    BY KindsAre
  <2> HIDE DEF m
  <2>2. Completed(m) = IF k = "bytes" THEN Completed(n) ELSE Completed(n) + 1
    BY <1>1, <2>1, KindsAre DEF Completed
  <2> QED BY <2>2 DEF m
<1>3. Completed(n) \in Nat
  BY <1>1 DEF Completed
<1> QED BY <1>2, <1>3

LEMMA ZeroIs == Completed(Zero) = 0
BY DEF Completed, Zero

\* At c, dl latencies and dc results are added; nothing else changes.
Changes(c, dl, dc) ==
  /\ \A a \in Addresses : a # c => heap'[a] = heap[a]
  /\ heap[c] = Free => heap'[c] = Free
  /\ heap[c] # Free =>
       /\ heap'[c] # Free
       /\ heap'[c].latencies = heap[c].latencies + dl
       /\ Completed(heap'[c].n) = Completed(heap[c].n) + dc

LEMMA CountChanges ==
  ASSUME OwnInv, NEW t \in Threads, Count(t)
  PROVE  /\ thread[t].c \in Addresses
         /\ \/ thread[t].kind = "bytes" /\ thread'[t] = Idle /\ Changes(thread[t].c, 0, 0)
            \/ /\ thread[t].kind # "bytes"
               /\ thread'[t].at = "push" /\ thread'[t].c = thread[t].c
               /\ Changes(thread[t].c, 0, 1)
         /\ thread[t].at = "count"
         /\ \A u \in Threads : u # t => thread'[u] = thread[u]
<1>1. TypeInv
  BY DEF OwnInv
<1> DEFINE c == thread[t].c
<1>2. /\ c \in Addresses /\ thread[t].kind \in Kinds
      /\ \A a \in Addresses : a # c => heap'[a] = heap[a]
      /\ heap[c] = Free => heap'[c] = Free
      /\ heap[c] # Free => heap'[c] = CountedAt(c, thread[t].kind)
  BY <1>1, CountHeap
<1>3. heap[c] # Free =>
        /\ heap'[c] # Free /\ heap'[c].latencies = heap[c].latencies
        /\ heap'[c].n = [heap[c].n EXCEPT ![thread[t].kind] = @ + 1]
  BY <1>1, <1>2, CountedIs
<1>4. heap[c].n \in [Kinds -> Nat] /\ heap[c].latencies \in Int
  BY <1>1, <1>2, ObjectShape DEF TypeInv
<1>5. heap[c] # Free =>
        Completed(heap'[c].n) = IF thread[t].kind = "bytes" THEN Completed(heap[c].n)
                                                            ELSE Completed(heap[c].n) + 1
  BY <1>2, <1>3, <1>4, CompletedIs
<1>6. Completed(heap[c].n) \in Nat
  BY <1>4, CompletedIs
<1>7. /\ thread[t].at = "count" /\ thread[t] \in Operations
      /\ thread' = [thread EXCEPT ![t] = IF thread[t].kind = "bytes" THEN Idle
                                         ELSE [thread[t] EXCEPT !.at = "push"]]
      /\ DOMAIN thread = Threads
  BY <1>1 DEF Count, TypeInv
<1>8. [thread[t] EXCEPT !.at = "push"].c = c /\ [thread[t] EXCEPT !.at = "push"].at = "push"
  <2>1. thread[t] = [at |-> "count", c |-> thread[t].c, kind |-> thread[t].kind]
    BY <1>7, OperationShape
  <2> QED BY <2>1
<1>9. thread[t].kind = "bytes" => Changes(c, 0, 0)
  BY <1>2, <1>3, <1>4, <1>5, <1>6 DEF Changes
<1>10. thread[t].kind # "bytes" => Changes(c, 0, 1)
  BY <1>2, <1>3, <1>4, <1>5, <1>6 DEF Changes
<1> QED BY <1>2, <1>7, <1>8, <1>9, <1>10

LEMMA PushChanges ==
  ASSUME OwnInv, NEW t \in Threads, PushLatency(t)
  PROVE  /\ thread[t].c \in Addresses /\ thread[t].at = "push" /\ thread'[t] = Idle
         /\ Changes(thread[t].c, 1, 0)
         /\ \A u \in Threads : u # t => thread'[u] = thread[u]
<1>1. TypeInv
  BY DEF OwnInv
<1> DEFINE c == thread[t].c
<1>2. /\ c \in Addresses
      /\ \A a \in Addresses : a # c => heap'[a] = heap[a]
      /\ heap[c] = Free => heap'[c] = Free
      /\ heap[c] # Free => heap'[c] = PushedAt(c)
  BY <1>1, PushHeap
<1>3. heap[c] # Free =>
        /\ heap'[c] # Free /\ heap'[c].latencies = heap[c].latencies + 1
        /\ heap'[c].n = heap[c].n
  BY <1>1, <1>2, PushedIs
<1>4. heap[c].n \in [Kinds -> Nat]
  BY <1>1, <1>2, ObjectShape DEF TypeInv
<1>5. Completed(heap[c].n) \in Nat
  BY <1>4, CompletedIs
<1>6. Changes(c, 1, 0)
  BY <1>2, <1>3, <1>5 DEF Changes
<1>7. /\ thread[t].at = "push" /\ thread' = [thread EXCEPT ![t] = Idle]
      /\ DOMAIN thread = Threads
  BY <1>1 DEF PushLatency, TypeInv
<1> QED BY <1>2, <1>6, <1>7

\* What a thread does that counts nothing, and main's other steps.
LEMMA OtherQuiet ==
  ASSUME OwnInv, Quiet, \A t \in Threads : ~Count(t) /\ ~PushLatency(t)
  PROVE  /\ heap' = heap
         /\ \/ thread' = thread
            \/ \E t \in Threads :
                 /\ \A u \in Threads : u # t => thread'[u] = thread[u]
                 /\ thread[t].at \notin {"count", "push"}
                 /\ \/ thread'[t].at \notin {"count", "push"}
                    \/ thread'[t].at = "count" /\ thread'[t].c = counterPtr[t]
<1>1. thread \in [Threads -> Operations]
  BY DEF OwnInv, TypeInv
<1>2. heap' = heap
  BY DEF Quiet, ThreadNext, recordResult, recordBytes, RecordEvent,
         CountEvent, mainVars, vars, StartThreads, StartReporting, ReportInterval, LoopDone,
         EndWarmup, RecordStop, Join
<1>3. ASSUME NEW t \in Threads, ThreadNext(t)
      PROVE  /\ \A u \in Threads : u # t => thread'[u] = thread[u]
             /\ thread[t].at \notin {"count", "push"}
             /\ \/ thread'[t].at \notin {"count", "push"}
                \/ thread'[t].at = "count" /\ thread'[t].c = counterPtr[t]
  <2>1. CASE CountEvent(t)
    BY <1>1, <2>1 DEF CountEvent, Idle
  <2>2. CASE \E e \in EventKinds : RecordEvent(t, e)
    BY <1>1, <2>2 DEF RecordEvent, Begin, Idle
  <2>3. CASE \E kind \in {"ok", "failed"} : recordResult(t, kind)
    BY <1>1, <2>3 DEF recordResult, Begin, Idle
  <2>4. CASE recordBytes(t)
    BY <1>1, <2>4 DEF recordBytes, Begin, Idle
  <2> QED BY <1>3, <2>1, <2>2, <2>3, <2>4 DEF ThreadNext
<1>4. (\E t \in Threads : ThreadNext(t)) \/ thread' = thread
  BY DEF Quiet, mainVars, vars, StartThreads, StartReporting, ReportInterval, LoopDone,
         EndWarmup, RecordStop, Join
<1> QED BY <1>2, <1>3, <1>4

\* Main's other steps leave each object as it was, or make it a new one, or free.
LEMMA MainHeap ==
  ASSUME OwnInv, RecordStart \/ Discard \/ Exchange \/ Collect
  PROVE  /\ \A a \in Addresses : heap'[a] \in {heap[a], NewCounters, Free}
         /\ thread' = thread
<1>1. heap \in [Addresses -> Objects]
  BY DEF OwnInv, TypeInv
<1>2. CASE RecordStart
  BY <1>2 DEF RecordStart
<1>3. CASE Discard
  BY <1>1, <1>3 DEF Discard
<1>4. CASE Exchange
  BY <1>1, <1>4 DEF Exchange
<1>5. CASE Collect
  BY <1>5 DEF Collect
<1> QED BY <1>2, <1>3, <1>4, <1>5

LEMMA OwedStep ==
  ASSUME OwnInv, OwnInv', [Next]_vars, OwedInv
  PROVE  OwedInv'
<1>0. Threads' = Threads
  <2>1. JustOnce' = JustOnce
    BY NextIs, QuietKeeps, DiscardIs, ExchangeIs DEF RecordStart, Collect
  <2> QED BY <2>1 DEF Threads, numThreads
<1> SUFFICES ASSUME NEW a \in Addresses, heap'[a] # Free
             PROVE  Completed(heap'[a].n) <= heap'[a].latencies + Cardinality(Pushers(a)')
  BY DEF OwedInv
<1>a. heap[a] \in Objects
  BY DEF OwnInv, TypeInv
<1>b. /\ heap[a].n \in [Kinds -> Nat] /\ heap[a].latencies \in Int
      /\ Completed(heap[a].n) \in Nat
  BY <1>a, ObjectShape, CompletedIs
<1>c. heap[a] # Free => Completed(heap[a].n) <= heap[a].latencies + Cardinality(Pushers(a))
  BY DEF OwedInv
<1>d. IsFiniteSet(Pushers(a)) /\ Cardinality(Pushers(a)) \in Nat
  BY SubsetsOfThreads DEF Pushers
<1>e. ASSUME NEW t, Toggled(Pushers(a), Pushers(a)', t)
      PROVE  CardFollows(Pushers(a), Pushers(a)', t)
  <2>1. PICK S, T : S = Pushers(a) /\ T = Pushers(a)'
    OBVIOUS
  <2>2. CardFollows(S, T, t)
    BY <1>d, <1>e, <2>1, OneMember
  <2> QED BY <2>1, <2>2
<1>1. ASSUME NEW t \in Threads, Count(t)
      PROVE  Completed(heap'[a].n) <= heap'[a].latencies + Cardinality(Pushers(a)')
  <2>1. /\ thread[t].at = "count" /\ \A u \in Threads : u # t => thread'[u] = thread[u]
        /\ \/ thread[t].kind = "bytes" /\ thread'[t] = Idle /\ Changes(thread[t].c, 0, 0)
           \/ /\ thread[t].kind # "bytes"
              /\ thread'[t].at = "push" /\ thread'[t].c = thread[t].c
              /\ Changes(thread[t].c, 0, 1)
    BY <1>1, CountChanges
  <2>2. Toggled(Pushers(a), Pushers(a)', t)
    BY <1>0, <2>1 DEF Toggled, Pushers
  <2>3. CardFollows(Pushers(a), Pushers(a)', t)
    BY <1>e, <2>2
  <2>4. t \notin Pushers(a)
    BY <2>1 DEF Pushers
  <2>5. CASE thread[t].kind = "bytes"
    <3>1. t \notin Pushers(a)' /\ Changes(thread[t].c, 0, 0)
      BY <2>1, <2>5 DEF Pushers, Idle
    <3>2. /\ heap[a] # Free /\ heap'[a].latencies = heap[a].latencies
          /\ Completed(heap'[a].n) = Completed(heap[a].n)
      BY <1>b, <3>1 DEF Changes
    <3> QED BY <1>c, <2>3, <2>4, <3>1, <3>2 DEF CardFollows
  <2>6. CASE thread[t].kind # "bytes" /\ thread[t].c = a
    <3>1. t \in Pushers(a)' /\ Changes(a, 0, 1)
      BY <1>0, <2>1, <2>6 DEF Pushers
    <3>2. /\ heap[a] # Free /\ heap'[a].latencies = heap[a].latencies
          /\ Completed(heap'[a].n) = Completed(heap[a].n) + 1
      BY <1>b, <3>1 DEF Changes
    <3>3. Cardinality(Pushers(a)') = Cardinality(Pushers(a)) + 1
      BY <2>3, <2>4, <3>1 DEF CardFollows
    <3> QED BY <1>b, <1>c, <1>d, <3>2, <3>3
  <2>7. CASE thread[t].kind # "bytes" /\ thread[t].c # a
    <3>1. t \notin Pushers(a)' /\ Changes(thread[t].c, 0, 1)
      BY <2>1, <2>7 DEF Pushers
    <3>2. heap'[a] = heap[a]
      BY <2>7, <3>1 DEF Changes
    <3> QED BY <1>c, <2>3, <2>4, <3>1, <3>2 DEF CardFollows
  <2> QED BY <2>5, <2>6, <2>7
<1>2. ASSUME NEW t \in Threads, PushLatency(t)
      PROVE  Completed(heap'[a].n) <= heap'[a].latencies + Cardinality(Pushers(a)')
  <2>1. /\ thread[t].at = "push" /\ thread'[t] = Idle /\ Changes(thread[t].c, 1, 0)
        /\ \A u \in Threads : u # t => thread'[u] = thread[u]
    BY <1>2, PushChanges
  <2>2. Toggled(Pushers(a), Pushers(a)', t)
    BY <1>0, <2>1 DEF Toggled, Pushers
  <2>3. CardFollows(Pushers(a), Pushers(a)', t)
    BY <1>e, <2>2
  <2>4. t \notin Pushers(a)' /\ (t \in Pushers(a) <=> thread[t].c = a)
    BY <2>1 DEF Pushers, Idle
  <2>5. CASE thread[t].c = a
    <3>1. /\ heap[a] # Free /\ heap'[a].latencies = heap[a].latencies + 1
          /\ Completed(heap'[a].n) = Completed(heap[a].n)
      BY <1>b, <2>1, <2>5 DEF Changes
    <3>2. Cardinality(Pushers(a)') = Cardinality(Pushers(a)) - 1
      BY <2>3, <2>4, <2>5 DEF CardFollows
    <3> QED BY <1>b, <1>c, <1>d, <3>1, <3>2
  <2>6. CASE thread[t].c # a
    <3>1. heap'[a] = heap[a]
      BY <2>1, <2>6 DEF Changes
    <3> QED BY <1>c, <2>3, <2>4, <2>6, <3>1 DEF CardFollows
  <2> QED BY <2>5, <2>6
<1>3. CASE Quiet /\ \A t \in Threads : ~Count(t) /\ ~PushLatency(t)
  <2>1. heap' = heap
    BY <1>3, OtherQuiet
  <2>2. Pushers(a)' = Pushers(a)
    BY <1>0, <1>3, OtherQuiet DEF Pushers
  <2> QED BY <1>c, <2>1, <2>2
<1>4. CASE RecordStart \/ Discard \/ Exchange \/ Collect
  <2>1. heap'[a] \in {heap[a], NewCounters} /\ thread' = thread
    BY <1>4, MainHeap
  <2>2. Pushers(a)' = Pushers(a)
    BY <1>0, <2>1 DEF Pushers
  <2>3. Completed(NewCounters.n) <= NewCounters.latencies + Cardinality(Pushers(a))
    BY <1>d, ZeroIs DEF NewCounters
  <2> QED BY <1>c, <2>1, <2>2, <2>3
<1> QED BY <1>1, <1>2, <1>3, <1>4, NextIs

LEMMA OwedInit == Init => OwedInv
<1> SUFFICES ASSUME Init, OwnInv, NEW a \in Addresses, heap[a] # Free
             PROVE  Completed(heap[a].n) <= heap[a].latencies + Cardinality(Pushers(a))
  BY OwnInvariance DEF OwedInv
<1>1. heap[a] = NewCounters
  BY DEF Init
<1>2. Cardinality(Pushers(a)) \in Nat
  BY SubsetsOfThreads DEF Pushers
<1> QED BY <1>1, <1>2, ZeroIs DEF NewCounters

\* What each object holds: its latencies, its results, and how many more
\* latencies than results.
Lat == [a \in Addresses |-> heap[a].latencies]
Comp == [a \in Addresses |-> Completed(heap[a].n)]
Surp == [a \in Addresses |-> heap[a].latencies - Completed(heap[a].n)]

KeptLatencies == Weigh(accumulatedResults, AllKept, Lat)
KeptResults == Weigh(accumulatedResults, AllKept, Comp)
HandSurplus == IF hand = NoAddress THEN 0 ELSE Surp[hand]
ThreadSurplus == Weigh(counterPtr, FreshThreads, Surp)

LEMMA HoldTypes ==
  ASSUME heap \in [Addresses -> Objects]
  PROVE  /\ Lat \in [Addresses -> Int] /\ Comp \in [Addresses -> Nat]
         /\ Comp \in [Addresses -> Int] /\ Surp \in [Addresses -> Int]
         /\ \A a \in Addresses : Surp[a] = Lat[a] - Comp[a]
<1>1. \A a \in Addresses : heap[a].latencies \in Int /\ heap[a].n \in [Kinds -> Nat]
  BY ObjectShape
<1>2. \A a \in Addresses : Completed(heap[a].n) \in Nat
  BY <1>1, CompletedIs
<1> QED BY <1>1, <1>2 DEF Lat, Comp, Surp

LEMMA ReportedIs ==
  ASSUME OwnInv
  PROVE  ReportedLatencies = KeptLatencies
<1>1. \A i \in DOMAIN accumulatedResults : accumulatedResults[i] \in Addresses
  BY OwnersAre
<1>2. [i \in DOMAIN accumulatedResults |-> heap[accumulatedResults[i]].latencies]
        = Weights(accumulatedResults, AllKept, Lat)
  BY <1>1 DEF Weights, AllKept, Lat
<1> QED BY <1>2 DEF ReportedLatencies, KeptLatencies, Weigh

LEMMA SumTypes ==
  ASSUME OwnInv
  PROVE  /\ KeptLatencies \in Int /\ KeptResults \in Nat
         /\ HandSurplus \in Int /\ ThreadSurplus \in Int
<1>1. /\ Lat \in [Addresses -> Int] /\ Comp \in [Addresses -> Nat]
      /\ Surp \in [Addresses -> Int] /\ hand \in Addresses \cup {NoAddress}
  BY HoldTypes DEF OwnInv, TypeInv, TypeOK
<1>2. PICK l, r, s : l = Lat /\ r = Comp /\ s = Surp
  OBVIOUS
<1>3. /\ Weigh(accumulatedResults, AllKept, l) \in Int
      /\ Weigh(accumulatedResults, AllKept, r) \in Nat
  <2>1. /\ Len(accumulatedResults) \in Nat
        /\ accumulatedResults \in [1 .. Len(accumulatedResults) -> Addresses]
    BY OwnersAre
  <2> QED BY <1>1, <1>2, <2>1, WeighType, WeighNat
<1>4. Weigh(counterPtr, FreshThreads, s) \in Int
  <2>1. numThreads \in Nat /\ counterPtr \in [1 .. numThreads -> Addresses]
    BY OwnersAre
  <2> QED BY <1>1, <1>2, <2>1, WeighType
<1> QED BY <1>1, <1>2, <1>3, <1>4 DEF KeptLatencies, KeptResults, HandSurplus, ThreadSurplus

\* What a thread does to the object at c is seen by one owner, or by none.
SeenInKept(dl, dc) ==
  /\ KeptLatencies' = KeptLatencies + dl /\ KeptResults' = KeptResults + dc
  /\ HandSurplus' = HandSurplus /\ ThreadSurplus' = ThreadSurplus
SeenInHand(dl, dc) ==
  /\ KeptLatencies' = KeptLatencies /\ KeptResults' = KeptResults
  /\ HandSurplus' = HandSurplus + (dl - dc) /\ ThreadSurplus' = ThreadSurplus
SeenByThread(dl, dc) ==
  /\ KeptLatencies' = KeptLatencies /\ KeptResults' = KeptResults
  /\ HandSurplus' = HandSurplus /\ ThreadSurplus' = ThreadSurplus + (dl - dc)
SeenByNone ==
  /\ KeptLatencies' = KeptLatencies /\ KeptResults' = KeptResults
  /\ HandSurplus' = HandSurplus /\ ThreadSurplus' = ThreadSurplus

Seen(c, dl, dc) ==
  \/ c \notin InUse /\ SeenInKept(dl, dc)
  \/ c \notin InUse /\ SeenInHand(dl, dc)
  \/ (\E u \in FreshThreads : counterPtr[u] = c) /\ SeenByThread(dl, dc)
  \/ (\A u \in FreshThreads : counterPtr[u] # c) /\ SeenByNone

LEMMA ObjectMoves ==
  ASSUME OwnInv, OwnInv', UNCHANGED <<counterPtr, hand, accumulatedResults>>,
         FreshThreads' = FreshThreads,
         NEW c \in Addresses, NEW dl \in Int, NEW dc \in Int, Changes(c, dl, dc)
  PROVE  Seen(c, dl, dc)
<1>1. /\ heap \in [Addresses -> Objects] /\ heap' \in [Addresses -> Objects]
      /\ hand \in Addresses \cup {NoAddress}
  BY DEF OwnInv, TypeInv, TypeOK
<1>2. AllKept' = AllKept
  BY DEF AllKept
<1>3. CASE heap[c] = Free
  <2>1. heap' = heap
    BY <1>1, <1>3 DEF Changes
  <2>2. SeenByNone
    BY <1>2, <2>1 DEF SeenByNone, KeptLatencies, KeptResults, HandSurplus, ThreadSurplus,
                      Lat, Comp, Surp
  <2>3. c \notin InUse
    BY <1>3, OneOwnerIs DEF OwnInv, Apart, Allocated
  <2>4. \A u \in FreshThreads : counterPtr[u] # c
    BY <2>3, OwnersAre DEF InUse, Range
  <2> QED BY <2>2, <2>4 DEF Seen
<1>4. CASE heap[c] # Free
  <2>1. PICK l, m, r, q, s, x : /\ l = Lat /\ m = Lat' /\ r = Comp /\ q = Comp'
                                /\ s = Surp /\ x = Surp'
    OBVIOUS
  <2>2. /\ l \in [Addresses -> Int] /\ r \in [Addresses -> Int] /\ s \in [Addresses -> Int]
        /\ s[c] = l[c] - r[c]
    BY <1>1, <2>1, HoldTypes
  <2>3. /\ m \in [Addresses -> Int] /\ q \in [Addresses -> Int] /\ x \in [Addresses -> Int]
        /\ x[c] = m[c] - q[c]
    <3>1. /\ \A a \in Addresses : heap'[a].latencies \in Int /\ heap'[a].n \in [Kinds -> Nat]
      BY <1>1, ObjectShape
    <3>2. \A a \in Addresses : Completed(heap'[a].n) \in Nat
      BY <3>1, CompletedIs
    <3> QED BY <2>1, <3>1, <3>2 DEF Lat, Comp, Surp
  <2>4. /\ m[c] = l[c] + dl /\ q[c] = r[c] + dc
        /\ \A a \in Addresses : a # c => m[a] = l[a] /\ q[a] = r[a] /\ x[a] = s[a]
    BY <1>4, <2>1 DEF Changes, Lat, Comp, Surp
  <2>5. l[c] \in Int /\ r[c] \in Int /\ dl - dc \in Int
    BY <2>2
  <2>6. x[c] = s[c] + (dl - dc)
    BY <2>2, <2>3, <2>4, <2>5
  <2>7. Heavier(m, l, c, dl, Addresses) /\ Heavier(q, r, c, dc, Addresses)
        /\ Heavier(x, s, c, dl - dc, Addresses)
    BY <2>4, <2>6 DEF Heavier
  <2>8. c \in Allocated
    BY <1>4 DEF Allocated
  <2>9. hand # NoAddress => HandSurplus' = x[hand] /\ HandSurplus = s[hand]
    BY <2>1 DEF HandSurplus
  <2>10. hand # c => HandSurplus' = HandSurplus
    BY <1>1, <2>4, <2>9 DEF HandSurplus
  <2>11. hand = c /\ hand # NoAddress => HandSurplus' = HandSurplus + (dl - dc)
    BY <2>6, <2>9
  <2> DEFINE InKept(v, w, d) ==
        /\ c \in Kept /\ c # hand /\ c \notin InUse
        /\ Weigh(counterPtr, FreshThreads, v) = Weigh(counterPtr, FreshThreads, w)
        /\ Weigh(accumulatedResults, AllKept, v) = Weigh(accumulatedResults, AllKept, w) + d
      Inside(v, w, d) ==
        /\ c = hand /\ hand # NoAddress /\ c \notin InUse
        /\ Weigh(counterPtr, FreshThreads, v) = Weigh(counterPtr, FreshThreads, w)
        /\ Weigh(accumulatedResults, AllKept, v) = Weigh(accumulatedResults, AllKept, w)
      WithThread(v, w, d) ==
        /\ c \in InUse /\ c # hand
        /\ \E u \in FreshThreads : counterPtr[u] = c
        /\ Weigh(counterPtr, FreshThreads, v) = Weigh(counterPtr, FreshThreads, w) + d
        /\ Weigh(accumulatedResults, AllKept, v) = Weigh(accumulatedResults, AllKept, w)
      Doomed(v, w, d) ==
        /\ c \in InUse /\ c # hand
        /\ \A u \in FreshThreads : counterPtr[u] # c
        /\ Weigh(counterPtr, FreshThreads, v) = Weigh(counterPtr, FreshThreads, w)
        /\ Weigh(accumulatedResults, AllKept, v) = Weigh(accumulatedResults, AllKept, w)
  <2>12. InKept(m, l, dl) \/ Inside(m, l, dl) \/ WithThread(m, l, dl) \/ Doomed(m, l, dl)
    BY <2>2, <2>3, <2>7, <2>8, OneChanges
  <2>13. InKept(q, r, dc) \/ Inside(q, r, dc) \/ WithThread(q, r, dc) \/ Doomed(q, r, dc)
    BY <2>2, <2>3, <2>7, <2>8, OneChanges
  <2>14. \/ InKept(x, s, dl - dc) \/ Inside(x, s, dl - dc)
         \/ WithThread(x, s, dl - dc) \/ Doomed(x, s, dl - dc)
    BY <2>2, <2>3, <2>5, <2>7, <2>8, OneChanges
  <2>15. /\ KeptLatencies = Weigh(accumulatedResults, AllKept, l)
         /\ KeptLatencies' = Weigh(accumulatedResults, AllKept, m)
         /\ KeptResults = Weigh(accumulatedResults, AllKept, r)
         /\ KeptResults' = Weigh(accumulatedResults, AllKept, q)
         /\ ThreadSurplus = Weigh(counterPtr, FreshThreads, s)
         /\ ThreadSurplus' = Weigh(counterPtr, FreshThreads, x)
    BY <1>2, <2>1 DEF KeptLatencies, KeptResults, ThreadSurplus
  <2>16. CASE c \in Kept
    <3>1. c \notin InUse /\ c # hand
      BY <2>8, <2>16, OneOwnerIs, <1>1 DEF OwnInv, Apart, Held, Allocated, Addresses
    <3>2. InKept(m, l, dl) /\ InKept(q, r, dc) /\ InKept(x, s, dl - dc)
      BY <2>12, <2>13, <2>14, <3>1
    <3> QED BY <2>10, <2>15, <3>1, <3>2 DEF Seen, SeenInKept
  <2>17. CASE c = hand /\ c \notin InUse /\ c \notin Kept
    <3>1. Inside(m, l, dl) /\ Inside(q, r, dc) /\ Inside(x, s, dl - dc)
      BY <2>12, <2>13, <2>14, <2>17
    <3> QED BY <2>11, <2>15, <2>17, <3>1 DEF Seen, SeenInHand
  <2>18. CASE c \in InUse /\ \E u \in FreshThreads : counterPtr[u] = c
    <3>1. WithThread(m, l, dl) /\ WithThread(q, r, dc) /\ WithThread(x, s, dl - dc)
      BY <2>12, <2>13, <2>14, <2>18
    <3> QED BY <2>10, <2>15, <2>18, <3>1 DEF Seen, SeenByThread
  <2>19. CASE c \in InUse /\ \A u \in FreshThreads : counterPtr[u] # c
    <3>1. Doomed(m, l, dl) /\ Doomed(q, r, dc) /\ Doomed(x, s, dl - dc)
      BY <2>12, <2>13, <2>14, <2>19
    <3> QED BY <2>10, <2>15, <2>19, <3>1 DEF Seen, SeenByNone
  <2> QED BY <2>12, <2>16, <2>17, <2>18, <2>19
<1> QED BY <1>3, <1>4

\* A thread that main's exchange overtook, with another object than its own.
Stale(t) == Counting(t) /\ thread[t].c # counterPtr[t]
StaleThreads == {t \in Threads : Stale(t)}
LateThreads == {t \in Threads : Stale(t) \/ (t \in FreshThreads /\ thread[t].at = "push")}

\* Of what has been read no result is forgotten; and each latency that no
\* result has was brought, or may yet be brought, by a thread overtaken.
ReadInv == Completed(totals) <= KeptResults
ExcessInv ==
  /\ Cardinality(StaleThreads) <= overtaken
  /\ KeptLatencies + HandSurplus + ThreadSurplus + Cardinality(LateThreads)
       <= Completed(totals) + overtaken

LatencyInv == ReadInv /\ ExcessInv

\* The variables and sums of LatencyInv are integers.
LEMMA LatencyTypes ==
  ASSUME OwnInv
  PROVE  /\ KeptLatencies \in Int /\ KeptResults \in Nat
         /\ HandSurplus \in Int /\ ThreadSurplus \in Int
         /\ Completed(totals) \in Nat /\ overtaken \in Nat
         /\ Cardinality(StaleThreads) \in Nat /\ Cardinality(LateThreads) \in Nat
<1>1. totals \in [Kinds -> Nat] /\ overtaken \in Nat
  BY DEF OwnInv, TypeInv, TypeOK
<1>2. Completed(totals) \in Nat
  BY <1>1, CompletedIs
<1>3. Cardinality(StaleThreads) \in Nat /\ Cardinality(LateThreads) \in Nat
  BY SubsetsOfThreads DEF StaleThreads, LateThreads
<1> QED BY <1>1, <1>2, <1>3, SumTypes

\* When one thread moves on, or its counters are exchanged, only it changes.
LEMMA OneThread ==
  ASSUME OwnInv, NEW t, Threads' = Threads,
         Toggled(StaleThreads, StaleThreads', t), Toggled(LateThreads, LateThreads', t)
  PROVE  /\ CardFollows(StaleThreads, StaleThreads', t)
         /\ CardFollows(LateThreads, LateThreads', t)
<1>1. PICK A, B, C, D : A = StaleThreads /\ B = StaleThreads' /\ C = LateThreads /\ D = LateThreads'
  OBVIOUS
<1>2. IsFiniteSet(A) /\ IsFiniteSet(C)
  BY <1>1, SubsetsOfThreads DEF StaleThreads, LateThreads
<1>3. CardFollows(A, B, t) /\ CardFollows(C, D, t)
  BY <1>1, <1>2, OneMember
<1> QED BY <1>1, <1>3

LEMMA ThreadToggles ==
  ASSUME OwnInv, Quiet, NEW t \in Threads,
         \A u \in Threads : u # t => thread'[u] = thread[u]
  PROVE  /\ CardFollows(StaleThreads, StaleThreads', t)
         /\ CardFollows(LateThreads, LateThreads', t)
<1>1. counterPtr' = counterPtr /\ Threads' = Threads /\ FreshThreads' = FreshThreads
  BY QuietKeeps
<1>2. \A u \in Threads : u # t => (Stale(u)' <=> Stale(u))
  BY <1>1 DEF Stale, Counting
<1>3. Toggled(StaleThreads, StaleThreads', t)
  BY <1>1, <1>2 DEF Toggled, StaleThreads
<1>4. Toggled(LateThreads, LateThreads', t)
  BY <1>1, <1>2 DEF Toggled, LateThreads
<1> QED BY <1>1, <1>3, <1>4, OneThread

LEMMA CountLatency ==
  ASSUME OwnInv, OwnInv', LatencyInv, NEW t \in Threads, Count(t)
  PROVE  LatencyInv'
<1> DEFINE c == thread[t].c
<1>0. Quiet
  BY DEF Quiet, ThreadNext
<1>1. /\ c \in Addresses /\ thread[t].at = "count"
      /\ \A u \in Threads : u # t => thread'[u] = thread[u]
  BY CountChanges
<1>2. /\ CardFollows(StaleThreads, StaleThreads', t) /\ CardFollows(LateThreads, LateThreads', t)
      /\ UNCHANGED <<counterPtr, hand, accumulatedResults, totals, overtaken>>
      /\ Threads' = Threads /\ FreshThreads' = FreshThreads
  BY <1>0, <1>1, ThreadToggles, QuietKeeps
<1>3. /\ KeptLatencies \in Int /\ KeptResults \in Nat
      /\ HandSurplus \in Int /\ ThreadSurplus \in Int
      /\ Completed(totals) \in Nat /\ overtaken \in Nat
      /\ Cardinality(StaleThreads) \in Nat /\ Cardinality(LateThreads) \in Nat
  BY LatencyTypes
<1>4. /\ t \in StaleThreads <=> c # counterPtr[t]
      /\ t \in LateThreads <=> c # counterPtr[t]
  BY <1>1 DEF StaleThreads, LateThreads, Stale, Counting
<1>5. CASE thread[t].kind = "bytes"
  <2>1. thread'[t] = Idle /\ Changes(c, 0, 0)
    BY <1>5, CountChanges
  <2>2. Seen(c, 0, 0)
    BY <1>1, <1>2, <2>1, ObjectMoves
  <2>3. t \notin StaleThreads' /\ t \notin LateThreads'
    BY <2>1 DEF StaleThreads, LateThreads, Stale, Counting, Idle
  <2>4. /\ KeptLatencies' = KeptLatencies /\ KeptResults' = KeptResults
        /\ HandSurplus' = HandSurplus /\ ThreadSurplus' = ThreadSurplus
    BY <1>3, <2>2 DEF Seen, SeenInKept, SeenInHand, SeenByThread, SeenByNone
  <2> QED BY <1>2, <1>3, <2>3, <2>4 DEF LatencyInv, ReadInv, ExcessInv, CardFollows
<1>6. CASE thread[t].kind # "bytes"
  <2>1. thread'[t].at = "push" /\ thread'[t].c = c /\ Changes(c, 0, 1)
    BY <1>6, CountChanges
  <2>2. Seen(c, 0, 1)
    BY <1>1, <1>2, <2>1, ObjectMoves
  <2>3. /\ t \in StaleThreads' <=> c # counterPtr[t]
        /\ t \in LateThreads' <=> c # counterPtr[t] \/ t \in FreshThreads
    BY <1>2, <2>1 DEF StaleThreads, LateThreads, Stale, Counting
  <2>4. Cardinality(StaleThreads') = Cardinality(StaleThreads)
    BY <1>2, <1>4, <2>3 DEF CardFollows
  <2>5. CASE c # counterPtr[t]
    <3>1. Cardinality(LateThreads') = Cardinality(LateThreads)
      BY <1>2, <1>4, <2>3, <2>5 DEF CardFollows
    <3>2. /\ KeptLatencies' = KeptLatencies
          /\ KeptResults' = KeptResults \/ KeptResults' = KeptResults + 1
          /\ HandSurplus' = HandSurplus \/ HandSurplus' = HandSurplus - 1
          /\ ThreadSurplus' = ThreadSurplus \/ ThreadSurplus' = ThreadSurplus - 1
      BY <1>3, <2>2 DEF Seen, SeenInKept, SeenInHand, SeenByThread, SeenByNone
    <3>3. Completed(totals') = Completed(totals)
      BY <1>2
    <3>4. Completed(totals') <= KeptResults'
      BY <1>3, <3>2, <3>3 DEF LatencyInv, ReadInv
    <3>5. Cardinality(StaleThreads') <= overtaken'
      BY <1>2, <2>4 DEF LatencyInv, ExcessInv
    <3>6. KeptLatencies' + HandSurplus' + ThreadSurplus' + Cardinality(LateThreads')
            <= Completed(totals') + overtaken'
      <4>1. KeptLatencies + HandSurplus + ThreadSurplus + Cardinality(LateThreads)
              <= Completed(totals) + overtaken
        BY DEF LatencyInv, ExcessInv
      <4> QED BY <1>2, <1>3, <3>1, <3>2, <3>3, <4>1
    <3> QED BY <3>4, <3>5, <3>6 DEF LatencyInv, ReadInv, ExcessInv
  <2>6. CASE c = counterPtr[t] /\ t \in FreshThreads
    <3>1. Cardinality(LateThreads') = Cardinality(LateThreads) + 1
      BY <1>2, <1>4, <2>3, <2>6 DEF CardFollows
    <3>2. SeenByThread(0, 1)
      <4>1. c \in InUse
        BY <2>6, OwnersAre DEF InUse, Range
      <4> QED BY <2>2, <2>6, <4>1 DEF Seen
    <3>3. /\ KeptLatencies' = KeptLatencies /\ KeptResults' = KeptResults
          /\ HandSurplus' = HandSurplus /\ ThreadSurplus' = ThreadSurplus - 1
      BY <1>3, <3>2 DEF SeenByThread
    <3> QED BY <1>2, <1>3, <2>4, <3>1, <3>3 DEF LatencyInv, ReadInv, ExcessInv
  <2>7. CASE c = counterPtr[t] /\ t \notin FreshThreads
    <3>1. Cardinality(LateThreads') = Cardinality(LateThreads)
      BY <1>2, <1>4, <2>3, <2>7 DEF CardFollows
    <3>2. SeenByNone
      <4>1. c \in InUse /\ \A u \in FreshThreads : counterPtr[u] # c
        BY <2>7, OwnersAre DEF InUse, Range, IsInjective
      <4> QED BY <2>2, <4>1 DEF Seen
    <3> QED BY <1>2, <1>3, <2>4, <3>1, <3>2 DEF LatencyInv, ReadInv, ExcessInv, SeenByNone
  <2> QED BY <2>5, <2>6, <2>7
<1> QED BY <1>5, <1>6

LEMMA PushLatencyStep ==
  ASSUME OwnInv, OwnInv', LatencyInv, NEW t \in Threads, PushLatency(t)
  PROVE  LatencyInv'
<1> DEFINE c == thread[t].c
<1>0. Quiet
  BY DEF Quiet, ThreadNext
<1>1. /\ c \in Addresses /\ thread[t].at = "push" /\ thread'[t] = Idle /\ Changes(c, 1, 0)
      /\ \A u \in Threads : u # t => thread'[u] = thread[u]
  BY PushChanges
<1>2. /\ CardFollows(StaleThreads, StaleThreads', t) /\ CardFollows(LateThreads, LateThreads', t)
      /\ UNCHANGED <<counterPtr, hand, accumulatedResults, totals, overtaken>>
      /\ Threads' = Threads /\ FreshThreads' = FreshThreads
  BY <1>0, <1>1, ThreadToggles, QuietKeeps
<1>3. /\ KeptLatencies \in Int /\ KeptResults \in Nat
      /\ HandSurplus \in Int /\ ThreadSurplus \in Int
      /\ Completed(totals) \in Nat /\ overtaken \in Nat
      /\ Cardinality(StaleThreads) \in Nat /\ Cardinality(LateThreads) \in Nat
  BY LatencyTypes
<1>4. t \in LateThreads <=> c # counterPtr[t] \/ t \in FreshThreads
  BY <1>1 DEF LateThreads, Stale, Counting
<1>5. t \notin StaleThreads' /\ t \notin LateThreads'
  BY <1>1 DEF StaleThreads, LateThreads, Stale, Counting, Idle
<1>6. Seen(c, 1, 0)
  BY <1>1, <1>2, ObjectMoves
<1>7. \/ Cardinality(StaleThreads') = Cardinality(StaleThreads)
      \/ Cardinality(StaleThreads') = Cardinality(StaleThreads) - 1
  BY <1>2, <1>5 DEF CardFollows
<1>8. KeptResults' = KeptResults
  BY <1>3, <1>6 DEF Seen, SeenInKept, SeenInHand, SeenByThread, SeenByNone
<1>9. CASE t \in LateThreads
  <2>1. Cardinality(LateThreads') = Cardinality(LateThreads) - 1
    BY <1>2, <1>5, <1>9 DEF CardFollows
  <2>2. \/ /\ KeptLatencies' = KeptLatencies + 1
           /\ HandSurplus' = HandSurplus /\ ThreadSurplus' = ThreadSurplus
        \/ /\ KeptLatencies' = KeptLatencies
           /\ HandSurplus' = HandSurplus + 1 /\ ThreadSurplus' = ThreadSurplus
        \/ /\ KeptLatencies' = KeptLatencies
           /\ HandSurplus' = HandSurplus /\ ThreadSurplus' = ThreadSurplus + 1
        \/ /\ KeptLatencies' = KeptLatencies
           /\ HandSurplus' = HandSurplus /\ ThreadSurplus' = ThreadSurplus
    BY <1>3, <1>6 DEF Seen, SeenInKept, SeenInHand, SeenByThread, SeenByNone
  <2> QED BY <1>2, <1>3, <1>7, <1>8, <2>1, <2>2 DEF LatencyInv, ReadInv, ExcessInv
<1>10. CASE t \notin LateThreads
  <2>1. Cardinality(LateThreads') = Cardinality(LateThreads)
    BY <1>2, <1>5, <1>10 DEF CardFollows
  <2>2. SeenByNone
    <3>1. c = counterPtr[t] /\ t \notin FreshThreads
      BY <1>4, <1>10
    <3>2. c \in InUse /\ \A u \in FreshThreads : counterPtr[u] # c
      BY <3>1, OwnersAre DEF InUse, Range, IsInjective
    <3> QED BY <1>6, <3>2 DEF Seen
  <2> QED BY <1>2, <1>3, <1>7, <2>1, <2>2 DEF LatencyInv, ReadInv, ExcessInv, SeenByNone
<1> QED BY <1>9, <1>10

LEMMA OtherLatency ==
  ASSUME OwnInv, LatencyInv, Quiet, \A t \in Threads : ~Count(t) /\ ~PushLatency(t)
  PROVE  LatencyInv'
<1>1. /\ UNCHANGED <<counterPtr, hand, accumulatedResults, totals, overtaken, heap>>
      /\ Threads' = Threads /\ FreshThreads' = FreshThreads
  BY QuietKeeps, OtherQuiet
<1>2. /\ KeptLatencies' = KeptLatencies /\ KeptResults' = KeptResults
      /\ HandSurplus' = HandSurplus /\ ThreadSurplus' = ThreadSurplus
  BY <1>1 DEF KeptLatencies, KeptResults, HandSurplus, ThreadSurplus, Lat, Comp, Surp, AllKept
<1>3. StaleThreads' = StaleThreads /\ LateThreads' = LateThreads
  <2>1. CASE thread' = thread
    BY <1>1, <2>1 DEF StaleThreads, LateThreads, Stale, Counting
  <2>2. ASSUME NEW t \in Threads,
               \A u \in Threads : u # t => thread'[u] = thread[u],
               thread[t].at \notin {"count", "push"},
               \/ thread'[t].at \notin {"count", "push"}
               \/ thread'[t].at = "count" /\ thread'[t].c = counterPtr[t]
        PROVE  StaleThreads' = StaleThreads /\ LateThreads' = LateThreads
    <3>1. t \notin StaleThreads /\ t \notin LateThreads
      BY <2>2 DEF StaleThreads, LateThreads, Stale, Counting
    <3>2. t \notin StaleThreads' /\ t \notin LateThreads'
      BY <1>1, <2>2 DEF StaleThreads, LateThreads, Stale, Counting
    <3>3. \A u \in Threads : u # t => (Stale(u)' <=> Stale(u)) /\ thread'[u].at = thread[u].at
      BY <1>1, <2>2 DEF Stale, Counting
    <3> QED BY <1>1, <3>1, <3>2, <3>3 DEF StaleThreads, LateThreads
  <2> QED BY <2>1, <2>2, OtherQuiet
<1>4. LatencyInv <=> LatencyInv'
  BY <1>1, <1>2, <1>3 DEF LatencyInv, ReadInv, ExcessInv
<1> QED BY <1>4

LEMMA StartLatency ==
  ASSUME OwnInv, OwnInv', LatencyInv, RecordStart
  PROVE  LatencyInv'
<1>1. /\ mainAt' = "discard" /\ todo' = 1 /\ hand' = hand /\ totals' = Zero
      /\ accumulatedResults' = <<>>
      /\ UNCHANGED <<JustOnce, counterPtr, thread, overtaken>>
  BY DEF RecordStart
<1>2. hand = NoAddress
  BY DEF OwnInv, ControlInv, RecordStart
<1>3. Threads' = Threads
  BY <1>1 DEF Threads, numThreads
<1>4. FreshThreads' = {}
  <2>1. \A t \in Threads : ~(t < 1)
    BY OwnersAre
  <2> QED BY <1>1, <1>3, <2>1 DEF FreshThreads
<1>5. PICK n, p, l, r, s : n = numThreads /\ p = counterPtr /\ l = Lat' /\ r = Comp' /\ s = Surp'
  OBVIOUS
<1>6. l \in [Addresses -> Int] /\ r \in [Addresses -> Int] /\ s \in [Addresses -> Int]
  <2>1. heap' \in [Addresses -> Objects]
    BY DEF OwnInv, TypeInv
  <2>2. \A a \in Addresses : heap'[a].latencies \in Int /\ heap'[a].n \in [Kinds -> Nat]
    BY <2>1, ObjectShape
  <2>3. \A a \in Addresses : Completed(heap'[a].n) \in Nat
    BY <2>2, CompletedIs
  <2> QED BY <1>5, <2>2, <2>3 DEF Lat, Comp, Surp
<1>7. Weigh(<<>>, {}, l) = 0 /\ Weigh(<<>>, {}, r) = 0
  <2>1. <<>> \in [1 .. 0 -> Addresses]
    <3>1. 1 .. 0 = {}
      OBVIOUS
    <3> QED BY <3>1
  <2> QED BY <1>6, <2>1, WeighNone
<1>8. Weigh(p, {}, s) = 0
  <2>1. n \in Nat /\ p \in [1 .. n -> Addresses]
    BY <1>5, OwnersAre
  <2> QED BY <1>6, <2>1, WeighNone
<1>9. KeptLatencies' = 0 /\ KeptResults' = 0 /\ HandSurplus' = 0 /\ ThreadSurplus' = 0
  <2>1. AllKept' = {}
    BY <1>1 DEF AllKept
  <2> QED BY <1>1, <1>2, <1>4, <1>5, <1>7, <1>8, <2>1
          DEF KeptLatencies, KeptResults, HandSurplus, ThreadSurplus
<1>10. StaleThreads' = StaleThreads /\ LateThreads' = StaleThreads
  BY <1>1, <1>3, <1>4 DEF StaleThreads, LateThreads, Stale, Counting
<1>11. Cardinality(StaleThreads) \in Nat /\ overtaken \in Nat
  BY LatencyTypes
<1>12. Completed(totals') = 0
  BY <1>1, ZeroIs
<1> QED BY <1>1, <1>9, <1>10, <1>11, <1>12 DEF LatencyInv, ReadInv, ExcessInv

\* Who is late when main exchanges the counters of one thread, j.
LEMMA ExchangeLate ==
  ASSUME OwnInv, Threads' = Threads, thread' = thread, NEW j \in Threads, NEW a \in Addresses,
         counterPtr' = [counterPtr EXCEPT ![j] = a],
         \A i \in Threads : i # j => (i \in FreshThreads <=> i \in FreshThreads')
  PROVE  /\ Counting(j) => /\ Cardinality(StaleThreads') <= Cardinality(StaleThreads) + 1
                           /\ Cardinality(LateThreads') <= Cardinality(LateThreads) + 1
         /\ ~Counting(j) => /\ Cardinality(StaleThreads') <= Cardinality(StaleThreads)
                            /\ Cardinality(LateThreads') <= Cardinality(LateThreads)
         /\ Cardinality(StaleThreads') \in Nat /\ Cardinality(LateThreads') \in Nat
<1>1. counterPtr \in [Threads -> Addresses]
  BY DEF OwnInv, TypeInv, TypeOK
<1>2. \A i \in Threads : i # j => (Stale(i)' <=> Stale(i))
  BY <1>1 DEF Stale, Counting
<1>3. Toggled(StaleThreads, StaleThreads', j)
  BY <1>2 DEF Toggled, StaleThreads
<1>4. Toggled(LateThreads, LateThreads', j)
  BY <1>2 DEF Toggled, LateThreads
<1>5. /\ CardFollows(StaleThreads, StaleThreads', j)
      /\ CardFollows(LateThreads, LateThreads', j)
  BY <1>3, <1>4, OneThread
<1>6. ~Counting(j) => j \notin StaleThreads' /\ j \notin LateThreads'
  BY DEF StaleThreads, LateThreads, Stale, Counting
<1> QED BY <1>5, <1>6 DEF CardFollows

LEMMA DiscardLatency ==
  ASSUME OwnInv, OwnInv', LatencyInv, Discard
  PROVE  LatencyInv'
<1>1. /\ todo \in Threads /\ todo \notin FreshThreads
      /\ \A i \in Threads : i # todo => (i \in FreshThreads <=> i \in FreshThreads')
      /\ UNCHANGED <<JustOnce, hand, accumulatedResults, totals, thread>> /\ hand = NoAddress
      /\ Threads' = Threads
  BY DiscardIs
<1>2. PICK a \in Allocatable :
        /\ counterPtr' = [counterPtr EXCEPT ![todo] = a] /\ a \in Addresses
        /\ heap'[a] = NewCounters
        /\ \A i \in Threads : i # todo => heap'[counterPtr[i]] = heap[counterPtr[i]]
        /\ \A b \in Kept : heap'[b] = heap[b]
        /\ overtaken' = IF Counting(todo) THEN overtaken + 1 ELSE overtaken
  BY DiscardIs
<1>3. PICK x, s : x = Surp' /\ s = Surp
  OBVIOUS
<1>4. x \in [Addresses -> Int] /\ s \in [Addresses -> Int] /\ x[a] = 0
  <2>1. heap' \in [Addresses -> Objects] /\ heap \in [Addresses -> Objects]
    BY DEF OwnInv, TypeInv
  <2>2. \A b \in Addresses : heap'[b].latencies \in Int /\ heap'[b].n \in [Kinds -> Nat]
    BY <2>1, ObjectShape
  <2>3. \A b \in Addresses : Completed(heap'[b].n) \in Nat
    BY <2>2, CompletedIs
  <2>4. x \in [Addresses -> Int]
    BY <1>3, <2>2, <2>3 DEF Surp
  <2>5. x[a] = 0
    BY <1>2, <1>3, ZeroIs DEF Surp, NewCounters
  <2> QED BY <1>3, <2>1, <2>4, <2>5, HoldTypes
<1>5. OnlyThread(todo, x, s)
  <2>1. \A i \in Threads : counterPtr[i] \in Addresses
    BY OwnersAre
  <2> QED BY <1>1, <1>2, <1>3, <2>1 DEF OnlyThread, Surp
<1>6. Weigh(counterPtr', FreshThreads', x)
        = Weigh(counterPtr, FreshThreads, s) + GivenUp(counterPtr, FreshThreads, s, todo)
  BY <1>1, <1>2, <1>4, <1>5, ExchangeMoves
<1>7. /\ KeptLatencies \in Int /\ KeptResults \in Nat
      /\ HandSurplus \in Int /\ ThreadSurplus \in Int
      /\ Completed(totals) \in Nat /\ overtaken \in Nat
      /\ Cardinality(StaleThreads) \in Nat /\ Cardinality(LateThreads) \in Nat
  BY LatencyTypes
<1>8. ThreadSurplus' = ThreadSurplus
  BY <1>1, <1>3, <1>6, <1>7 DEF ThreadSurplus, GivenUp
<1>9. KeptLatencies' = KeptLatencies /\ KeptResults' = KeptResults /\ HandSurplus' = HandSurplus
  <2>1. \A i \in AllKept : accumulatedResults[i] \in Kept /\ accumulatedResults[i] \in Addresses
    BY OwnersAre DEF Kept, Range, AllKept
  <2>2. /\ Weights(accumulatedResults, AllKept, Lat)' = Weights(accumulatedResults, AllKept, Lat)
        /\ Weights(accumulatedResults, AllKept, Comp)' = Weights(accumulatedResults, AllKept, Comp)
    BY <1>1, <1>2, <2>1 DEF Weights, AllKept, Lat, Comp
  <2> QED BY <1>1, <2>2 DEF KeptLatencies, KeptResults, HandSurplus, Weigh
<1>10. /\ Counting(todo) => /\ Cardinality(StaleThreads') <= Cardinality(StaleThreads) + 1
                            /\ Cardinality(LateThreads') <= Cardinality(LateThreads) + 1
       /\ ~Counting(todo) => /\ Cardinality(StaleThreads') <= Cardinality(StaleThreads)
                             /\ Cardinality(LateThreads') <= Cardinality(LateThreads)
       /\ Cardinality(StaleThreads') \in Nat /\ Cardinality(LateThreads') \in Nat
  BY <1>1, <1>2, ExchangeLate
<1>11. Completed(totals') = Completed(totals)
  BY <1>1
<1>12. /\ Completed(totals) <= KeptResults /\ Cardinality(StaleThreads) <= overtaken
       /\ KeptLatencies + HandSurplus + ThreadSurplus + Cardinality(LateThreads)
            <= Completed(totals) + overtaken
  BY DEF LatencyInv, ReadInv, ExcessInv
<1>13. CASE Counting(todo)
  BY <1>2, <1>7, <1>8, <1>9, <1>10, <1>11, <1>12, <1>13 DEF LatencyInv, ReadInv, ExcessInv
<1>14. CASE ~Counting(todo)
  BY <1>2, <1>7, <1>8, <1>9, <1>10, <1>11, <1>12, <1>14 DEF LatencyInv, ReadInv, ExcessInv
<1> QED BY <1>13, <1>14

LEMMA ExchangeLatency ==
  ASSUME OwnInv, OwnInv', LatencyInv, Exchange
  PROVE  LatencyInv'
<1>1. /\ todo \in Threads /\ todo \in FreshThreads
      /\ \A i \in Threads : i # todo => (i \in FreshThreads <=> i \in FreshThreads')
      /\ UNCHANGED <<JustOnce, accumulatedResults, totals, thread>> /\ hand = NoAddress
      /\ Threads' = Threads
      /\ hand' = counterPtr[todo] /\ hand' # NoAddress /\ hand' \in Addresses
      /\ heap'[hand'] = heap[hand']
  BY ExchangeIs
<1>2. PICK a \in Allocatable :
        /\ counterPtr' = [counterPtr EXCEPT ![todo] = a] /\ a \in Addresses
        /\ heap'[a] = NewCounters
        /\ \A i \in Threads : i # todo => heap'[counterPtr[i]] = heap[counterPtr[i]]
        /\ \A b \in Kept : heap'[b] = heap[b]
        /\ overtaken' = IF Counting(todo) THEN overtaken + 1 ELSE overtaken
  BY ExchangeIs
<1>3. PICK x, s : x = Surp' /\ s = Surp
  OBVIOUS
<1>4. x \in [Addresses -> Int] /\ s \in [Addresses -> Int] /\ x[a] = 0
  <2>1. heap' \in [Addresses -> Objects] /\ heap \in [Addresses -> Objects]
    BY DEF OwnInv, TypeInv
  <2>2. \A b \in Addresses : heap'[b].latencies \in Int /\ heap'[b].n \in [Kinds -> Nat]
    BY <2>1, ObjectShape
  <2>3. \A b \in Addresses : Completed(heap'[b].n) \in Nat
    BY <2>2, CompletedIs
  <2>4. x \in [Addresses -> Int]
    BY <1>3, <2>2, <2>3 DEF Surp
  <2>5. x[a] = 0
    BY <1>2, <1>3, ZeroIs DEF Surp, NewCounters
  <2> QED BY <1>3, <2>1, <2>4, <2>5, HoldTypes
<1>5. OnlyThread(todo, x, s)
  <2>1. \A i \in Threads : counterPtr[i] \in Addresses
    BY OwnersAre
  <2> QED BY <1>1, <1>2, <1>3, <2>1 DEF OnlyThread, Surp
<1>6. Weigh(counterPtr', FreshThreads', x)
        = Weigh(counterPtr, FreshThreads, s) + GivenUp(counterPtr, FreshThreads, s, todo)
  BY <1>1, <1>2, <1>4, <1>5, ExchangeMoves
<1>7. /\ KeptLatencies \in Int /\ KeptResults \in Nat
      /\ HandSurplus \in Int /\ ThreadSurplus \in Int
      /\ Completed(totals) \in Nat /\ overtaken \in Nat
      /\ Cardinality(StaleThreads) \in Nat /\ Cardinality(LateThreads) \in Nat
  BY LatencyTypes
<1>8. /\ HandSurplus = 0 /\ HandSurplus' = s[counterPtr[todo]] /\ s[counterPtr[todo]] \in Int
      /\ ThreadSurplus' = ThreadSurplus - s[counterPtr[todo]]
  <2>1. HandSurplus = 0 /\ HandSurplus' = s[counterPtr[todo]]
    BY <1>1, <1>3 DEF HandSurplus, Surp
  <2>2. s[counterPtr[todo]] \in Int
    BY <1>1, <1>4
  <2> QED BY <1>1, <1>3, <1>6, <1>7, <2>1, <2>2 DEF ThreadSurplus, GivenUp
<1>9. KeptLatencies' = KeptLatencies /\ KeptResults' = KeptResults
  <2>1. \A i \in AllKept : accumulatedResults[i] \in Kept /\ accumulatedResults[i] \in Addresses
    BY OwnersAre DEF Kept, Range, AllKept
  <2>2. /\ Weights(accumulatedResults, AllKept, Lat)' = Weights(accumulatedResults, AllKept, Lat)
        /\ Weights(accumulatedResults, AllKept, Comp)' = Weights(accumulatedResults, AllKept, Comp)
    BY <1>1, <1>2, <2>1 DEF Weights, AllKept, Lat, Comp
  <2> QED BY <1>1, <2>2 DEF KeptLatencies, KeptResults, Weigh
<1>10. /\ Counting(todo) => /\ Cardinality(StaleThreads') <= Cardinality(StaleThreads) + 1
                            /\ Cardinality(LateThreads') <= Cardinality(LateThreads) + 1
       /\ ~Counting(todo) => /\ Cardinality(StaleThreads') <= Cardinality(StaleThreads)
                             /\ Cardinality(LateThreads') <= Cardinality(LateThreads)
       /\ Cardinality(StaleThreads') \in Nat /\ Cardinality(LateThreads') \in Nat
  BY <1>1, <1>2, ExchangeLate
<1>11. Completed(totals') = Completed(totals)
  BY <1>1
<1>12. /\ Completed(totals) <= KeptResults /\ Cardinality(StaleThreads) <= overtaken
       /\ KeptLatencies + HandSurplus + ThreadSurplus + Cardinality(LateThreads)
            <= Completed(totals) + overtaken
  BY DEF LatencyInv, ReadInv, ExcessInv
<1>13. PICK d : d = s[counterPtr[todo]]
  OBVIOUS
<1>14. KeptLatencies' + HandSurplus' + ThreadSurplus' = KeptLatencies + HandSurplus + ThreadSurplus
  <2>1. /\ HandSurplus = 0 /\ HandSurplus' = d /\ d \in Int
        /\ ThreadSurplus' = ThreadSurplus - d /\ KeptLatencies' = KeptLatencies
    BY <1>8, <1>9, <1>13
  <2> QED BY <1>7, <2>1
<1>15. PICK m, n : /\ m = KeptLatencies + HandSurplus + ThreadSurplus
                   /\ n = KeptLatencies' + HandSurplus' + ThreadSurplus'
  OBVIOUS
<1>16. m \in Int /\ n = m
  BY <1>7, <1>14, <1>15
<1>17. m + Cardinality(LateThreads) <= Completed(totals) + overtaken
  BY <1>12, <1>15
<1>18. /\ n + Cardinality(LateThreads') <= Completed(totals') + overtaken'
       /\ Cardinality(StaleThreads') <= overtaken'
  <2>1. CASE Counting(todo)
    BY <1>2, <1>7, <1>10, <1>11, <1>12, <1>16, <1>17, <2>1
  <2>2. CASE ~Counting(todo)
    BY <1>2, <1>7, <1>10, <1>11, <1>12, <1>16, <1>17, <2>2
  <2> QED BY <2>1, <2>2
<1> QED BY <1>9, <1>11, <1>12, <1>15, <1>18 DEF LatencyInv, ReadInv, ExcessInv

LEMMA CollectLatency ==
  ASSUME OwnInv, OwnInv', LatencyInv, Collect
  PROVE  LatencyInv'
<1>1. /\ hand # NoAddress /\ hand' = NoAddress
      /\ accumulatedResults' = Append(accumulatedResults, hand)
      /\ totals' = Plus(totals, heap[hand].n)
      /\ UNCHANGED <<counterPtr, heap, mainAt, JustOnce, thread, overtaken>>
  BY DEF Collect
<1>2. mainAt # "discard" /\ Threads' = Threads
  BY <1>1 DEF OwnInv, ControlInv, Threads, numThreads
<1>3. FreshThreads' = FreshThreads
  BY <1>1, <1>2 DEF FreshThreads
<1>4. StaleThreads' = StaleThreads /\ LateThreads' = LateThreads
  BY <1>1, <1>2, <1>3 DEF StaleThreads, LateThreads, Stale, Counting
<1>5. /\ heap \in [Addresses -> Objects] /\ hand \in Addresses
      /\ totals \in [Kinds -> Nat] /\ accumulatedResults \in Seq(Addresses)
  BY <1>1 DEF OwnInv, TypeInv, TypeOK
<1>6. PICK l, r : l = Lat /\ r = Comp
  OBVIOUS
<1>7. /\ l \in [Addresses -> Int] /\ r \in [Addresses -> Int]
      /\ Surp[hand] = l[hand] - r[hand] /\ Lat' = Lat /\ Comp' = Comp /\ Surp' = Surp
  BY <1>1, <1>5, <1>6, HoldTypes DEF Lat, Comp, Surp
<1>8. /\ KeptLatencies' = KeptLatencies + l[hand] /\ KeptResults' = KeptResults + r[hand]
  <2>1. PICK s : s = accumulatedResults /\ s \in Seq(Addresses)
    BY <1>5
  <2>2. SumGrows(s, hand, l) /\ SumGrows(s, hand, r)
    BY <1>5, <1>7, <2>1, WeighAppend
  <2> QED BY <1>1, <1>6, <1>7, <2>1, <2>2 DEF SumGrows, KeptLatencies, KeptResults, AllKept
<1>9. Completed(totals') = Completed(totals) + r[hand]
  <2>1. heap[hand].n \in [Kinds -> Nat] /\ r[hand] = Completed(heap[hand].n)
    BY <1>5, <1>6, ObjectShape DEF Comp
  <2>2. /\ totals'.ok = totals.ok + heap[hand].n.ok
        /\ totals'.failed = totals.failed + heap[hand].n.failed
    BY <1>1, KindsAre DEF Plus
  <2>3. /\ totals.ok \in Nat /\ totals.failed \in Nat
        /\ heap[hand].n.ok \in Nat /\ heap[hand].n.failed \in Nat
    BY <1>5, <2>1, KindsAre
  <2> QED BY <2>1, <2>2, <2>3 DEF Completed
<1>10. HandSurplus = l[hand] - r[hand] /\ HandSurplus' = 0 /\ ThreadSurplus' = ThreadSurplus
  BY <1>1, <1>3, <1>7 DEF HandSurplus, ThreadSurplus
<1>11. /\ KeptLatencies \in Int /\ KeptResults \in Nat /\ ThreadSurplus \in Int
       /\ Completed(totals) \in Nat /\ overtaken \in Nat
       /\ Cardinality(StaleThreads) \in Nat /\ Cardinality(LateThreads) \in Nat
       /\ l[hand] \in Int /\ r[hand] \in Int
  BY <1>5, <1>7, LatencyTypes
<1>12. /\ Completed(totals) <= KeptResults /\ Cardinality(StaleThreads) <= overtaken
       /\ KeptLatencies + HandSurplus + ThreadSurplus + Cardinality(LateThreads)
            <= Completed(totals) + overtaken
  BY DEF LatencyInv, ReadInv, ExcessInv
<1>13. PICK x, y : x = l[hand] /\ y = r[hand]
  OBVIOUS
<1>14. Completed(totals') <= KeptResults'
  BY <1>8, <1>9, <1>11, <1>12
<1>15. KeptLatencies' + HandSurplus' + ThreadSurplus' + Cardinality(LateThreads')
         <= Completed(totals') + overtaken'
  <2>1. /\ KeptLatencies' = KeptLatencies + x /\ HandSurplus' = 0 /\ HandSurplus = x - y
        /\ ThreadSurplus' = ThreadSurplus /\ Completed(totals') = Completed(totals) + y
        /\ Cardinality(LateThreads') = Cardinality(LateThreads) /\ overtaken' = overtaken
        /\ x \in Int /\ y \in Int
    BY <1>1, <1>4, <1>8, <1>9, <1>10, <1>11, <1>13
  <2> QED BY <1>11, <1>12, <2>1
<1> QED BY <1>1, <1>4, <1>12, <1>14, <1>15 DEF LatencyInv, ReadInv, ExcessInv

LEMMA LatencyStep ==
  ASSUME OwnInv, OwnInv', [Next]_vars, LatencyInv
  PROVE  LatencyInv'
<1>1. CASE Quiet /\ \A t \in Threads : ~Count(t) /\ ~PushLatency(t)
  BY <1>1, OtherLatency
<1> QED BY <1>1, CountLatency, PushLatencyStep, StartLatency, DiscardLatency, ExchangeLatency,
           CollectLatency, NextIs

LEMMA LatencyInit == Init => LatencyInv
<1> SUFFICES ASSUME Init, OwnInv PROVE LatencyInv
  BY OwnInvariance
<1>1. /\ accumulatedResults = <<>> /\ hand = NoAddress /\ totals = Zero /\ overtaken = 0
      /\ \A t \in Threads : thread[t] = Idle
  BY DEF Init
<1>2. StaleThreads = {} /\ LateThreads = {}
  BY <1>1 DEF StaleThreads, LateThreads, Stale, Counting, Idle
<1>3. PICK l, r, s : l = Lat /\ r = Comp /\ s = Surp
  OBVIOUS
<1>4. l \in [Addresses -> Int] /\ r \in [Addresses -> Int] /\ s \in [Addresses -> Int]
  BY <1>3, OwnersAre, HoldTypes
<1>5. Weigh(<<>>, {}, l) = 0 /\ Weigh(<<>>, {}, r) = 0
  <2>1. <<>> \in [1 .. 0 -> Addresses]
    <3>1. 1 .. 0 = {}
      OBVIOUS
    <3> QED BY <3>1
  <2> QED BY <1>4, <2>1, WeighNone
<1>6. Weigh(counterPtr, FreshThreads, s) = 0
  <2>1. numThreads \in Nat /\ counterPtr \in [1 .. numThreads -> Addresses]
        /\ Threads = 1 .. numThreads
    BY OwnersAre
  <2>2. \A i \in Threads : counterPtr[i] = i /\ i \in Addresses
    BY <2>1 DEF Init
  <2>3. \A i \in Threads : s[counterPtr[i]] = 0
    BY <1>3, <2>2, ZeroIs DEF Init, Surp, NewCounters
  <2>4. \A i \in FreshThreads : s[counterPtr[i]] = 0
    BY <2>3 DEF FreshThreads
  <2> QED BY <1>4, <2>1, <2>4, WeighNone
<1>7. KeptLatencies = 0 /\ KeptResults = 0 /\ HandSurplus = 0 /\ ThreadSurplus = 0
  <2>1. AllKept = {}
    BY <1>1 DEF AllKept
  <2> QED BY <1>1, <1>3, <1>5, <1>6, <2>1 DEF KeptLatencies, KeptResults, HandSurplus, ThreadSurplus
<1>8. Cardinality({}) = 0 /\ Completed(totals) = 0
  BY <1>1, ZeroIs, FS_EmptySet
<1> QED BY <1>1, <1>2, <1>7, <1>8 DEF LatencyInv, ReadInv, ExcessInv

LEMMA WeighPositive ==
  ASSUME NEW n \in Nat, NEW A, NEW ptr \in [1 .. n -> A], NEW F, NEW w \in [A -> Int],
         \A i \in F : w[ptr[i]] \in Nat
  PROVE  Weigh(ptr, F, w) \in Nat
<1> DEFINE s == Weights(ptr, F, w)
<1>1. s \in [1 .. n -> Nat]
  BY DEF Weights
<1> HIDE DEF s
<1>2. s \in Seq(Nat)
  BY <1>1
<1> QED BY <1>2, TotalNat DEF Weigh, s

\* At the end no thread is late and no object has fewer latencies than results.
LEMMA LatenciesMeanIt ==
  ASSUME OwnInv, OwedInv, LatencyInv
  PROVE  LatenciesMatchResults
<1> SUFFICES ASSUME mainAt = "done"
             PROVE  /\ Completed(totals) <= KeptLatencies
                    /\ KeptLatencies <= Completed(totals) + overtaken
  BY ReportedIs DEF LatenciesMatchResults
<1>1. /\ heap \in [Addresses -> Objects] /\ hand = NoAddress
      /\ \A t \in Threads : thread[t] = Idle
  BY DEF OwnInv, TypeInv, ControlInv
<1>2. ASSUME NEW a \in Allocated
      PROVE  a \in Addresses /\ Comp[a] <= Lat[a] /\ Surp[a] \in Nat
  <2>1. a \in Addresses /\ heap[a] # Free
    BY DEF Allocated
  <2>2. Pushers(a) = {}
    BY <1>1 DEF Pushers, Idle
  <2>3. Completed(heap[a].n) <= heap[a].latencies + 0
    BY <2>1, <2>2, FS_EmptySet DEF OwedInv
  <2>4. /\ Lat[a] \in Int /\ Comp[a] \in Int /\ Surp[a] = Lat[a] - Comp[a]
        /\ Lat[a] = heap[a].latencies /\ Comp[a] = Completed(heap[a].n)
    BY <1>1, <2>1, HoldTypes DEF Lat, Comp
  <2> QED BY <2>1, <2>3, <2>4
<1>3. \A i \in AllKept : accumulatedResults[i] \in Allocated
  BY OwnersAre, OneOwnerIs DEF OwnInv, Apart, Kept, Range, AllKept
<1>4. \A i \in FreshThreads : counterPtr[i] \in Allocated
  BY OwnersAre, OneOwnerIs DEF OwnInv, Apart, InUse, Range
<1>5. PICK l, r, s : l = Lat /\ r = Comp /\ s = Surp
  OBVIOUS
<1>6. l \in [Addresses -> Int] /\ r \in [Addresses -> Int] /\ s \in [Addresses -> Int]
  BY <1>1, <1>5, HoldTypes
<1>7. ThreadSurplus \in Nat
  <2>1. \A i \in FreshThreads : s[counterPtr[i]] \in Nat
    BY <1>2, <1>4, <1>5
  <2>2. numThreads \in Nat /\ counterPtr \in [1 .. numThreads -> Addresses]
    BY OwnersAre
  <2>3. Weigh(counterPtr, FreshThreads, s) \in Nat
    BY <1>6, <2>1, <2>2, WeighPositive
  <2> QED BY <1>5, <2>3 DEF ThreadSurplus
<1>8. KeptResults <= KeptLatencies
  <2>1. PICK p, n : p = accumulatedResults /\ n = Len(accumulatedResults)
    OBVIOUS
  <2>2. n \in Nat /\ AllKept = 1 .. n /\ p \in [1 .. n -> Addresses]
    BY <2>1, OwnersAre
  <2> DEFINE x == Weights(p, AllKept, r)
             y == Weights(p, AllKept, l)
  <2>3. AreWeights(x, n, p, AllKept, r) /\ AreWeights(y, n, p, AllKept, l)
    BY <1>6, <2>2, WeightsAre
  <2> HIDE DEF x, y
  <2>4. \A i \in 1 .. n : x[i] <= y[i]
    BY <1>2, <1>3, <1>5, <2>1, <2>2, <2>3 DEF AreWeights
  <2>5. Below(x, y) /\ x \in Seq(Int) /\ y \in Seq(Int)
    BY <2>3, <2>4 DEF Below, AreWeights
  <2>6. Total(x) <= Total(y)
    BY <2>5, TotalGrows
  <2> QED BY <1>5, <2>1, <2>6 DEF KeptResults, KeptLatencies, Weigh, x, y
<1>9. HandSurplus = 0
  BY <1>1 DEF HandSurplus
<1> QED BY <1>7, <1>8, <1>9, LatencyTypes DEF LatencyInv, ReadInv, ExcessInv

\* However recordResult's two writes and exchangeCounters interleave: in the
\* report every result has its latency, and those that have no result are no
\* more than the exchanges overtook.
THEOREM LatenciesReported == Spec => []LatenciesMatchResults
<1> DEFINE Inv == OwnInv /\ OwedInv /\ LatencyInv
<1>1. Init => Inv
  BY OwnInvariance, OwedInit, LatencyInit
<1>2. Inv /\ [Next]_vars => Inv'
  BY OwnInvariance, OwedStep, LatencyStep
<1>3. Inv => LatenciesMatchResults
  BY LatenciesMeanIt
<1> QED BY <1>1, <1>2, <1>3, PTL DEF Spec
=============================================================================
