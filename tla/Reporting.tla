------------------------------ MODULE Reporting ------------------------------
(***************************************************************************)
(* Counting what happens and reporting it (apib_reporting.cc, the counters *)
(* of IOThread, and the order in which main calls them).                   *)
(*                                                                         *)
(* Every I/O thread records into a Counters object that only an atomic     *)
(* pointer protects: it loads the pointer and then changes the object,     *)
(* while the main thread may swap the pointer and read, keep or delete     *)
(* the object in between.  Each of these is a step.  An object is an       *)
(* address, and a deleted one may be allocated again, so that a thread     *)
(* with an old pointer writes into freed memory, which is undefined, or    *)
(* into the object that lies there now.                                    *)
(***************************************************************************)
EXTENDS Integers, FiniteSets, SequencesExt, Functions, TLC, Sums

CONSTANTS
  NumThreads,      \* I/O threads, in the order of the ThreadList
  NumAddresses,    \* bound: Counters objects there is memory for
  MaxRecords,      \* bound: things the threads record together
  MaxIntervals,    \* bound: calls of ReportInterval in each phase
  Modes,           \* whether main was asked for one request only ("-1")
  Phases           \* the phases main may begin with: "warmup", "run"

ASSUME ReportingAssumption ==
  /\ NumThreads \in Nat \ {0} /\ NumAddresses \in Nat /\ NumAddresses >= NumThreads
  /\ MaxRecords \in Nat /\ MaxIntervals \in Nat
  /\ Modes \subseteq BOOLEAN /\ Phases \subseteq {"warmup", "run"}

Addresses == 1 .. NumAddresses
NoAddress == 0

VARIABLES
  JustOnce,
  alive,              \* the process has not died of undefined behaviour
  mainAt,             \* where the main thread is
  phase,              \* "warmup" or "run"
  intervals,          \* calls of ReportInterval left in this phase
  todo,               \* the thread that main's loop over them has reached
  hand,               \* the object main has swapped out and not read yet
  counterPtr,         \* IOThread::counterPtr_
  heap,               \* the objects
  accumulatedResults,
  totals,             \* the static counters of results and bytes
  reporting,
  events,             \* socketErrors and connectionsOpened
  running,            \* the threads have been started and not told to stop
  thread,             \* what each thread is in the middle of
  left,               \* things the threads may still record
  recorded,           \* history: what the threads recorded since RecordStart
  happened,           \* history: the events there were, reported or not
  overtaken           \* history: results that an exchange overtook half way

\* With "-1" there is one thread.
numThreads == IF JustOnce THEN 1 ELSE NumThreads
Threads == 1 .. numThreads

mainVars == <<JustOnce, mainAt, phase, intervals, todo, hand, accumulatedResults, totals,
              reporting, running, overtaken>>
vars == <<mainVars, alive, counterPtr, heap, events, thread, left, recorded, happened>>

\* Bytes are counted in reads and writes.
Zero == [ok |-> 0, failed |-> 0, bytes |-> 0]
Kinds == DOMAIN Zero
\* Of the latencies only how many there are matters here; module Results has
\* their values.
NewCounters == [n |-> Zero, latencies |-> 0]
Free == [n |-> Zero, latencies |-> -1]
Allocated == {a \in Addresses : heap[a] # Free}

EventKinds == {"socketErrors", "connectionsOpened"}
NoEvents == [e \in EventKinds |-> 0]
Idle == [at |-> "idle"]

Plus(m, n) == [k \in Kinds |-> m[k] + n[k]]
Completed(n) == n.ok + n.failed

TypeOK ==
  /\ mainAt \in {"begin", "recordStart", "discard", "wait", "interval", "stop",
                 "stopped", "join", "done"}
  /\ phase \in {"warmup", "run"}
  /\ hand \in Addresses \cup {NoAddress}
  /\ counterPtr \in [Threads -> Addresses]
  /\ accumulatedResults \in Seq(Addresses)
  /\ totals \in [Kinds -> Nat] /\ recorded \in [Kinds -> Nat]
  /\ events \in [EventKinds -> Nat] /\ happened \in [EventKinds -> Nat]
  /\ reporting \in BOOLEAN /\ running \in BOOLEAN
  /\ JustOnce \in BOOLEAN /\ alive \in BOOLEAN
  /\ todo \in 1 .. numThreads + 1 /\ intervals \in 0 .. MaxIntervals
  /\ left \in 0 .. MaxRecords /\ overtaken \in Nat

Init ==
  /\ JustOnce \in Modes /\ alive = TRUE
  /\ mainAt = "begin" /\ phase \in Phases /\ (JustOnce => phase = "run")
  /\ intervals = 0 /\ todo = 1 /\ hand = NoAddress
  /\ counterPtr = [t \in Threads |-> t]
  /\ heap = [a \in Addresses |-> IF a \in Threads THEN NewCounters ELSE Free]
  /\ accumulatedResults = <<>> /\ totals = Zero
  /\ reporting = FALSE /\ events = NoEvents /\ running = FALSE
  /\ thread = [t \in Threads |-> Idle] /\ left = MaxRecords
  /\ recorded = Zero /\ happened = NoEvents /\ overtaken = 0

-----------------------------------------------------------------------------
(***************************************************************************)
(* The I/O threads.                                                        *)
(***************************************************************************)
Begin(t, what) ==
  /\ running /\ thread[t] = Idle
  /\ left > 0 /\ left' = left - 1
  /\ thread' = [thread EXCEPT ![t] = what]

\* getCounters(): the pointer is loaded.
recordResult(t, kind) ==
  /\ Begin(t, [at |-> "count", c |-> counterPtr[t], kind |-> kind])
  /\ UNCHANGED <<mainVars, alive, counterPtr, heap, events, recorded, happened>>

recordBytes(t) ==
  /\ Begin(t, [at |-> "count", c |-> counterPtr[t], kind |-> "bytes"])
  /\ UNCHANGED <<mainVars, alive, counterPtr, heap, events, recorded, happened>>

\* The object is changed.  If main has deleted it this is undefined behaviour:
\* either nobody sees the change, or the process dies of it (push_back on a
\* vector that has been destroyed).
Write(c, counters) ==
  /\ \/ c \in Allocated /\ heap' = [heap EXCEPT ![c] = counters] /\ UNCHANGED alive
     \/ c \notin Allocated /\ UNCHANGED heap /\ alive' \in BOOLEAN

Count(t) ==
  LET o == thread[t] IN
  /\ o.at = "count"
  /\ Write(o.c, [heap[o.c] EXCEPT !.n[o.kind] = @ + 1])
  /\ recorded' = [recorded EXCEPT ![o.kind] = @ + 1]
  /\ thread' = [thread EXCEPT ![t] = IF o.kind = "bytes" THEN Idle ELSE [o EXCEPT !.at = "push"]]
  /\ UNCHANGED <<mainVars, counterPtr, events, left, happened>>

\* c->latencies.push_back(latency)
PushLatency(t) ==
  LET o == thread[t] IN
  /\ o.at = "push"
  /\ Write(o.c, [heap[o.c] EXCEPT !.latencies = @ + 1])
  /\ thread' = [thread EXCEPT ![t] = Idle]
  /\ UNCHANGED <<mainVars, counterPtr, events, left, recorded, happened>>

\* RecordSocketError and RecordConnectionOpen: look at the flag, then count.
RecordEvent(t, e) ==
  /\ Begin(t, IF reporting THEN [at |-> "event", event |-> e] ELSE Idle)
  /\ happened' = [happened EXCEPT ![e] = @ + 1]
  /\ UNCHANGED <<mainVars, alive, counterPtr, heap, events, recorded>>

CountEvent(t) ==
  /\ thread[t].at = "event"
  /\ events' = [events EXCEPT ![thread[t].event] = @ + 1]
  /\ thread' = [thread EXCEPT ![t] = Idle]
  /\ UNCHANGED <<mainVars, alive, counterPtr, heap, left, recorded, happened>>

-----------------------------------------------------------------------------
(***************************************************************************)
(* The main thread.                                                        *)
(***************************************************************************)
\* Without "-1" the threads run before anything is reset.
StartThreads ==
  /\ mainAt = "begin" /\ ~JustOnce
  /\ running' = TRUE
  /\ mainAt' = "recordStart"
  /\ UNCHANGED <<JustOnce, phase, intervals, todo, hand, accumulatedResults, totals,
                 reporting, overtaken, counterPtr, heap, events, thread, left, recorded,
                 happened>>

\* Mutant: what was accumulated during the warm-up is kept.
RecordStart_KeepsResults ==
  /\ mainAt = "recordStart" \/ (mainAt = "begin" /\ JustOnce)
  /\ mainAt' = "discard" /\ todo' = 1
  /\ totals' = Zero /\ events' = NoEvents
  /\ recorded' = Zero /\ happened' = NoEvents
  /\ UNCHANGED <<JustOnce, phase, intervals, hand, reporting, running, overtaken,
                 counterPtr, heap, accumulatedResults, thread, left>>

\* RecordStart up to its loop: everything is zeroed, accumulated objects are
\* deleted.
RecordStart ==
  /\ mainAt = "recordStart" \/ (mainAt = "begin" /\ JustOnce)
  /\ mainAt' = "discard" /\ todo' = 1
  /\ totals' = Zero /\ events' = NoEvents
  /\ accumulatedResults' = <<>>
  /\ heap' = [a \in Addresses |-> IF a \in Range(accumulatedResults) THEN Free ELSE heap[a]]
  /\ recorded' = Zero /\ happened' = NoEvents
  /\ UNCHANGED <<JustOnce, phase, intervals, hand, reporting, running, overtaken,
                 counterPtr, thread, left>>

Counting(t) == thread[t].at \in {"count", "push"}

\* Free memory that a thread still points to, and one other free address: the
\* rest differ only in name.
Allocatable ==
  LET free == Addresses \ Allocated
      stale == {thread[t].c : t \in {u \in Threads : Counting(u)}}
  IN  (free \cap stale) \cup {a \in free \ stale : \A b \in free \ stale : a <= b}

\* exchangeCounters: a is where the new object is allocated.
exchangeCounters(t, a) ==
  /\ counterPtr' = [counterPtr EXCEPT ![t] = a]
  /\ overtaken' = IF Counting(t) THEN overtaken + 1 ELSE overtaken

\* Mutant: the thread's object is deleted but not replaced.
Discard_NoExchange ==
  /\ mainAt = "discard" /\ todo <= numThreads
  /\ heap' = [heap EXCEPT ![counterPtr[todo]] = Free]
  /\ todo' = todo + 1
  /\ overtaken' = IF Counting(todo) THEN overtaken + 1 ELSE overtaken
  /\ UNCHANGED <<JustOnce, mainAt, phase, intervals, hand, accumulatedResults, totals,
                 reporting, running, counterPtr, events, thread, left, recorded, happened>>

\* The loop of RecordStart: the old object is deleted.
Discard ==
  /\ mainAt = "discard" /\ todo <= numThreads
  /\ \E a \in Allocatable :
       /\ exchangeCounters(todo, a)
       /\ heap' = [heap EXCEPT ![a] = NewCounters, ![counterPtr[todo]] = Free]
  /\ todo' = todo + 1
  /\ UNCHANGED <<JustOnce, mainAt, phase, intervals, hand, accumulatedResults, totals,
                 reporting, running, events, thread, left, recorded, happened>>

\* The rest of RecordStart; with "-1" the thread is started and joined next.
StartReporting ==
  /\ mainAt = "discard" /\ todo > numThreads
  /\ reporting' = TRUE /\ running' = TRUE
  /\ intervals' = MaxIntervals
  /\ mainAt' = IF JustOnce THEN "join" ELSE "wait"
  /\ UNCHANGED <<JustOnce, phase, todo, hand, accumulatedResults, totals, overtaken,
                 counterPtr, heap, events, thread, left, recorded, happened>>

\* waitAndReport wakes up; with -S it samples the CPU only.
ReportInterval ==
  /\ mainAt = "wait" /\ intervals > 0
  /\ mainAt' = "interval" /\ todo' = 1
  /\ intervals' = intervals - 1
  /\ UNCHANGED <<JustOnce, phase, hand, accumulatedResults, totals, reporting, running,
                 overtaken, counterPtr, heap, events, thread, left, recorded, happened>>

\* Mutant: the counters are read where they are and not swapped out.
Exchange_NoSwap ==
  /\ mainAt \in {"interval", "stop"} /\ hand = NoAddress /\ todo <= numThreads
  /\ hand' = counterPtr[todo]
  /\ overtaken' = IF Counting(todo) THEN overtaken + 1 ELSE overtaken
  /\ UNCHANGED <<JustOnce, mainAt, phase, intervals, todo, accumulatedResults, totals,
                 reporting, running, counterPtr, heap, events, thread, left, recorded,
                 happened>>

\* The loops of ReportIntervalResults and RecordStop: swap, ...
Exchange ==
  /\ mainAt \in {"interval", "stop"} /\ hand = NoAddress /\ todo <= numThreads
  /\ hand' = counterPtr[todo]
  /\ \E a \in Allocatable :
       /\ exchangeCounters(todo, a)
       /\ heap' = [heap EXCEPT ![a] = NewCounters]
  /\ UNCHANGED <<JustOnce, mainAt, phase, intervals, todo, accumulatedResults, totals,
                 reporting, running, events, thread, left, recorded, happened>>

\* ... add to the totals, and keep the object for its latencies.
Collect ==
  /\ mainAt \in {"interval", "stop"} /\ hand # NoAddress
  /\ totals' = Plus(totals, heap[hand].n)
  /\ accumulatedResults' = Append(accumulatedResults, hand)
  /\ hand' = NoAddress
  /\ todo' = todo + 1
  /\ UNCHANGED <<JustOnce, mainAt, phase, intervals, reporting, running, overtaken,
                 counterPtr, heap, events, thread, left, recorded, happened>>

LoopDone(from, to) ==
  /\ mainAt = from /\ hand = NoAddress /\ todo > numThreads
  /\ mainAt' = to
  /\ UNCHANGED <<JustOnce, phase, intervals, todo, hand, accumulatedResults, totals,
                 reporting, running, overtaken, counterPtr, heap, events, thread, left,
                 recorded, happened>>

EndWarmup ==
  /\ mainAt = "wait" /\ phase = "warmup"
  /\ phase' = "run" /\ mainAt' = "recordStart"
  /\ UNCHANGED <<JustOnce, intervals, todo, hand, accumulatedResults, totals, reporting,
                 running, overtaken, counterPtr, heap, events, thread, left, recorded,
                 happened>>

\* RecordStop up to its loop.
RecordStop ==
  /\ \/ mainAt = "wait" /\ phase = "run"
     \/ mainAt = "stopped"
  /\ reporting' = FALSE
  /\ mainAt' = "stop" /\ todo' = 1
  /\ UNCHANGED <<JustOnce, phase, intervals, hand, accumulatedResults, totals, running,
                 overtaken, counterPtr, heap, events, thread, left, recorded, happened>>

\* Every thread has ended.  With "-1" RecordStop follows, otherwise the report.
Join ==
  /\ mainAt = "join" /\ running
  /\ \A t \in Threads : thread[t] = Idle
  /\ running' = FALSE
  /\ mainAt' = IF JustOnce THEN "stopped" ELSE "done"
  /\ UNCHANGED <<JustOnce, phase, intervals, todo, hand, accumulatedResults, totals,
                 reporting, overtaken, counterPtr, heap, events, thread, left, recorded,
                 happened>>

-----------------------------------------------------------------------------
ThreadNext(t) ==
  \/ \E kind \in {"ok", "failed"} : recordResult(t, kind)
  \/ recordBytes(t)
  \/ Count(t)
  \/ PushLatency(t)
  \/ \E e \in EventKinds : RecordEvent(t, e)
  \/ CountEvent(t)

MainNext ==
  \/ StartThreads
  \/ RecordStart
  \/ Discard
  \/ StartReporting
  \/ ReportInterval
  \/ Exchange
  \/ Collect
  \/ LoopDone("interval", "wait")
  \/ LoopDone("stop", IF JustOnce THEN "done" ELSE "join")
  \/ EndWarmup
  \/ RecordStop
  \/ Join

Terminated == (mainAt = "done" \/ ~alive) /\ UNCHANGED vars

Next ==
  \/ alive /\ MainNext /\ UNCHANGED alive
  \/ alive /\ \E t \in Threads : ThreadNext(t)
  \/ Terminated

Spec == Init /\ [][Next]_vars

-----------------------------------------------------------------------------
(***************************************************************************)
(* Properties.                                                             *)
(***************************************************************************)
\* Every object has one place: it is the current one of one thread, in main's
\* hand after a swap, or among the accumulated results.
Placed ==
  LET kept == Range(accumulatedResults)
      inHand == {hand} \ {NoAddress}
  IN  /\ IsInjective(counterPtr) /\ IsInjective(accumulatedResults)
      /\ Allocated = Range(counterPtr) \cup kept \cup inHand
      /\ Range(counterPtr) \cap (kept \cup inHand) = {}
      /\ kept \cap inHand = {}

\* A thread records into its current object, and lives.
RecordsIntoItsOwn ==
  /\ alive
  /\ \A t \in Threads : Counting(t) => thread[t].c = counterPtr[t]

\* No object is leaked, or allocated again while it has a place: what has none
\* has been deleted.  A place does not keep others away.  A thread that loaded
\* the pointer before a swap goes on recording into the object, and RecordStart
\* may delete it under its hands; only with "-1" does a thread never record into
\* anything but its current one.  (And every variable has its type.)
OneOwner == TypeOK /\ Placed /\ (JustOnce => RecordsIntoItsOwn)

\* However recording and reporting interleave, nothing is counted twice.  With
\* "-1" the thread has ended before its counters are read, and the report is
\* exactly what happened.
NothingCountedTwice ==
  /\ \A k \in Kinds : totals[k] <= recorded[k]
  /\ (JustOnce /\ mainAt = "done") => totals = recorded /\ events = happened

\* ReportResults puts the latencies of all accumulated objects together.
ReportedLatencies ==
  Total([i \in DOMAIN accumulatedResults |-> heap[accumulatedResults[i]].latencies])

\* In the report every result has its latency, and every latency belongs to a
\* result that was counted, but for those that an exchange of their thread's
\* counters overtook.
LatenciesMatchResults ==
  mainAt = "done" =>
    /\ Completed(totals) <= ReportedLatencies
    /\ ReportedLatencies <= Completed(totals) + overtaken
=============================================================================
