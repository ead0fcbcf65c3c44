------------------------------- MODULE Program -------------------------------
(***************************************************************************)
(* main() of apib (apib_main.cc): from the options to the exit, with the   *)
(* I/O threads it creates, stops and joins.  An I/O thread is its life     *)
(* only; what it does in it is IOThread, and what main's reporting calls   *)
(* do is Reporting and Monitor, but for the samples of CPU usage.          *)
(***************************************************************************)
EXTENDS Integers, SequencesExt, FiniteSetsExt, CpuUsage

CONSTANTS
  ConnectionOptions,  \* values of -c
  ThreadOptions,      \* values of -K; below one for the number of CPUs
  Durations,          \* values of -d and of -w
  ReportSleepTime,    \* longest time between two reports
  MaxCpus,            \* bound: CPUs
  MaxUnreadable,      \* bound: readings of /proc/stat that fail
  Limits,             \* limits on descriptors a process may have
  Unlimited           \* RLIM_INFINITY, above all numbers of connections

ASSUME ProgramAssumption ==
  /\ ConnectionOptions \subseteq Nat /\ ThreadOptions \subseteq Int
  /\ Durations \subseteq Nat /\ ReportSleepTime \in Nat \ {0}
  /\ MaxCpus \in Nat \ {0} /\ MaxUnreadable \in Nat
  /\ Limits \subseteq Nat /\ Unlimited \in Nat
  /\ \A c \in ConnectionOptions : c < Unlimited

VARIABLES
  at,                    \* the call main is in, or how the process ended
  options,
  softLimit, hardLimit,  \* RLIMIT_NOFILE
  cpus,
  listed,                \* the list of URLs is not empty
  numThreads,            \* NumThreads after the defaults
  threads,               \* the ThreadList
  phase,                 \* "warmup" or "test"
  durationLeft,          \* waitAndReport's
  reporting,             \* between RecordStart and RecordStop
  stat,                  \* /proc/stat: ticks, one a second, in each column
  cpuUsage, clientSamples,
  unreadable,            \* readings that may still fail
  \* History: the usage in stat during the test; whether the reading the samples
  \* of a phase begin with failed, or the one they end with.
  busy, unread,
  slept,                 \* history: time spent in each phase
  failure                \* history: which step sent main to finished:, or "none"

setting == <<softLimit, hardLimit, cpus, listed>>
cpuVars == <<stat, cpuUsage, clientSamples, unreadable, busy, unread>>
vars == <<at, options, setting, cpuVars, numThreads, threads, phase, durationLeft,
          reporting, slept, failure>>

Options == [connections : ConnectionOptions, iothreads : ThreadOptions,
            justOnce : BOOLEAN, warmup : Durations, duration : Durations]

\* "new" has no std::thread yet, "starting" one that has no loop yet.
Lives == {"new", "starting", "running", "stopping", "ended", "joined"}
Joinable == Lives \ {"new", "joined"}

Exits == {"exit", "terminated", "divided", "null loop", "null URL", "signalled"}
Calls == {"url", "limits", "create", "start", "record", "wait", "stop record",
          "stop", "join", "print", "finished"}

TypeOK ==
  /\ at \in Calls \cup Exits /\ options \in Options
  /\ listed \in BOOLEAN /\ numThreads \in Nat
  /\ threads \in Seq([connections : Nat, life : Lives]) /\ Len(threads) <= Max({numThreads, 1})
  /\ phase \in {"warmup", "test"} /\ durationLeft \in Nat
  /\ reporting \in BOOLEAN
  /\ stat \in [Columns -> Nat] /\ unreadable \in Nat /\ busy \in Nat /\ unread \in BOOLEAN
  /\ cpuUsage \in [idle : Nat, nonIdle : Nat]
  /\ clientSamples \in Seq([usage : Nat, all : Nat])
  /\ slept \in [{"warmup", "test"} -> Nat]
  /\ failure \in {"none", "url", "limits", "thread"}

Init ==
  /\ at = "url" /\ options \in Options
  /\ softLimit \in Limits \cup {Unlimited} /\ hardLimit \in Limits \cup {Unlimited}
  /\ softLimit <= hardLimit
  /\ \E processors \in 0 .. MaxCpus : cpus = cpu_Count(processors)
  /\ listed = TRUE /\ numThreads = 0 /\ threads = <<>>
  /\ phase = "warmup" /\ durationLeft = 0 /\ reporting = FALSE
  /\ stat = [c \in Columns |-> 0] /\ cpuUsage = NoUsage /\ clientSamples = <<>>
  /\ unreadable = MaxUnreadable /\ busy = 0 /\ unread = FALSE
  /\ slept = [p \in {"warmup", "test"} |-> 0] /\ failure = "none"

Fail(step) == at' = "finished" /\ failure' = step

-----------------------------------------------------------------------------
(***************************************************************************)
(* Until the threads run.                                                  *)
(***************************************************************************)
\* InitOne or InitFile, which is module URLList: a file without a complete line is
\* a good list of nothing.
InitURLs ==
  /\ at = "url"
  /\ \/ at' = "limits" /\ listed' \in BOOLEAN /\ UNCHANGED failure
     \/ Fail("url") /\ UNCHANGED listed
  /\ UNCHANGED <<options, softLimit, hardLimit, cpus, cpuVars, numThreads, threads, phase, durationLeft,
                 reporting, slept>>

\* (int)limits: no limit is minus one.
AsInt(limit) == IF limit = Unlimited THEN -1 ELSE limit

setProcessLimits ==
  \/ /\ options.connections < AsInt(softLimit)
     /\ at' = "create" /\ UNCHANGED <<softLimit, failure>>
  \/ /\ options.connections >= AsInt(softLimit)
     /\ options.connections < AsInt(hardLimit)
     /\ \/ softLimit' = hardLimit /\ at' = "create" /\ UNCHANGED failure
        \/ Fail("limits") /\ UNCHANGED softLimit       \* setrlimit refuses
  \/ /\ options.connections >= Max({AsInt(softLimit), AsInt(hardLimit)})
     /\ Fail("limits") /\ UNCHANGED softLimit

NumThreads ==
  Min({IF options.iothreads < 1 THEN cpus ELSE options.iothreads, options.connections})

SetLimits ==
  /\ at = "limits"
  /\ setProcessLimits
  /\ numThreads' = IF at' = "create" THEN NumThreads ELSE numThreads
  /\ UNCHANGED <<options, hardLimit, cpus, listed, cpuVars, threads, phase,
                 durationLeft, reporting, slept>>

\* Mutant: the remainder goes to the last thread.
NumConn_Last(ix) ==
  options.connections \div numThreads
    + (IF ix = numThreads - 1 THEN options.connections % numThreads ELSE 0)

\* initializeThread's share of the connections.
NumConn(ix) ==
  options.connections \div numThreads
    + (IF ix < options.connections % numThreads THEN 1 ELSE 0)

\* A new IOThread, initializeThread and Start.  The input file, the certificates
\* or the ciphers may fail for any thread: descriptors may have run out by then.
CreateThread ==
  LET thread(life) == [connections |-> NumConn(Len(threads)), life |-> life] IN
  /\ at = "create" /\ ~options.justOnce /\ Len(threads) < numThreads
  /\ \/ threads' = Append(threads, thread("starting")) /\ UNCHANGED <<at, failure>>
     \/ threads' = Append(threads, thread("new")) /\ Fail("thread")
  /\ UNCHANGED <<options, setting, cpuVars, numThreads, phase, durationLeft,
                 reporting, slept>>

ThreadsCreated ==
  /\ at = "create" /\ ~options.justOnce /\ Len(threads) = numThreads
  /\ at' = "record"
  /\ phase' = IF options.warmup > 0 THEN "warmup" ELSE "test"
  /\ UNCHANGED <<options, setting, cpuVars, numThreads, threads, durationLeft,
                 reporting, slept, failure>>

\* With -1: one thread, which gets the share of the first of numThreads.
CreateOnly ==
  /\ at = "create" /\ options.justOnce
  /\ IF numThreads = 0
     THEN at' = "divided" /\ UNCHANGED <<threads, failure>>
     ELSE /\ threads' = << [connections |-> NumConn(0), life |-> "new"] >>
          /\ \/ at' = "record" /\ UNCHANGED failure
             \/ Fail("thread")
  /\ phase' = "test"
  /\ UNCHANGED <<options, setting, cpuVars, numThreads, durationLeft,
                 reporting, slept>>

StartOnly ==
  /\ at = "start"
  /\ threads' = [threads EXCEPT ![1].life = "starting"]
  /\ at' = "join"
  /\ UNCHANGED <<options, setting, cpuVars, numThreads, phase, durationLeft,
                 reporting, slept, failure>>

-----------------------------------------------------------------------------
(***************************************************************************)
(* The run and its end.                                                    *)
(***************************************************************************)
MayRead == IF unreadable > 0 THEN BOOLEAN ELSE {TRUE}
Spend(readable) == unreadable' = IF readable THEN unreadable ELSE unreadable - 1

\* SampleCPU, and ReportInterval: a sample, and with it a new cpuUsage.
SampleCPU(ticks, readable) ==
  /\ clientSamples' = Append(clientSamples, cpu_GetInterval(cpuUsage, ticks, readable))
  /\ cpuUsage' = cpu_GetUsage(cpuUsage, ticks, readable)

RecordStart ==
  /\ at = "record"
  /\ reporting' = TRUE
  /\ \E readable \in MayRead :
       /\ cpuUsage' = cpu_GetUsage(cpuUsage, stat, readable)
       /\ unread' = ~readable /\ Spend(readable)
  /\ clientSamples' = <<>> /\ busy' = 0
  /\ durationLeft' = IF phase = "warmup" THEN options.warmup ELSE options.duration
  /\ at' = IF options.justOnce THEN "start" ELSE "wait"
  /\ UNCHANGED <<options, setting, numThreads, threads, phase, slept, stat,
                 failure>>

toSleep == Min({durationLeft, ReportSleepTime})

\* The kernel counts each second's tick as user time, or as that of a column
\* that is idle.
Work(seconds, column) ==
  \E used \in 0 .. seconds :
    /\ stat' = [stat EXCEPT ![1] = @ + used, ![column] = @ + seconds - used]
    /\ busy' = busy + used

\* sleep and a report.
Sleep ==
  /\ at = "wait" /\ durationLeft > 0
  /\ \E column \in {4, 8} : Work(toSleep, column)
  /\ \E readable \in MayRead : SampleCPU(stat', readable) /\ Spend(readable)
  /\ slept' = [slept EXCEPT ![phase] = @ + toSleep]
  /\ durationLeft' = durationLeft - toSleep
  /\ UNCHANGED <<at, options, setting, numThreads, threads, phase, reporting,
                 unread, failure>>

\* Mutant: the threads are stopped while results are still recorded.
WaitDone_StopsFirst ==
  /\ at = "wait" /\ durationLeft <= 0
  /\ at' = IF phase = "warmup" THEN "record" ELSE "stop"
  /\ phase' = "test"
  /\ UNCHANGED <<options, setting, cpuVars, numThreads, threads, durationLeft,
                 reporting, slept, failure>>

WaitDone ==
  /\ at = "wait" /\ durationLeft <= 0
  /\ at' = IF phase = "warmup" THEN "record" ELSE "stop record"
  /\ phase' = "test"
  /\ UNCHANGED <<options, setting, cpuVars, numThreads, threads, durationLeft,
                 reporting, slept, failure>>

RecordStop ==
  /\ at = "stop record"
  /\ reporting' = FALSE
  /\ \E readable \in MayRead :
       /\ SampleCPU(stat, readable)
       /\ unread' = (unread \/ ~readable) /\ Spend(readable)
  /\ at' = IF options.justOnce THEN "print" ELSE "stop"
  /\ UNCHANGED <<options, setting, numThreads, threads, phase, durationLeft,
                 slept, stat, busy, failure>>

NextWith(lives) == SelectInSeq(threads, LAMBDA t : t.life \in lives)


\* ev_async_send on a loop that the thread has not created yet is a null pointer.
RequestStop ==
  LET i == NextWith({"starting", "running"}) IN
  /\ at = "stop"
  /\ CASE i = 0 -> at' = "join" /\ UNCHANGED threads
       [] i # 0 /\ threads[i].life = "starting" -> at' = "null loop" /\ UNCHANGED threads
       [] OTHER -> threads' = [threads EXCEPT ![i].life = "stopping"] /\ UNCHANGED at
  /\ UNCHANGED <<options, setting, cpuVars, numThreads, phase, durationLeft,
                 reporting, slept, failure>>

\* Mutant: main waits for the first thread only.
Join_First ==
  /\ at = "join"
  /\ IF threads = <<>> \/ threads[1].life = "joined"
     THEN at' = "print" /\ UNCHANGED threads
     ELSE /\ threads[1].life = "ended"
          /\ threads' = [threads EXCEPT ![1].life = "joined"] /\ UNCHANGED at
  /\ UNCHANGED <<options, setting, cpuVars, numThreads, phase, durationLeft,
                 reporting, slept, failure>>

Join ==
  LET i == NextWith(Lives \ {"joined"}) IN
  /\ at = "join"
  /\ IF i = 0
     THEN at' = (IF options.justOnce THEN "stop record" ELSE "print") /\ UNCHANGED threads
     ELSE /\ threads[i].life = "ended"
          /\ threads' = [threads EXCEPT ![i].life = "joined"] /\ UNCHANGED at
  /\ UNCHANGED <<options, setting, cpuVars, numThreads, phase, durationLeft,
                 reporting, slept, failure>>

\* The ThreadList is destroyed before the report is printed, and by the goto:
\* deleting the std::thread of one that was not joined ends the process.
Leave ==
  /\ at \in {"print", "finished"}
  /\ at' = IF NextWith(Joinable) # 0 THEN "terminated" ELSE "exit"
  /\ UNCHANGED <<options, setting, cpuVars, numThreads, threads, phase,
                 durationLeft, reporting, slept, failure>>

\* The threads, each of which has a connection.  With -1 one ends by itself,
\* otherwise after RequestStop.
CreateLoop(i) ==
  /\ threads[i].life = "starting"
  /\ threads' = [threads EXCEPT ![i].life = "running"] /\ UNCHANGED at

InLoop(i) == threads[i].life \in {"running", "stopping"}

\* The first that a connection does is to draw a URL: GetNext gives a null pointer.
DrawNothing(i) ==
  /\ InLoop(i) /\ ~listed
  /\ at' = "null URL" /\ UNCHANGED threads

LoopEnds(i) ==
  /\ threads[i].life = (IF options.justOnce THEN "running" ELSE "stopping") /\ listed
  /\ threads' = [threads EXCEPT ![i].life = "ended"] /\ UNCHANGED at

\* A write to a connection that was reset raises SIGPIPE, which nothing handles.
WriteSignals(i) ==
  /\ InLoop(i) /\ listed
  /\ at' = "signalled" /\ UNCHANGED threads

ThreadStep ==
  /\ at \notin Exits
  /\ \E i \in DOMAIN threads :
       CreateLoop(i) \/ DrawNothing(i) \/ LoopEnds(i) \/ WriteSignals(i)
  /\ UNCHANGED <<options, setting, cpuVars, numThreads, phase, durationLeft,
                 reporting, slept, failure>>

\* So does main's command to a monitored host: any run may have one.
CommandSignals ==
  /\ at \in {"record", "wait", "stop record"}
  /\ at' = "signalled"
  /\ UNCHANGED <<options, setting, cpuVars, numThreads, threads, phase,
                 durationLeft, reporting, slept, failure>>

Main ==
  \/ InitURLs \/ SetLimits \/ CreateThread \/ ThreadsCreated \/ CreateOnly
  \/ StartOnly \/ RecordStart \/ Sleep \/ WaitDone \/ RecordStop
  \/ RequestStop \/ Join \/ Leave

\* The process is no more, or its threads' loops go on.
Idle ==
  /\ at \in Exits \/ \E i \in DOMAIN threads : threads[i].life = "running"
  /\ UNCHANGED vars

Next == Main \/ ThreadStep \/ CommandSignals \/ Idle

Spec == Init /\ [][Next]_vars

\* Main is scheduled, and the threads until they draw a URL.  That a thread which is
\* to end does so is not assumed: with plain_eof or a host that is never found it
\* does not.
ThreadBegins == ThreadStep /\ \E i \in DOMAIN threads : CreateLoop(i) \/ DrawNothing(i)

FairSpec == Spec /\ WF_vars(Main) /\ WF_vars(ThreadBegins)

-----------------------------------------------------------------------------
(***************************************************************************)
(* Properties.                                                             *)
(***************************************************************************)
Running == ~options.justOnce /\ failure = "none" /\ at \notin Exits
           /\ at \notin {"url", "limits", "create"}

\* While a test is run, its threads have all the connections that were asked for
\* and no more, none of them has nothing to do, and the shares differ by one at
\* most (initializeThread, and main's defaults for NumThreads).  No thread has
\* connections unless the process may have more descriptors than there are
\* connections in all (setProcessLimits).  (And every variable has its type.)
ConnectionsPlaced ==
  /\ TypeOK
  /\ threads # <<>> => options.connections < softLimit
  /\ Running =>
       LET shares == {threads[i].connections : i \in DOMAIN threads} IN
       /\ Total([i \in DOMAIN threads |-> threads[i].connections]) = options.connections
       /\ 0 \notin shares
       /\ \A m, n \in shares : m <= n + 1

\* The threads that are measured are all there as long as results are recorded,
\* and when it stops the warm-up and the test have taken the time they were given
\* to the second (waitAndReport, and the order of RecordStop and RequestStop).
MeasuredAsAsked ==
  /\ (Running /\ reporting) =>
       /\ Len(threads) = numThreads
       /\ NextWith({"new", "stopping", "ended", "joined"}) = 0
  /\ (Running /\ at \notin {"record", "wait"}) =>
       slept = [warmup |-> options.warmup, test |-> options.duration]

\* The samples of the report are of the test alone: none overlaps another, and
\* together they are of all of its time, unless /proc/stat could not be read when
\* it began or ended.  One that could not be read in between is in the next.
\* (RecordStart after the warm-up, and cpu_GetInterval.)
SamplesAddUp ==
  /\ \A k \in DOMAIN clientSamples : clientSamples[k].usage <= clientSamples[k].all
  /\ (Running /\ at \in {"stop", "join", "print"} /\ ~unread) =>
       Ticks(clientSamples) = options.duration /\ Usages(clientSamples) = busy

\* What lies behind each way the process dies instead of leaving, but for the signal
\* that any write may raise: a later thread could not be initialised while earlier
\* ones had not been joined; no connection was to be shared by the one thread of -1;
\* a thread was not given a loop in all of the time that main slept; the list of URLs
\* was good but empty.  With an empty list nothing else comes of a run that has a
\* thread, and no report (~IOThread, initializeThread, RequestStop, GetNext).
DiesOnlyIf ==
  /\ at = "terminated" => failure = "thread" /\ Len(threads) > 1
  /\ at = "divided" => options.justOnce /\ options.connections = 0
  /\ at = "null loop" => slept = [warmup |-> options.warmup, test |-> options.duration]
  /\ at = "null URL" => ~listed
  /\ (at = "exit" /\ failure = "none" /\ ~listed) => threads = <<>>

\* Main waits for a thread that may still end: one that was asked to stop, or the
\* one thread of -1, which ends by itself.
WaitsForOne ==
  LET i == NextWith(Lives \ {"joined"}) IN
  /\ at = "join" /\ i # 0
  /\ threads[i].life = (IF options.justOnce THEN "running" ELSE "stopping")

=============================================================================
