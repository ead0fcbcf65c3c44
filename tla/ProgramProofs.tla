---------------------------- MODULE ProgramProofs ----------------------------
(***************************************************************************)
(* Proofs about Program, for any options, limits, numbers of CPUs and      *)
(* readings of /proc/stat that fail: where the connections go, when the    *)
(* threads live, how long is measured, and what the samples add up to.     *)
(***************************************************************************)
EXTENDS Program, SumsProofs

\* The limits and the defaults of NumThreads, and each thread's share.
LimitInv ==
  /\ softLimit \in Nat /\ hardLimit \in Nat /\ cpus \in Nat \ {0}
  /\ at \notin {"finished"} \cup Exits => failure = "none"
  /\ at \in {"finished", "terminated"} => failure # "none"
  /\ (at \in {"url", "limits"} \/ failure \in {"url", "limits"}) => threads = <<>> /\ numThreads = 0
  /\ (at \notin {"url", "limits"} /\ failure \notin {"url", "limits"}) =>
       numThreads = NumThreads /\ options.connections < softLimit
  /\ \A i \in DOMAIN threads : threads[i].connections = NumConn(i - 1)

\* What a thread's life may be while main is in a call.
Up == {"starting", "running"}
LivesOfMany(i) ==
  CASE at \in {"create", "record", "wait", "stop record"} -> Up
    [] at = "stop"     -> Up \cup {"stopping", "ended"}
    [] at = "join"     -> {"stopping", "ended", "joined"}
    [] at = "print"    -> {"joined"}
    [] at = "finished" -> IF i = Len(threads) THEN {"new"} ELSE Up
    [] OTHER           -> Lives

LivesOfOne ==
  CASE at \in {"record", "start", "finished"} -> {"new"}
    [] at = "join"                            -> Lives \ {"new"}
    [] at \in {"stop record", "print"}        -> {"joined"}
    [] OTHER                                  -> Lives

\* Main's calls, and the threads there are in each.
ManyInv ==
  /\ at # "start"
  /\ (failure = "none" /\ at \notin {"url", "limits", "create"} \cup Exits) =>
       Len(threads) = numThreads
  /\ \A i \in DOMAIN threads : threads[i].life \in LivesOfMany(i)
  /\ reporting => at \in {"record", "wait", "stop record"} \cup Exits

OneInv ==
  /\ at \notin {"wait", "stop"}
  /\ Len(threads) <= 1 /\ (at \in {"record", "start", "join"} => Len(threads) = 1)
  /\ \A i \in DOMAIN threads : threads[i].life \in LivesOfOne

LifeInv == IF options.justOnce THEN OneInv ELSE ManyInv

\* The time that has passed.
TimeInv ==
  ~options.justOnce =>
    /\ at \in {"url", "limits", "create"} => slept["warmup"] = 0 /\ slept["test"] = 0
    /\ (at \in {"record", "wait"} /\ phase = "warmup") =>
         /\ slept["warmup"] = IF at = "record" THEN 0 ELSE options.warmup - durationLeft
         /\ slept["test"] = 0
    /\ (at \in {"record", "wait"} /\ phase = "test") =>
         /\ slept["warmup"] = options.warmup
         /\ slept["test"] = IF at = "record" THEN 0 ELSE options.duration - durationLeft
    /\ at \in {"stop record", "stop", "join", "print"} =>
         phase = "test" /\ slept["warmup"] = options.warmup /\ slept["test"] = options.duration

\* The samples, and what has been used since the reading that the last one left.
now == getTicks(stat)
UsedSince == now.nonIdle - cpuUsage.nonIdle
TicksSince == now.idle - cpuUsage.idle + UsedSince

SampleInv ==
  /\ cpuUsage.idle <= now.idle /\ cpuUsage.nonIdle <= now.nonIdle
  /\ \A k \in DOMAIN clientSamples : clientSamples[k].usage <= clientSamples[k].all
  /\ (~options.justOnce /\ at \in {"wait", "stop record"} /\ ~unread) =>
       /\ Usages(clientSamples) + UsedSince = busy
       /\ Ticks(clientSamples) + TicksSince = slept[phase]
  /\ (~options.justOnce /\ at \in {"stop", "join", "print"} /\ ~unread) =>
       Ticks(clientSamples) = options.duration /\ Usages(clientSamples) = busy

\* Why the process died.
DeathInv ==
  /\ at = "terminated" => failure = "thread" /\ Len(threads) > 1
  /\ at = "divided" => options.justOnce /\ options.connections = 0
  /\ at = "null loop" => slept = [warmup |-> options.warmup, test |-> options.duration]
  /\ at = "null URL" => ~listed

IInv == TypeOK /\ LimitInv /\ LifeInv /\ TimeInv /\ SampleInv /\ DeathInv

-----------------------------------------------------------------------------
(***************************************************************************)
(* Operators.                                                              *)
(***************************************************************************)
LEMMA MinOfTwo ==
  ASSUME NEW a \in Nat, NEW b \in Nat
  PROVE  Min({a, b}) = IF a <= b THEN a ELSE b
<1>1. {a, b} \in SUBSET Nat /\ {a, b} # {}
  OBVIOUS
<1>2. Min({a, b}) \in {a, b} /\ \A y \in {a, b} : Min({a, b}) <= y
  BY <1>1, MinIn
<1> QED BY <1>2

LEMMA MaxOfTwo ==
  ASSUME NEW a \in Nat, NEW b \in Nat
  PROVE  Max({a, b}) = IF a <= b THEN b ELSE a
<1> DEFINE m == IF a <= b THEN b ELSE a
<1>1. m \in {a, b} /\ \A y \in {a, b} : m >= y
  OBVIOUS
<1>2. \A x \in {a, b} : (\A y \in {a, b} : x >= y) => x = m
  OBVIOUS
<1> HIDE DEF m
<1>3. Max({a, b}) = m
  BY <1>1, <1>2 DEF Max
<1> QED BY <1>3 DEF m

\* The first thread with one of some lives, or 0.
LEMMA NextWithIs ==
  ASSUME TypeOK, NEW lives
  PROVE  \/ NextWith(lives) = 0 /\ \A i \in DOMAIN threads : threads[i].life \notin lives
         \/ NextWith(lives) \in DOMAIN threads /\ threads[NextWith(lives)].life \in lives
<1> DEFINE I == {i \in 1 .. Len(threads) : threads[i].life \in lives}
<1>1. DOMAIN threads = 1 .. Len(threads) /\ I \in SUBSET Nat
  BY DEF TypeOK
<1>2. NextWith(lives) = IF I # {} THEN Min(I) ELSE 0
  BY DEF NextWith, SelectInSeq
<1>3. CASE I = {}
  BY <1>1, <1>2, <1>3
<1>4. CASE I # {}
  <2>1. Min(I) \in I
    BY <1>1, <1>4, MinIn
  <2> QED BY <1>1, <1>2, <1>4, <2>1
<1> QED BY <1>3, <1>4

\* No more threads than connections, and none only if there are none.
LEMMA NumThreadsIs ==
  ASSUME options \in Options, cpus \in Nat \ {0}
  PROVE  /\ NumThreads \in Nat /\ NumThreads <= options.connections
         /\ NumThreads = 0 => options.connections = 0
<1> DEFINE k == IF options.iothreads < 1 THEN cpus ELSE options.iothreads
<1>1. options.connections \in Nat /\ k \in Nat \ {0}
  <2>1. options.connections \in ConnectionOptions /\ options.iothreads \in ThreadOptions
    BY DEF Options
  <2>2. options.connections \in Nat /\ options.iothreads \in Int
    BY <2>1, ProgramAssumption
  <2> QED BY <2>2
<1>2. NumThreads = Min({k, options.connections})
  BY DEF NumThreads
<1> HIDE DEF k
<1> QED BY <1>1, <1>2, MinOfTwo

\* The share of a thread.
LEMMA ShareIs ==
  ASSUME options \in Options, numThreads \in Nat \ {0}, NEW ix \in Nat
  PROVE  /\ options.connections \div numThreads \in Nat
         /\ options.connections % numThreads \in 0 .. numThreads - 1
         /\ options.connections =
              numThreads * (options.connections \div numThreads)
                + (options.connections % numThreads)
         /\ NumConn(ix) \in Nat
<1>1. PICK c \in Nat : c = options.connections
  <2>1. options.connections \in ConnectionOptions
    BY DEF Options
  <2> QED BY <2>1, ProgramAssumption
<1>2. PICK n \in Nat \ {0} : n = numThreads
  OBVIOUS
<1>3. c \div n \in Nat /\ c % n \in 0 .. n - 1 /\ c = n * (c \div n) + (c % n)
  BY SMT
<1>4. PICK q \in Nat : q = c \div n
  BY <1>3
<1>5. PICK r \in 0 .. n - 1 : r = c % n
  BY <1>3
<1>6. q = options.connections \div numThreads /\ r = options.connections % numThreads
  BY <1>1, <1>2, <1>4, <1>5
<1>7. NumConn(ix) = q + (IF ix < r THEN 1 ELSE 0)
  BY <1>6 DEF NumConn
<1>8. NumConn(ix) \in Nat
  BY <1>7
<1>9. options.connections = numThreads * q + r
  BY <1>1, <1>2, <1>3, <1>4, <1>5
<1> QED BY <1>2, <1>5, <1>6, <1>8, <1>9

\* The ticks of some columns are a sum over all of them.
InColumns(s, columns) == [c \in Columns |-> IF c \in columns THEN s[c] ELSE 0]

LEMMA TicksType ==
  ASSUME NEW s \in [Columns -> Nat]
  PROVE  getTicks(s) \in [idle : Nat, nonIdle : Nat]
<1>1. ASSUME NEW columns PROVE InColumns(s, columns) \in Seq(Nat)
  BY DEF InColumns, Columns
<1>2. ASSUME NEW columns PROVE TicksIn(s, columns) \in Nat
  BY <1>1, TotalNat DEF TicksIn, InColumns
<1> QED BY <1>2 DEF getTicks

\* One of them has d more.
Rises(s, t, columns, i, d) ==
  /\ s \in [Columns -> Nat] /\ t \in [Columns -> Nat] /\ d \in Nat
  /\ i \in Columns /\ i \in columns /\ t[i] = s[i] + d
  /\ \A c \in Columns : c \in columns /\ c # i => t[c] = s[c]

LEMMA TickIn ==
  ASSUME NEW s, NEW t, NEW columns, NEW i, NEW d, Rises(s, t, columns, i, d)
  PROVE  TicksIn(t, columns) = TicksIn(s, columns) + d
<1> USE DEF Rises
<1> DEFINE p == InColumns(s, columns)
           q == InColumns(t, columns)
<1>1. p \in Seq(Int) /\ q \in Seq(Int) /\ Len(p) = 10 /\ Len(q) = 10
  BY DEF InColumns, Columns
<1>2. i \in 1 .. 10 /\ q[i] = p[i] + d /\ \A c \in 1 .. 10 : c # i => q[c] = p[c]
  BY DEF InColumns, Columns
<1> HIDE DEF p, q
<1>3. Differ(p, q, i, d)
  BY <1>1, <1>2 DEF Differ
<1>4. Total(q) = Total(p) + d
  BY <1>1, <1>3, TotalDiffers
<1> QED BY <1>4 DEF TicksIn, InColumns, p, q

\* Each second is counted once, as used or as idle.
Worked(s, t, seconds, used, column) ==
  /\ s \in [Columns -> Nat] /\ seconds \in Nat /\ used \in 0 .. seconds /\ column \in {4, 8}
  /\ t = [s EXCEPT ![1] = @ + used, ![column] = @ + seconds - used]

LEMMA WorkIs ==
  ASSUME NEW s, NEW t, NEW seconds, NEW used, NEW column, Worked(s, t, seconds, used, column)
  PROVE  /\ t \in [Columns -> Nat]
         /\ getTicks(t).nonIdle = getTicks(s).nonIdle + used
         /\ getTicks(t).idle = getTicks(s).idle + (seconds - used)
<1> USE DEF Worked
<1>1. 1 \in Columns /\ column \in Columns /\ column # 1 /\ seconds - used \in Nat
      /\ column \in IdleColumns /\ 1 \notin IdleColumns
  BY DEF Columns, IdleColumns
<1>2. t[1] = s[1] + used /\ t[column] = s[column] + (seconds - used)
      /\ \A c \in Columns : c # 1 /\ c # column => t[c] = s[c]
  BY <1>1
<1>3. t \in [Columns -> Nat]
  BY <1>1
<1>4. TicksIn(t, Columns \ IdleColumns) = TicksIn(s, Columns \ IdleColumns) + used
  <2>1. PICK nonIdle : nonIdle = Columns \ IdleColumns
    OBVIOUS
  <2>2. Rises(s, t, nonIdle, 1, used)
    BY <1>1, <1>2, <1>3, <2>1 DEF Rises
  <2>3. TicksIn(t, nonIdle) = TicksIn(s, nonIdle) + used
    BY <2>2, TickIn
  <2> QED BY <2>1, <2>3
<1>5. TicksIn(t, IdleColumns) = TicksIn(s, IdleColumns) + (seconds - used)
  <2>1. PICK idle : idle = IdleColumns
    OBVIOUS
  <2>2. PICK d \in Nat : d = seconds - used
    BY <1>1
  <2>3. Rises(s, t, idle, column, d)
    BY <1>1, <1>2, <1>3, <2>1, <2>2 DEF Rises
  <2>4. TicksIn(t, idle) = TicksIn(s, idle) + d
    BY <2>3, TickIn
  <2> QED BY <2>1, <2>2, <2>4
<1> QED BY <1>3, <1>4, <1>5 DEF getTicks

LEMMA OptionsAre ==
  ASSUME options \in Options
  PROVE  /\ options.connections \in Nat /\ options.connections < Unlimited
         /\ options.warmup \in Nat /\ options.duration \in Nat /\ options.justOnce \in BOOLEAN
<1>1. /\ options.connections \in ConnectionOptions /\ options.justOnce \in BOOLEAN
      /\ options.warmup \in Durations /\ options.duration \in Durations
  BY DEF Options
<1> QED BY <1>1, ProgramAssumption

LEMMA ElementOf ==
  ASSUME NEW S, NEW s \in Seq(S), NEW i \in 1 .. Len(s)
  PROVE  s[i] \in S
OBVIOUS

Thread == [connections : Nat, life : Lives]
Threads == Seq(Thread)

LEMMA RoomForOne ==
  ASSUME numThreads \in Nat
  PROVE  /\ Max({numThreads, 1}) \in Nat
         /\ numThreads <= Max({numThreads, 1}) /\ 1 <= Max({numThreads, 1})
BY MaxOfTwo

\* A step in the life of one thread.
Lives1(i, life) == threads' = [threads EXCEPT ![i].life = life]

LEMMA LifeIs ==
  ASSUME threads \in Threads, NEW i \in DOMAIN threads, NEW life \in Lives, Lives1(i, life)
  PROVE  /\ threads' \in Threads /\ Len(threads') = Len(threads)
         /\ DOMAIN threads' = DOMAIN threads /\ DOMAIN threads = 1 .. Len(threads)
         /\ threads'[i].life = life
         /\ \A j \in DOMAIN threads : threads'[j].connections = threads[j].connections
         /\ \A j \in DOMAIN threads : j # i => threads'[j] = threads[j]
<1> USE DEF Lives1, Threads
<1>1. threads[i] \in Thread
  BY ElementOf
<1>2. [threads[i] EXCEPT !.life = life] \in Thread
  BY <1>1 DEF Thread
<1>3. threads' \in Threads /\ Len(threads') = Len(threads) /\ DOMAIN threads' = DOMAIN threads
      /\ DOMAIN threads = 1 .. Len(threads)
  BY <1>2
<1>4. /\ threads'[i] = [threads[i] EXCEPT !.life = life]
      /\ \A j \in DOMAIN threads : j # i => threads'[j] = threads[j]
  OBVIOUS
<1>5. threads'[i].life = life /\ threads'[i].connections = threads[i].connections
  BY <1>1, <1>4 DEF Thread
<1> QED BY <1>3, <1>4, <1>5

\* One more thread.
LEMMA AppendIs ==
  ASSUME threads \in Threads, NEW t \in Thread,
         threads' = Append(threads, t)
  PROVE  /\ threads' \in Threads /\ Len(threads') = Len(threads) + 1
         /\ DOMAIN threads = 1 .. Len(threads) /\ DOMAIN threads' = 1 .. Len(threads) + 1
         /\ threads'[Len(threads) + 1] = t
         /\ \A j \in DOMAIN threads : threads'[j] = threads[j]
BY DEF Threads

\* A reading of /proc/stat, and the samples that are made with it.
LEMMA ReadingIs ==
  ASSUME unreadable \in Nat, NEW readable \in MayRead, Spend(readable)
  PROVE  unreadable' \in Nat /\ readable \in BOOLEAN
<1>1. CASE unreadable > 0
  BY <1>1 DEF MayRead, Spend
<1>2. CASE unreadable = 0
  <2>1. readable = TRUE
    BY <1>2 DEF MayRead
  <2> QED BY <2>1 DEF Spend
<1> QED BY <1>1, <1>2

Sample == [usage : Nat, all : Nat]
Samples == Seq(Sample)

\* A sample of what has been used since the last reading.
LEMMA SampleIs ==
  ASSUME TypeOK, NEW readable \in BOOLEAN, NEW s \in [Columns -> Nat],
         cpuUsage.idle <= getTicks(s).idle, cpuUsage.nonIdle <= getTicks(s).nonIdle
  PROVE  LET sample == cpu_GetInterval(cpuUsage, s, readable)
             usage == IF readable THEN getTicks(s).nonIdle - cpuUsage.nonIdle ELSE 0
             idle == IF readable THEN getTicks(s).idle - cpuUsage.idle ELSE 0
         IN  /\ sample = [usage |-> usage, all |-> idle + usage]
             /\ sample \in Sample
<1>1. getTicks(s) \in [idle : Nat, nonIdle : Nat]
  BY TicksType
<1>2. PICK new \in [idle : Nat, nonIdle : Nat] : new = getTicks(s)
  BY <1>1
<1>3. cpuUsage \in [idle : Nat, nonIdle : Nat]
  BY DEF TypeOK
<1>4. new.nonIdle - cpuUsage.nonIdle \in Nat /\ new.idle - cpuUsage.idle \in Nat
  BY <1>2, <1>3
<1>5. CASE readable
  BY <1>2, <1>4, <1>5 DEF cpu_GetInterval, Sample
<1>6. CASE ~readable
  BY <1>6 DEF cpu_GetInterval, Sample
<1> QED BY <1>5, <1>6

LEMMA UsagesAppend ==
  ASSUME NEW samples \in Samples, NEW x \in Sample
  PROVE  /\ Usages(samples) \in Int /\ Ticks(samples) \in Int
         /\ Usages(Append(samples, x)) = Usages(samples) + x.usage
         /\ Ticks(Append(samples, x)) = Ticks(samples) + x.all
<1> DEFINE more == Append(samples, x)
           u(s) == [k \in DOMAIN s |-> s[k].usage]
           a(s) == [k \in DOMAIN s |-> s[k].all]
<1>1. /\ more \in Samples /\ Len(more) = Len(samples) + 1 /\ more[Len(samples) + 1] = x
      /\ \A k \in 1 .. Len(samples) : more[k] = samples[k]
      /\ DOMAIN more = 1 .. Len(samples) + 1 /\ DOMAIN samples = 1 .. Len(samples)
      /\ Len(samples) \in Nat
  BY DEF Samples
<1>2. ASSUME NEW k \in 1 .. Len(samples)
      PROVE  samples[k].usage \in Nat /\ samples[k].all \in Nat
  <2>1. samples[k] \in Sample
    BY ElementOf DEF Samples
  <2> QED BY <2>1 DEF Sample
<1> HIDE DEF more
<1>3. u(samples) \in Seq(Int) /\ a(samples) \in Seq(Int)
  BY <1>1, <1>2
<1>4. x.usage \in Int /\ x.all \in Int
  BY DEF Sample
<1>5. u(more) = Append(u(samples), x.usage)
  <2>1. u(more) = [k \in 1 .. Len(samples) + 1 |-> more[k].usage]
    BY <1>1
  <2>2. Append(u(samples), x.usage) \in Seq(Int) /\ u(more) \in Seq(Int)
    BY <1>1, <1>2, <1>3, <1>4
  <2>3. /\ Len(u(samples)) = Len(samples) /\ Len(Append(u(samples), x.usage)) = Len(samples) + 1
        /\ Len(u(more)) = Len(samples) + 1
    BY <1>1, <1>3
  <2>4. \A k \in 1 .. Len(samples) + 1 : u(more)[k] = Append(u(samples), x.usage)[k]
    BY <1>1, <1>3
  <2> QED BY <2>2, <2>3, <2>4, SameSequence
<1>6. a(more) = Append(a(samples), x.all)
  <2>1. a(more) = [k \in 1 .. Len(samples) + 1 |-> more[k].all]
    BY <1>1
  <2>2. Append(a(samples), x.all) \in Seq(Int) /\ a(more) \in Seq(Int)
    BY <1>1, <1>2, <1>3, <1>4
  <2>3. /\ Len(a(samples)) = Len(samples) /\ Len(Append(a(samples), x.all)) = Len(samples) + 1
        /\ Len(a(more)) = Len(samples) + 1
    BY <1>1, <1>3
  <2>4. \A k \in 1 .. Len(samples) + 1 : a(more)[k] = Append(a(samples), x.all)[k]
    BY <1>1, <1>3
  <2> QED BY <2>2, <2>3, <2>4, SameSequence
<1>7. /\ Usages(samples) = Total(u(samples)) /\ Usages(more) = Total(u(more))
      /\ Ticks(samples) = Total(a(samples)) /\ Ticks(more) = Total(a(more))
  BY DEF Usages, Ticks
<1> HIDE DEF u, a
<1>8. Total(Append(u(samples), x.usage)) = Total(u(samples)) + x.usage
  BY <1>3, <1>4, TotalAppend
<1>9. Total(Append(a(samples), x.all)) = Total(a(samples)) + x.all
  BY <1>3, <1>4, TotalAppend
<1>10. Total(u(samples)) \in Int /\ Total(a(samples)) \in Int
  BY <1>3, TotalType
<1> QED BY <1>5, <1>6, <1>7, <1>8, <1>9, <1>10 DEF more

LEMMA NoUsages == Usages(<<>>) = 0 /\ Ticks(<<>>) = 0
<1>1. [k \in DOMAIN <<>> |-> <<>>[k].usage] = <<>> /\ [k \in DOMAIN <<>> |-> <<>>[k].all] = <<>>
  OBVIOUS
<1> QED BY <1>1, TotalEmpty DEF Usages, Ticks

-----------------------------------------------------------------------------
(***************************************************************************)
(* The invariant, action by action.                                        *)
(***************************************************************************)
LEMMA TypeGives ==
  ASSUME TypeOK
  PROVE  /\ threads \in Threads /\ clientSamples \in Samples /\ options \in Options
         /\ DOMAIN threads = 1 .. Len(threads) /\ Len(threads) \in Nat
         /\ numThreads \in Nat /\ options.justOnce \in BOOLEAN
BY OptionsAre DEF TypeOK, Threads, Thread, Samples, Sample

LEMMA NoThread == DOMAIN <<>> = {} /\ Len(<<>>) = 0
OBVIOUS

\* Steps that leave the statistics alone.
LEMMA SameSamples ==
  ASSUME SampleInv, UNCHANGED <<cpuVars, options, slept>>,
         at' \in {"wait", "stop record"} =>
           (at \in {"wait", "stop record"} /\ phase' = phase) \/ options.justOnce,
         at' \in {"stop", "join", "print"} =>
           at \in {"stop", "join", "print"} \/ options.justOnce
  PROVE  SampleInv'
BY DEF SampleInv, cpuVars, UsedSince, TicksSince, now

LEMMA InitHolds == Init => IInv
<1> SUFFICES ASSUME Init PROVE IInv
  OBVIOUS
<1> USE DEF Init
<1>1. PICK processors \in 0 .. MaxCpus : cpus = Max({processors, 1})
  BY DEF cpu_Count
<1>2. cpus \in Nat \ {0}
  BY <1>1, MaxOfTwo, ProgramAssumption
<1>3. Max({0, 1}) = 1
  BY MaxOfTwo
<1>4. TypeOK
  <2>1. threads \in Threads /\ Len(threads) <= Max({numThreads, 1})
    BY <1>3, NoThread DEF Threads
  <2>2. clientSamples \in Samples
    BY DEF Samples
  <2>3. unreadable \in Nat /\ cpuUsage \in [idle : Nat, nonIdle : Nat]
        /\ stat \in [Columns -> Nat] /\ slept \in [{"warmup", "test"} -> Nat]
    BY ProgramAssumption DEF NoUsage
  <2> QED BY <2>1, <2>2, <2>3 DEF TypeOK, Calls, Threads, Thread, Samples, Sample
<1>5. LimitInv
  BY <1>2, NoThread, ProgramAssumption DEF LimitInv, Exits
<1>6. LifeInv
  BY NoThread DEF LifeInv, OneInv, ManyInv, Exits
<1>7. TimeInv
  BY DEF TimeInv
<1>8. SampleInv
  <2>1. getTicks(stat) \in [idle : Nat, nonIdle : Nat]
    BY TicksType
  <2>2. now.idle >= 0 /\ now.nonIdle >= 0
    BY <2>1 DEF now
  <2> QED BY <2>2 DEF SampleInv, NoUsage
<1>9. DeathInv
  BY DEF DeathInv
<1> QED BY <1>4, <1>5, <1>6, <1>7, <1>8, <1>9 DEF IInv

\* Steps after which the process is still there.
LEMMA StillThere == at' \notin Exits => DeathInv'
BY DEF DeathInv, Exits

LEMMA InitURLsStep == IInv /\ InitURLs => IInv'
<1> SUFFICES ASSUME IInv, InitURLs PROVE IInv'
  OBVIOUS
<1> USE DEF IInv, InitURLs, Fail, setting, Exits
<1>1. TypeOK'
  BY DEF TypeOK, Calls, cpuVars
<1>2. threads = <<>> /\ numThreads = 0 /\ failure = "none"
  BY DEF LimitInv
<1>3. LimitInv'
  BY <1>2, NoThread DEF LimitInv
<1>4. LifeInv'
  BY <1>2, NoThread DEF LifeInv, OneInv, ManyInv
<1>5. TimeInv'
  BY DEF TimeInv
<1>6. SampleInv'
  BY SameSamples
<1> QED BY <1>1, <1>3, <1>4, <1>5, <1>6, StillThere

LEMMA SetLimitsStep == IInv /\ SetLimits => IInv'
<1> SUFFICES ASSUME IInv, SetLimits PROVE IInv'
  OBVIOUS
<1> USE DEF IInv, SetLimits, Fail, Exits
<1>1. threads = <<>> /\ numThreads = 0 /\ failure = "none" /\ options.connections \in Nat
  BY TypeGives, OptionsAre DEF LimitInv
<1>2. softLimit' \in Nat
      /\ \/ at' = "create" /\ failure' = "none" /\ options.connections < softLimit'
         \/ at' = "finished" /\ failure' = "limits"
  BY <1>1 DEF setProcessLimits, AsInt, LimitInv
<1>3. NumThreads \in Nat /\ numThreads' \in Nat
  BY <1>1, NumThreadsIs, TypeGives DEF LimitInv
<1>4. TypeOK'
  <2>1. Len(threads) = 0 /\ 0 <= Max({numThreads', 1})
    BY <1>1, <1>3, MaxOfTwo
  <2> QED BY <1>2, <1>3, <2>1 DEF TypeOK, Calls, cpuVars
<1>5. LimitInv'
  <2>1. NumThreads' = NumThreads
    BY DEF NumThreads
  <2> QED BY <1>1, <1>2, <2>1, NoThread DEF LimitInv
<1>6. LifeInv'
  BY <1>1, <1>2, NoThread DEF LifeInv, OneInv, ManyInv
<1>7. TimeInv'
  BY <1>2 DEF TimeInv
<1>8. SampleInv'
  BY <1>2, SameSamples
<1> QED BY <1>2, <1>4, <1>5, <1>6, <1>7, <1>8, StillThere

LEMMA CreateThreadStep == IInv /\ CreateThread => IInv'
<1> SUFFICES ASSUME IInv, CreateThread PROVE IInv'
  OBVIOUS
<1> USE DEF IInv, CreateThread, Fail, Exits, setting
<1>1. /\ threads \in Threads /\ DOMAIN threads = 1 .. Len(threads) /\ Len(threads) \in Nat
      /\ numThreads \in Nat \ {0} /\ options \in Options
  BY TypeGives
<1>2. NumConn(Len(threads)) \in Nat
  BY <1>1, ShareIs
<1>3. PICK life \in {"starting", "new"} :
        /\ threads' = Append(threads, [connections |-> NumConn(Len(threads)), life |-> life])
        /\ IF life = "new" THEN at' = "finished" /\ failure' = "thread" ELSE UNCHANGED <<at, failure>>
  OBVIOUS
<1> DEFINE t == [connections |-> NumConn(Len(threads)), life |-> life]
<1>4. t \in Thread /\ t.life = life /\ t.connections = NumConn(Len(threads))
  BY <1>2 DEF Thread, Lives
<1> HIDE DEF t
<1>5. /\ threads' \in Threads /\ Len(threads') = Len(threads) + 1
      /\ DOMAIN threads' = 1 .. Len(threads) + 1
      /\ threads'[Len(threads) + 1] = t
      /\ \A j \in 1 .. Len(threads) : threads'[j] = threads[j]
  BY <1>1, <1>3, <1>4, AppendIs DEF t
<1>6. TypeOK'
  <2>1. Len(threads') <= Max({numThreads', 1})
    <3>1. numThreads' = numThreads /\ Len(threads) + 1 <= numThreads
      BY <1>1
    <3>2. PICK m \in Nat : m = Max({numThreads, 1}) /\ numThreads <= m
      BY <1>1, RoomForOne
    <3>3. Len(threads) + 1 <= m
      BY <1>1, <3>1, <3>2
    <3> QED BY <1>5, <3>1, <3>2, <3>3
  <2> QED BY <1>3, <1>5, <2>1 DEF TypeOK, Calls, cpuVars, Threads, Thread
<1>7. LimitInv'
  <2>1. NumThreads' = NumThreads
    BY DEF NumThreads
  <2>2. ASSUME NEW i \in DOMAIN threads' PROVE threads'[i].connections = NumConn(i - 1)
    <3>1. CASE i = Len(threads) + 1
      BY <1>1, <1>4, <1>5, <3>1
    <3>2. CASE i \in 1 .. Len(threads)
      BY <1>1, <1>5, <3>2 DEF LimitInv
    <3> QED BY <1>1, <1>5, <3>1, <3>2
  <2>3. \A i \in DOMAIN threads' : NumConn(i - 1)' = NumConn(i - 1)
    BY DEF NumConn
  <2>4. at = "create" /\ failure = "none"
    BY DEF LimitInv
  <2>5. numThreads = NumThreads /\ options.connections < softLimit
    BY <2>4 DEF LimitInv
  <2> QED BY <1>3, <2>1, <2>2, <2>3, <2>4, <2>5 DEF LimitInv
<1>8. LifeInv'
  <2>1. ManyInv
    BY DEF LifeInv
  <2>2. \A i \in 1 .. Len(threads) : threads[i].life \in Up
    BY <1>1, <2>1 DEF ManyInv, LivesOfMany
  <2>3. ASSUME NEW i \in DOMAIN threads' PROVE threads'[i].life \in LivesOfMany(i)'
    <3>1. CASE i = Len(threads) + 1
      BY <1>3, <1>4, <1>5, <3>1 DEF LivesOfMany, Up
    <3>2. CASE i \in 1 .. Len(threads)
      <4>1. threads'[i].life \in Up /\ i # Len(threads') /\ at' \in {"create", "finished"}
        BY <1>1, <1>3, <1>5, <2>2, <3>2
      <4> QED BY <4>1 DEF LivesOfMany
    <3> QED BY <1>1, <1>5, <3>1, <3>2
  <2>4. ManyInv'
    BY <1>3, <2>1, <2>3 DEF ManyInv
  <2> QED BY <2>4 DEF LifeInv
<1>9. TimeInv'
  BY <1>3 DEF TimeInv
<1>10. SampleInv'
  BY <1>3, SameSamples
<1> QED BY <1>3, <1>6, <1>7, <1>8, <1>9, <1>10, StillThere

\* What the invariant says of the shares holds in any step that leaves them alone.
LEMMA SameShares ==
  ASSUME IInv, UNCHANGED <<options, setting, numThreads, failure>>,
         DOMAIN threads' = DOMAIN threads,
         \A i \in DOMAIN threads : threads'[i].connections = threads[i].connections,
         threads = <<>> => threads' = <<>>,
         at \notin {"url", "limits"} \cup Exits, at' \notin {"url", "limits"},
         at = "finished" => at' \in {"finished"} \cup Exits,
         failure = "none" => at' \notin {"finished", "terminated"}
  PROVE  LimitInv'
<1>1. NumThreads' = NumThreads /\ (\A i \in DOMAIN threads : NumConn(i - 1)' = NumConn(i - 1))
  BY DEF NumThreads, NumConn, setting
<1> QED BY <1>1 DEF IInv, LimitInv, Exits, setting

LEMMA ThreadsCreatedStep == IInv /\ ThreadsCreated => IInv'
<1> SUFFICES ASSUME IInv, ThreadsCreated PROVE IInv'
  OBVIOUS
<1> USE DEF ThreadsCreated
<1>1. options.warmup \in Nat /\ options \in Options
  BY TypeGives, OptionsAre DEF IInv
<1>2. TypeOK'
  BY DEF IInv, TypeOK, Calls, cpuVars, setting
<1>3. LimitInv'
  <2>1. failure = "none"
    BY DEF IInv, LimitInv, Exits
  <2> QED BY <2>1, SameShares DEF Exits
<1>4. LifeInv'
  <2>1. ManyInv
    BY DEF IInv, LifeInv
  <2>2. \A i \in DOMAIN threads : LivesOfMany(i)' = LivesOfMany(i)
    BY DEF LivesOfMany
  <2>3. ManyInv'
    BY <2>1, <2>2 DEF ManyInv
  <2> QED BY <2>3 DEF LifeInv
<1>5. TimeInv'
  BY <1>1 DEF IInv, TimeInv
<1>6. SampleInv'
  BY SameSamples DEF IInv
<1> QED BY <1>2, <1>3, <1>4, <1>5, <1>6, StillThere DEF IInv, Exits

LEMMA CreateOnlyStep == IInv /\ CreateOnly => IInv'
<1> SUFFICES ASSUME IInv, CreateOnly PROVE IInv'
  OBVIOUS
<1> USE DEF CreateOnly, Fail
<1>1. failure = "none" /\ numThreads = NumThreads /\ options.connections < softLimit
      /\ options \in Options /\ cpus \in Nat \ {0} /\ numThreads \in Nat
  BY TypeGives DEF IInv, LimitInv, Exits
<1>2. UNCHANGED <<options, setting, cpuVars, numThreads, durationLeft, reporting, slept>>
      /\ phase' = "test" /\ options.justOnce
  OBVIOUS
<1>3. TimeInv'
  BY <1>2 DEF TimeInv
<1>4. CASE numThreads = 0
  <2>1. at' = "divided" /\ UNCHANGED <<threads, failure>> /\ options.connections = 0
    BY <1>1, <1>4, NumThreadsIs
  <2>2. TypeOK'
    BY <1>2, <2>1 DEF IInv, TypeOK, Exits, cpuVars, setting
  <2>3. LimitInv'
    BY <1>1, <1>2, <2>1, SameShares DEF Exits
  <2>4. LifeInv'
    BY <1>2, <2>1 DEF IInv, LifeInv, OneInv, LivesOfOne, TypeOK
  <2>5. SampleInv'
    BY <1>2, <2>1, SameSamples DEF IInv
  <2>6. DeathInv'
    BY <1>2, <2>1 DEF DeathInv
  <2> QED BY <1>3, <2>2, <2>3, <2>4, <2>5, <2>6 DEF IInv
<1>5. CASE numThreads # 0
  <2>1. NumConn(0) \in Nat
    BY <1>1, <1>5, ShareIs
  <2>2. threads' = << [connections |-> NumConn(0), life |-> "new"] >>
        /\ \/ at' = "record" /\ UNCHANGED failure
           \/ at' = "finished" /\ failure' = "thread"
    BY <1>5
  <2> DEFINE t == [connections |-> NumConn(0), life |-> "new"]
  <2>3. t \in Thread /\ t.connections = NumConn(0) /\ t.life = "new"
    BY <2>1 DEF Thread, Lives
  <2> HIDE DEF t
  <2>4. threads' \in Threads /\ Len(threads') = 1 /\ DOMAIN threads' = {1} /\ threads'[1] = t
    BY <2>2, <2>3 DEF Threads, t
  <2>5. TypeOK'
    <3>1. Len(threads') <= Max({numThreads', 1})
      BY <1>1, <1>2, <2>4, RoomForOne
    <3> QED BY <1>2, <2>2, <2>4, <3>1 DEF IInv, TypeOK, Calls, cpuVars, setting, Threads, Thread
  <2>6. LimitInv'
    <3>1. NumThreads' = NumThreads /\ NumConn(0)' = NumConn(0)
      BY <1>2 DEF NumThreads, NumConn, setting
    <3>2. \A i \in DOMAIN threads' : threads'[i].connections = NumConn(i - 1)'
      <4>1. 1 - 1 = 0
        OBVIOUS
      <4> QED BY <2>3, <2>4, <3>1, <4>1
    <3> QED BY <1>1, <1>2, <2>2, <3>1, <3>2 DEF IInv, LimitInv, Exits, setting
  <2>7. LifeInv'
    <3>1. LivesOfOne' = {"new"} /\ at' \in {"record", "finished"}
      BY <2>2 DEF LivesOfOne
    <3>2. \A i \in DOMAIN threads' : threads'[i].life \in LivesOfOne'
      BY <2>3, <2>4, <3>1
    <3>3. OneInv'
      BY <2>4, <3>1, <3>2 DEF OneInv
    <3> QED BY <1>2, <3>3 DEF LifeInv
  <2>8. SampleInv'
    BY <1>2, <2>2, SameSamples DEF IInv
  <2> QED BY <1>3, <2>2, <2>5, <2>6, <2>7, <2>8, StillThere DEF IInv, Exits
<1> QED BY <1>4, <1>5

LEMMA StartOnlyStep == IInv /\ StartOnly => IInv'
<1> SUFFICES ASSUME IInv, StartOnly PROVE IInv'
  OBVIOUS
<1> USE DEF StartOnly
<1>1. options.justOnce /\ OneInv /\ Len(threads) = 1 /\ failure = "none"
  BY TypeGives DEF IInv, LifeInv, ManyInv, OneInv, LimitInv, Exits
<1>2. threads \in Threads /\ DOMAIN threads = {1} /\ Lives1(1, "starting") /\ "starting" \in Lives
  BY <1>1, TypeGives DEF IInv, Lives1, Lives
<1>3. /\ threads' \in Threads /\ Len(threads') = 1 /\ DOMAIN threads' = DOMAIN threads
      /\ threads'[1].life = "starting"
      /\ \A j \in DOMAIN threads : threads'[j].connections = threads[j].connections
  BY <1>1, <1>2, LifeIs
<1>4. TypeOK'
  BY <1>1, <1>3 DEF IInv, TypeOK, Calls, cpuVars, setting, Threads, Thread
<1>5. LimitInv'
  BY <1>1, <1>2, <1>3, SameShares DEF Exits
<1>6. LifeInv'
  BY <1>1, <1>2, <1>3 DEF LifeInv, OneInv, LivesOfOne, Lives
<1>7. TimeInv'
  BY <1>1 DEF TimeInv
<1>8. SampleInv'
  BY <1>1, SameSamples DEF IInv
<1> QED BY <1>4, <1>5, <1>6, <1>7, <1>8, StillThere DEF IInv, Exits

\* A sample: with it, the samples and what has been used since still are all of it.
LEMMA SampledIs ==
  ASSUME TypeOK, SampleInv, NEW readable \in BOOLEAN, stat' \in [Columns -> Nat],
         cpuUsage.idle <= now'.idle, cpuUsage.nonIdle <= now'.nonIdle,
         SampleCPU(stat', readable)
  PROVE  /\ clientSamples' \in Samples /\ cpuUsage' \in [idle : Nat, nonIdle : Nat]
         /\ cpuUsage'.idle <= now'.idle /\ cpuUsage'.nonIdle <= now'.nonIdle
         /\ \A k \in DOMAIN clientSamples' : clientSamples'[k].usage <= clientSamples'[k].all
         /\ Usages(clientSamples') + UsedSince'
              = Usages(clientSamples) + (now'.nonIdle - cpuUsage.nonIdle)
         /\ Ticks(clientSamples') + TicksSince'
              = Ticks(clientSamples) + (now'.idle - cpuUsage.idle) + (now'.nonIdle - cpuUsage.nonIdle)
         /\ readable => UsedSince' = 0 /\ TicksSince' = 0
<1>1. PICK s \in [Columns -> Nat] : s = stat'
  OBVIOUS
<1>2. PICK new \in [idle : Nat, nonIdle : Nat] : new = getTicks(s) /\ new = now'
  BY <1>1, TicksType DEF now
<1>3. PICK old \in [idle : Nat, nonIdle : Nat] : old = cpuUsage
  BY DEF TypeOK
<1>4. old.idle <= new.idle /\ old.nonIdle <= new.nonIdle
  BY <1>2, <1>3
<1> DEFINE usage == IF readable THEN new.nonIdle - old.nonIdle ELSE 0
           idle == IF readable THEN new.idle - old.idle ELSE 0
           x == [usage |-> usage, all |-> idle + usage]
<1>5. cpu_GetInterval(cpuUsage, s, readable) = x /\ x \in Sample
  BY <1>1, <1>2, <1>3, <1>4, SampleIs
<1>6. x.usage = usage /\ x.all = idle + usage /\ usage \in Nat /\ idle \in Nat
  BY <1>4
<1>7. clientSamples' = Append(clientSamples, x)
  BY <1>1, <1>5 DEF SampleCPU
<1> HIDE DEF x
<1>8. clientSamples \in Samples
  BY TypeGives
<1>9. /\ Usages(clientSamples) \in Int /\ Ticks(clientSamples) \in Int
      /\ Usages(clientSamples') = Usages(clientSamples) + usage
      /\ Ticks(clientSamples') = Ticks(clientSamples) + (idle + usage)
  BY <1>5, <1>6, <1>7, <1>8, UsagesAppend
<1>10. clientSamples' \in Samples
       /\ \A k \in DOMAIN clientSamples' : clientSamples'[k].usage <= clientSamples'[k].all
  <2>1. /\ clientSamples' \in Samples /\ DOMAIN clientSamples' = 1 .. Len(clientSamples) + 1
        /\ DOMAIN clientSamples = 1 .. Len(clientSamples) /\ Len(clientSamples) \in Nat
        /\ clientSamples'[Len(clientSamples) + 1] = x
        /\ \A k \in 1 .. Len(clientSamples) : clientSamples'[k] = clientSamples[k]
    BY <1>5, <1>7, <1>8 DEF Samples
  <2>2. x.usage <= x.all
    BY <1>6
  <2>3. \A k \in 1 .. Len(clientSamples) : clientSamples[k].usage <= clientSamples[k].all
    BY <2>1 DEF SampleInv
  <2>4. ASSUME NEW k \in DOMAIN clientSamples'
        PROVE  clientSamples'[k].usage <= clientSamples'[k].all
    <3>1. k \in 1 .. Len(clientSamples) \/ k = Len(clientSamples) + 1
      BY <2>1
    <3> QED BY <2>1, <2>2, <2>3, <3>1
  <2> QED BY <2>1, <2>4
<1>11. cpuUsage' = IF readable THEN new ELSE old
  BY <1>1, <1>2, <1>3 DEF SampleCPU, cpu_GetUsage
<1>12. UsedSince' = (IF readable THEN 0 ELSE new.nonIdle - old.nonIdle)
       /\ TicksSince' = (IF readable THEN 0 ELSE (new.idle - old.idle) + (new.nonIdle - old.nonIdle))
  BY <1>2, <1>11 DEF UsedSince, TicksSince
<1>13. PICK u \in Int, a \in Int : u = Usages(clientSamples) /\ a = Ticks(clientSamples)
  BY <1>9
<1>14. CASE readable
  BY <1>2, <1>3, <1>4, <1>9, <1>10, <1>11, <1>12, <1>13, <1>14
<1>15. CASE ~readable
  BY <1>2, <1>3, <1>4, <1>9, <1>10, <1>11, <1>12, <1>13, <1>15
<1> QED BY <1>14, <1>15

LEMMA RecordStartStep == IInv /\ RecordStart => IInv'
<1> SUFFICES ASSUME IInv, RecordStart PROVE IInv'
  OBVIOUS
<1> USE DEF RecordStart
<1>1. failure = "none" /\ TypeOK
  BY DEF IInv, LimitInv, Exits
<1>2. PICK readable \in MayRead :
        /\ cpuUsage' = cpu_GetUsage(cpuUsage, stat, readable)
        /\ unread' = ~readable /\ Spend(readable)
  OBVIOUS
<1>3. /\ unreadable' \in Nat /\ readable \in BOOLEAN
  BY <1>1, <1>2, ReadingIs DEF TypeOK
<1>4. now \in [idle : Nat, nonIdle : Nat] /\ now' = now /\ cpuUsage \in [idle : Nat, nonIdle : Nat]
  BY <1>1, TicksType DEF now, TypeOK
<1>5. cpuUsage' = IF readable THEN now ELSE cpuUsage
  BY <1>2 DEF cpu_GetUsage, now
<1>6. /\ options.warmup \in Nat /\ options.duration \in Nat /\ options.justOnce \in BOOLEAN
      /\ phase \in {"warmup", "test"}
  BY <1>1, OptionsAre DEF TypeOK
<1>7. TypeOK'
  <2>1. cpuUsage' \in [idle : Nat, nonIdle : Nat] /\ durationLeft' \in Nat
    BY <1>4, <1>5, <1>6
  <2>2. clientSamples' \in Samples /\ unread' \in BOOLEAN
    BY <1>2, <1>3 DEF Samples
  <2> QED BY <1>1, <1>3, <2>1, <2>2 DEF TypeOK, Calls, setting, Samples, Sample
<1>8. LimitInv'
  BY <1>1, SameShares DEF Exits
<1>9. LifeInv'
  <2>1. CASE options.justOnce
    BY <2>1 DEF IInv, LifeInv, OneInv, LivesOfOne
  <2>2. CASE ~options.justOnce
    <3>1. ManyInv
      BY <2>2 DEF IInv, LifeInv
    <3>2. \A i \in DOMAIN threads : LivesOfMany(i)' = LivesOfMany(i)
      BY <2>2 DEF LivesOfMany
    <3>3. ManyInv'
      BY <1>1, <2>2, <3>1, <3>2 DEF ManyInv, Exits
    <3> QED BY <2>2, <3>3 DEF LifeInv
  <2> QED BY <2>1, <2>2
<1>10. TimeInv'
  BY <1>6 DEF IInv, TimeInv
<1>11. SampleInv'
  <2>1. cpuUsage'.idle <= now'.idle /\ cpuUsage'.nonIdle <= now'.nonIdle
    BY <1>4, <1>5 DEF IInv, SampleInv
  <2>2. \A k \in DOMAIN clientSamples' : clientSamples'[k].usage <= clientSamples'[k].all
    BY NoThread
  <2>3. ASSUME ~options.justOnce, ~unread'
        PROVE  /\ Usages(clientSamples') + UsedSince' = busy'
               /\ Ticks(clientSamples') + TicksSince' = slept'[phase']
    <3>1. readable
      BY <1>2, <1>3, <2>3
    <3>2. UsedSince' = 0 /\ TicksSince' = 0
      BY <1>4, <1>5, <3>1 DEF UsedSince, TicksSince
    <3>3. slept[phase] = 0
      BY <1>6, <2>3 DEF IInv, TimeInv
    <3> QED BY <3>2, <3>3, NoUsages
  <2>4. at' \in {"start", "wait"} /\ (at' = "wait" => ~options.justOnce)
    OBVIOUS
  <2> QED BY <2>1, <2>2, <2>3, <2>4 DEF SampleInv
<1> QED BY <1>7, <1>8, <1>9, <1>10, <1>11, StillThere DEF IInv, Exits

LEMMA SleepStep == IInv /\ Sleep => IInv'
<1> SUFFICES ASSUME IInv, Sleep PROVE IInv'
  OBVIOUS
<1> USE DEF Sleep
<1>1. failure = "none" /\ TypeOK /\ ~options.justOnce /\ ManyInv
  BY TypeGives DEF IInv, LimitInv, Exits, LifeInv, OneInv
<1>2. toSleep \in Nat /\ toSleep <= durationLeft /\ durationLeft - toSleep \in Nat
  <2>1. durationLeft \in Nat /\ ReportSleepTime \in Nat
    BY <1>1, ProgramAssumption DEF TypeOK
  <2>2. toSleep = IF durationLeft <= ReportSleepTime THEN durationLeft ELSE ReportSleepTime
    BY <2>1, MinOfTwo DEF toSleep
  <2> QED BY <2>1, <2>2
<1>3. PICK column \in {4, 8} : Work(toSleep, column)
  OBVIOUS
<1>4. PICK used \in 0 .. toSleep :
        /\ stat' = [stat EXCEPT ![1] = @ + used, ![column] = @ + toSleep - used]
        /\ busy' = busy + used
  BY <1>3 DEF Work
<1>5. /\ stat' \in [Columns -> Nat]
      /\ now'.nonIdle = now.nonIdle + used /\ now'.idle = now.idle + (toSleep - used)
  <2>1. PICK s \in [Columns -> Nat] : s = stat
    BY <1>1 DEF TypeOK
  <2>2. PICK t : t = stat'
    OBVIOUS
  <2>3. t = [s EXCEPT ![1] = @ + used, ![column] = @ + toSleep - used]
    BY <1>4, <2>1, <2>2
  <2>4. PICK seconds \in Nat : seconds = toSleep
    BY <1>2
  <2>5. Worked(s, t, seconds, used, column)
    BY <1>4, <2>3, <2>4 DEF Worked
  <2>6. /\ t \in [Columns -> Nat]
        /\ getTicks(t).nonIdle = getTicks(s).nonIdle + used
        /\ getTicks(t).idle = getTicks(s).idle + (seconds - used)
    BY <2>5, WorkIs
  <2> QED BY <2>1, <2>2, <2>4, <2>6 DEF now
<1>6. PICK readable \in MayRead : SampleCPU(stat', readable) /\ Spend(readable)
  OBVIOUS
<1>7. unreadable' \in Nat /\ readable \in BOOLEAN
  BY <1>1, <1>6, ReadingIs DEF TypeOK
<1>8. now \in [idle : Nat, nonIdle : Nat] /\ cpuUsage \in [idle : Nat, nonIdle : Nat]
      /\ busy \in Nat /\ used \in Nat /\ toSleep - used \in Nat
  BY <1>1, <1>2, TicksType DEF now, TypeOK
<1>9. cpuUsage.idle <= now'.idle /\ cpuUsage.nonIdle <= now'.nonIdle
  BY <1>5, <1>8 DEF IInv, SampleInv
<1>10. /\ clientSamples' \in Samples /\ cpuUsage' \in [idle : Nat, nonIdle : Nat]
       /\ cpuUsage'.idle <= now'.idle /\ cpuUsage'.nonIdle <= now'.nonIdle
       /\ \A k \in DOMAIN clientSamples' : clientSamples'[k].usage <= clientSamples'[k].all
       /\ Usages(clientSamples') + UsedSince'
            = Usages(clientSamples) + (now'.nonIdle - cpuUsage.nonIdle)
       /\ Ticks(clientSamples') + TicksSince'
            = Ticks(clientSamples) + (now'.idle - cpuUsage.idle) + (now'.nonIdle - cpuUsage.nonIdle)
  BY <1>1, <1>5, <1>6, <1>7, <1>9, SampledIs DEF IInv
<1>11. phase \in {"warmup", "test"} /\ slept \in [{"warmup", "test"} -> Nat]
       /\ slept' = [slept EXCEPT ![phase] = slept[phase] + toSleep] /\ durationLeft \in Nat
  BY <1>1 DEF TypeOK
<1>12. TypeOK'
  <2>1. slept' \in [{"warmup", "test"} -> Nat] /\ busy' \in Nat
    BY <1>2, <1>4, <1>8, <1>11
  <2> QED BY <1>1, <1>2, <1>5, <1>7, <1>10, <2>1 DEF TypeOK, setting, Samples, Sample
<1>13. LimitInv'
  BY <1>1, SameShares DEF Exits
<1>14. LifeInv'
  <2>1. \A i \in DOMAIN threads : LivesOfMany(i)' = LivesOfMany(i)
    BY DEF LivesOfMany
  <2>2. ManyInv'
    BY <1>1, <2>1 DEF ManyInv
  <2> QED BY <1>1, <2>2 DEF LifeInv
<1>15. TimeInv'
  <2>2. slept'[phase] = slept[phase] + toSleep /\ \A p \in {"warmup", "test"} : p # phase => slept'[p] = slept[p]
    BY <1>11
  <2>3. options.warmup \in Nat /\ options.duration \in Nat
    BY <1>1, OptionsAre DEF TypeOK
  <2>4. durationLeft' = durationLeft - toSleep /\ at' = "wait" /\ phase' = phase
    OBVIOUS
  <2>5. CASE phase = "warmup"
    BY <1>1, <1>2, <1>11, <2>2, <2>3, <2>4, <2>5 DEF IInv, TimeInv
  <2>6. CASE phase = "test"
    BY <1>1, <1>2, <1>11, <2>2, <2>3, <2>4, <2>6 DEF IInv, TimeInv
  <2> QED BY <1>11, <2>5, <2>6
<1>16. SampleInv'
  <2>1. PICK u \in Int, a \in Int : u = Usages(clientSamples) /\ a = Ticks(clientSamples)
    <3>1. clientSamples \in Samples /\ [usage |-> 0, all |-> 0] \in Sample
      BY <1>1, TypeGives DEF Sample
    <3> QED BY <3>1, UsagesAppend
  <2>2. ASSUME ~unread
        PROVE  /\ Usages(clientSamples') + UsedSince' = busy'
               /\ Ticks(clientSamples') + TicksSince' = slept'[phase']
    <3>1. u + (now.nonIdle - cpuUsage.nonIdle) = busy
          /\ a + (now.idle - cpuUsage.idle + (now.nonIdle - cpuUsage.nonIdle)) = slept[phase]
      BY <1>1, <2>1, <2>2 DEF IInv, SampleInv, UsedSince, TicksSince
    <3>2. u + (now'.nonIdle - cpuUsage.nonIdle) = busy + used
      BY <1>5, <1>8, <3>1
    <3>3. a + (now'.idle - cpuUsage.idle) + (now'.nonIdle - cpuUsage.nonIdle) = slept[phase] + toSleep
      BY <1>2, <1>5, <1>8, <3>1
    <3>4. slept'[phase'] = slept[phase] + toSleep
      BY <1>11
    <3> QED BY <1>4, <1>10, <2>1, <3>2, <3>3, <3>4
  <2> QED BY <1>10, <2>2 DEF SampleInv
<1> QED BY <1>12, <1>13, <1>14, <1>15, <1>16, StillThere DEF IInv, Exits

LEMMA NothingLeft == ASSUME NEW n \in Nat, n <= 0 PROVE n = 0
OBVIOUS

LEMMA WaitDoneStep == IInv /\ WaitDone => IInv'
<1> SUFFICES ASSUME IInv, WaitDone PROVE IInv'
  OBVIOUS
<1>0. /\ at = "wait" /\ durationLeft <= 0 /\ phase' = "test"
      /\ at' = (IF phase = "warmup" THEN "record" ELSE "stop record")
      /\ UNCHANGED <<options, setting, cpuVars, numThreads, threads, durationLeft, reporting,
                     slept, failure>>
  BY DEF WaitDone
<1>1. failure = "none" /\ TypeOK /\ ~options.justOnce /\ ManyInv
  BY <1>0, TypeGives DEF IInv, LimitInv, Exits, LifeInv, OneInv
<1>2. durationLeft = 0 /\ phase \in {"warmup", "test"}
      /\ options.warmup \in Nat /\ options.duration \in Nat
  <2>1. durationLeft \in Nat /\ options \in Options /\ phase \in {"warmup", "test"}
    BY <1>1 DEF TypeOK
  <2>2. options.warmup \in Nat /\ options.duration \in Nat
    BY <2>1, OptionsAre
  <2>3. durationLeft <= 0
    BY <1>0
  <2>4. durationLeft = 0
    BY <2>1, <2>3, NothingLeft
  <2> QED BY <2>1, <2>2, <2>4
<1>3. TypeOK'
  BY <1>0, <1>1 DEF TypeOK, Calls, setting, cpuVars
<1>4. LimitInv'
  BY <1>0, <1>1, SameShares DEF Exits
<1>5. LifeInv'
  <2>1. \A i \in DOMAIN threads : LivesOfMany(i)' = LivesOfMany(i)
    BY <1>0 DEF LivesOfMany
  <2>2. ManyInv'
    BY <1>0, <1>1, <2>1 DEF ManyInv, Exits
  <2> QED BY <1>0, <1>1, <2>2 DEF LifeInv
<1>6. TimeInv'
  <2>2. CASE phase = "warmup"
    <3>1. slept["warmup"] = options.warmup /\ slept["test"] = 0
      BY <1>0, <1>1, <1>2, <2>2 DEF IInv, TimeInv
    <3> QED BY <1>0, <1>1, <2>2, <3>1 DEF IInv, TimeInv
  <2>3. CASE phase = "test"
    <3>1. slept["warmup"] = options.warmup /\ slept["test"] = options.duration - durationLeft
      BY <1>0, <1>1, <2>3 DEF IInv, TimeInv
    <3>2. slept["test"] = options.duration
      BY <1>2, <3>1
    <3> QED BY <1>0, <1>1, <2>3, <3>1, <3>2 DEF IInv, TimeInv
  <2> QED BY <1>2, <2>2, <2>3
<1>7. SampleInv'
  BY <1>0, <1>2, SameSamples DEF IInv
<1> QED BY <1>0, <1>3, <1>4, <1>5, <1>6, <1>7, StillThere DEF IInv, Exits

\* What a sample leaves over is what has been used since the reading before it.
Balances(u, a, v, b, idle, nonIdle, used, time) ==
  /\ v + 0 = u + nonIdle /\ b + 0 = a + idle + nonIdle
  /\ u + nonIdle = used /\ a + (idle + nonIdle) = time

LEMMA LastSample ==
  ASSUME NEW u \in Int, NEW a \in Int, NEW v \in Int, NEW b \in Int,
         NEW idle \in Int, NEW nonIdle \in Int, NEW used \in Int, NEW time \in Int,
         Balances(u, a, v, b, idle, nonIdle, used, time)
  PROVE  v = used /\ b = time
BY DEF Balances

LEMMA RecordStopStep == IInv /\ RecordStop => IInv'
<1> SUFFICES ASSUME IInv, RecordStop PROVE IInv'
  OBVIOUS
<1> USE DEF RecordStop
<1>1. failure = "none" /\ TypeOK
  BY DEF IInv, LimitInv, Exits
<1>2. PICK readable \in MayRead :
        /\ SampleCPU(stat, readable)
        /\ unread' = (unread \/ ~readable) /\ Spend(readable)
  OBVIOUS
<1>3. unreadable' \in Nat /\ readable \in BOOLEAN /\ unread' \in BOOLEAN
  BY <1>1, <1>2, ReadingIs DEF TypeOK
<1>4. stat' = stat /\ stat' \in [Columns -> Nat] /\ now' = now
  BY <1>1 DEF TypeOK, now
<1>5. /\ clientSamples' \in Samples /\ cpuUsage' \in [idle : Nat, nonIdle : Nat]
      /\ cpuUsage'.idle <= now'.idle /\ cpuUsage'.nonIdle <= now'.nonIdle
      /\ \A k \in DOMAIN clientSamples' : clientSamples'[k].usage <= clientSamples'[k].all
      /\ Usages(clientSamples') + UsedSince'
           = Usages(clientSamples) + (now'.nonIdle - cpuUsage.nonIdle)
      /\ Ticks(clientSamples') + TicksSince'
           = Ticks(clientSamples) + (now'.idle - cpuUsage.idle) + (now'.nonIdle - cpuUsage.nonIdle)
      /\ readable => UsedSince' = 0 /\ TicksSince' = 0
  <2>1. cpuUsage.idle <= now'.idle /\ cpuUsage.nonIdle <= now'.nonIdle
    BY <1>4 DEF IInv, SampleInv
  <2>2. SampleCPU(stat', readable)
    BY <1>2, <1>4
  <2> QED BY <1>1, <1>3, <1>4, <2>1, <2>2, SampledIs DEF IInv
<1>6. TypeOK'
  BY <1>1, <1>3, <1>4, <1>5 DEF TypeOK, Calls, setting, Samples, Sample
<1>7. LimitInv'
  BY <1>1, SameShares DEF Exits
<1>8. LifeInv'
  <2>1. CASE options.justOnce
    BY <2>1 DEF IInv, LifeInv, OneInv, LivesOfOne
  <2>2. CASE ~options.justOnce
    <3>1. ManyInv /\ at' = "stop"
      BY <2>2 DEF IInv, LifeInv
    <3>2. \A i \in DOMAIN threads : LivesOfMany(i) = Up /\ LivesOfMany(i)' = Up \cup {"stopping", "ended"}
      BY <3>1 DEF LivesOfMany
    <3>3. ManyInv'
      BY <1>1, <3>1, <3>2 DEF ManyInv, Exits
    <3> QED BY <2>2, <3>3 DEF LifeInv
  <2> QED BY <2>1, <2>2
<1>9. TimeInv'
  BY DEF IInv, TimeInv
<1>10. SampleInv'
  <2>1. PICK u \in Int, a \in Int : u = Usages(clientSamples) /\ a = Ticks(clientSamples)
    <3>1. clientSamples \in Samples /\ [usage |-> 0, all |-> 0] \in Sample
      BY <1>1, TypeGives DEF Sample
    <3> QED BY <3>1, UsagesAppend
  <2>2. PICK v \in Int, b \in Int : v = Usages(clientSamples') /\ b = Ticks(clientSamples')
    <3>1. [usage |-> 0, all |-> 0] \in Sample
      BY DEF Sample
    <3> QED BY <1>5, <3>1, UsagesAppend
  <2>3. ASSUME ~options.justOnce, ~unread'
        PROVE  /\ Ticks(clientSamples') = options.duration
               /\ Usages(clientSamples') = busy'
    <3>1. readable /\ ~unread
      BY <1>2, <1>3, <2>3
    <3>2. u + (now.nonIdle - cpuUsage.nonIdle) = busy
          /\ a + (now.idle - cpuUsage.idle + (now.nonIdle - cpuUsage.nonIdle)) = slept[phase]
      BY <2>1, <2>3, <3>1 DEF IInv, SampleInv, UsedSince, TicksSince
    <3>3. slept[phase] = options.duration
      BY <2>3 DEF IInv, TimeInv
    <3>4. now \in [idle : Nat, nonIdle : Nat] /\ cpuUsage \in [idle : Nat, nonIdle : Nat]
      BY <1>1, TicksType DEF now, TypeOK
    <3>5. PICK idle \in Int, nonIdle \in Int :
            idle = now.idle - cpuUsage.idle /\ nonIdle = now.nonIdle - cpuUsage.nonIdle
      <4>1. /\ now.idle \in Int /\ now.nonIdle \in Int
            /\ cpuUsage.idle \in Int /\ cpuUsage.nonIdle \in Int
        BY ONLY <3>4
      <4>2. now.idle - cpuUsage.idle \in Int /\ now.nonIdle - cpuUsage.nonIdle \in Int
        BY ONLY <4>1
      <4> QED BY ONLY <4>2
    <3>6. busy \in Int /\ options.duration \in Int
      <4>1. busy \in Nat /\ options \in Options
        BY <1>1 DEF TypeOK
      <4>2. options.duration \in Nat
        BY <4>1, OptionsAre
      <4> QED BY ONLY <4>1, <4>2
    <3>7. v + 0 = u + nonIdle /\ b + 0 = a + idle + nonIdle
      BY <1>4, <1>5, <2>1, <2>2, <3>1, <3>5
    <3>8. PICK used \in Int, time \in Int : used = busy /\ time = options.duration
      BY <3>6
    <3>9. Balances(u, a, v, b, idle, nonIdle, used, time)
      BY <3>2, <3>3, <3>5, <3>7, <3>8 DEF Balances
    <3>10. v = used /\ b = time
      BY <3>9, LastSample
    <3> QED BY <2>2, <3>8, <3>10
  <2>4. at' \in {"print", "stop"}
    OBVIOUS
  <2> QED BY <1>5, <2>3, <2>4 DEF SampleInv
<1> QED BY <1>6, <1>7, <1>8, <1>9, <1>10, StillThere DEF IInv, Exits

\* The shares when a thread's life goes on.
LEMMA LifeTypes ==
  ASSUME IInv, NEW i \in DOMAIN threads, NEW life \in Lives, Lives1(i, life),
         UNCHANGED <<at, options, setting, cpuVars, numThreads, phase, durationLeft, reporting,
                     slept, failure>>,
         at \notin {"url", "limits"} \cup Exits
  PROVE  TypeOK' /\ LimitInv' /\ SampleInv' /\ DeathInv'
<1>1. TypeOK /\ threads \in Threads
  BY TypeGives DEF IInv
<1>2. /\ threads' \in Threads /\ Len(threads') = Len(threads)
      /\ DOMAIN threads' = DOMAIN threads
      /\ \A j \in DOMAIN threads : threads'[j].connections = threads[j].connections
  BY <1>1, LifeIs
<1>3. TypeOK'
  BY <1>1, <1>2 DEF TypeOK, setting, cpuVars, Threads, Thread
<1>4. LimitInv'
  <2>1. at = "finished" => failure # "none"
    BY DEF IInv, LimitInv
  <2>2. at # "terminated"
    BY DEF Exits
  <2>3. threads # <<>>
    BY NoThread
  <2> QED BY <1>2, <2>1, <2>2, <2>3, SameShares
<1>5. SampleInv'
  BY SameSamples DEF IInv
<1>6. DeathInv'
  BY StillThere
<1> QED BY <1>3, <1>4, <1>5, <1>6

LEMMA RequestStopStep == IInv /\ RequestStop => IInv'
<1> SUFFICES ASSUME IInv, RequestStop PROVE IInv'
  OBVIOUS
<1> USE DEF RequestStop
<1>1. failure = "none" /\ TypeOK /\ ~options.justOnce /\ ManyInv
  BY TypeGives DEF IInv, LimitInv, Exits, LifeInv, OneInv
<1> DEFINE i == NextWith({"starting", "running"})
<1>2. \/ i = 0 /\ \A j \in DOMAIN threads : threads[j].life \notin {"starting", "running"}
      \/ i \in DOMAIN threads /\ threads[i].life \in {"starting", "running"}
  BY <1>1, NextWithIs
<1>3. \A j \in DOMAIN threads : threads[j].life \in Up \cup {"stopping", "ended"}
  BY <1>1 DEF ManyInv, LivesOfMany
<1>4. at = "stop" /\ UNCHANGED <<options, setting, cpuVars, numThreads, phase, durationLeft,
                                 reporting, slept, failure>>
      /\ CASE i = 0 -> at' = "join" /\ UNCHANGED threads
           [] i # 0 /\ threads[i].life = "starting" -> at' = "null loop" /\ UNCHANGED threads
           [] OTHER -> threads' = [threads EXCEPT ![i].life = "stopping"] /\ UNCHANGED at
  OBVIOUS
<1> HIDE DEF i, RequestStop
<1>5. ~reporting
  BY <1>1, <1>4 DEF ManyInv, Exits
<1>6. 0 \notin DOMAIN threads
  BY <1>1, TypeGives
<1>7. CASE i = 0
  <2>1. at' = "join" /\ UNCHANGED threads
    BY <1>4, <1>7
  <2>2. \A j \in DOMAIN threads : threads[j].life \in {"stopping", "ended"}
    BY <1>2, <1>3, <1>6, <1>7 DEF Up
  <2>3. TypeOK'
    BY <1>1, <1>4, <2>1 DEF TypeOK, Calls, setting, cpuVars
  <2>4. LimitInv'
    BY <1>1, <1>4, <2>1, SameShares DEF Exits
  <2>5. LifeInv'
    <3>1. \A j \in DOMAIN threads' : threads'[j].life \in LivesOfMany(j)'
      BY <2>1, <2>2 DEF LivesOfMany
    <3>2. ManyInv'
      BY <1>1, <1>4, <1>5, <2>1, <3>1 DEF ManyInv, Exits
    <3> QED BY <1>1, <1>4, <3>2 DEF LifeInv
  <2>6. TimeInv'
    BY <1>4, <2>1 DEF IInv, TimeInv
  <2>7. SampleInv'
    BY <1>4, <2>1, SameSamples DEF IInv
  <2> QED BY <2>1, <2>3, <2>4, <2>5, <2>6, <2>7, StillThere DEF IInv, Exits
<1>8. CASE i # 0 /\ threads[i].life = "starting"
  <2>1. at' = "null loop" /\ UNCHANGED threads
    BY <1>4, <1>8
  <2>2. TypeOK'
    BY <1>1, <1>4, <2>1 DEF TypeOK, Exits, setting, cpuVars
  <2>3. LimitInv'
    BY <1>1, <1>4, <2>1, SameShares DEF Exits
  <2>4. LifeInv'
    <3>1. \A j \in DOMAIN threads' : threads'[j].life \in LivesOfMany(j)'
      BY <1>3, <2>1 DEF LivesOfMany, Lives, Up
    <3>2. ManyInv'
      BY <1>1, <1>4, <1>5, <2>1, <3>1 DEF ManyInv, Exits
    <3> QED BY <1>1, <1>4, <3>2 DEF LifeInv
  <2>5. TimeInv'
    BY <1>4, <2>1 DEF IInv, TimeInv
  <2>6. SampleInv'
    BY <1>4, <2>1, SameSamples DEF IInv
  <2>7. slept = [warmup |-> options.warmup, test |-> options.duration]
    <3>1. slept["warmup"] = options.warmup /\ slept["test"] = options.duration
      BY <1>1, <1>4 DEF IInv, TimeInv
    <3>2. slept \in [{"warmup", "test"} -> Nat]
      BY <1>1 DEF TypeOK
    <3> QED BY <3>1, <3>2
  <2>8. DeathInv'
    <3>1. slept' = slept /\ options' = options
      BY <1>4
    <3> QED BY <2>1, <2>7, <3>1 DEF DeathInv
  <2> QED BY <2>2, <2>3, <2>4, <2>5, <2>6, <2>8 DEF IInv
<1>9. CASE i # 0 /\ threads[i].life # "starting"
  <2>1. i \in DOMAIN threads /\ Lives1(i, "stopping") /\ UNCHANGED at /\ "stopping" \in Lives
    BY <1>2, <1>4, <1>9 DEF Lives1, Lives
  <2>2. TypeOK' /\ LimitInv' /\ SampleInv' /\ DeathInv'
    BY <1>4, <2>1, LifeTypes DEF Exits
  <2>3. /\ DOMAIN threads' = DOMAIN threads /\ Len(threads') = Len(threads)
        /\ threads'[i].life = "stopping"
        /\ \A j \in DOMAIN threads : j # i => threads'[j] = threads[j]
    BY <1>1, <2>1, LifeIs, TypeGives
  <2>4. LifeInv'
    <3>1. \A j \in DOMAIN threads' : threads'[j].life \in LivesOfMany(j)'
      BY <1>3, <1>4, <2>1, <2>3 DEF LivesOfMany
    <3>2. ManyInv'
      BY <1>1, <1>4, <1>5, <2>1, <2>3, <3>1 DEF ManyInv
    <3> QED BY <1>1, <1>4, <3>2 DEF LifeInv
  <2>5. TimeInv'
    BY <1>4, <2>1, <2>3 DEF IInv, TimeInv
  <2> QED BY <2>2, <2>4, <2>5 DEF IInv
<1> QED BY <1>7, <1>8, <1>9

LEMMA JoinStep == IInv /\ Join => IInv'
<1> SUFFICES ASSUME IInv, Join PROVE IInv'
  OBVIOUS
<1> DEFINE i == NextWith(Lives \ {"joined"})
<1>1. at = "join" /\ UNCHANGED <<options, setting, cpuVars, numThreads, phase, durationLeft,
                                 reporting, slept, failure>>
      /\ IF i = 0
         THEN at' = (IF options.justOnce THEN "stop record" ELSE "print") /\ UNCHANGED threads
         ELSE /\ threads[i].life = "ended"
              /\ threads' = [threads EXCEPT ![i].life = "joined"] /\ UNCHANGED at
  BY DEF Join
<1>2. failure = "none" /\ TypeOK
  BY <1>1 DEF IInv, LimitInv, Exits
<1>3. \/ i = 0 /\ \A j \in DOMAIN threads : threads[j].life \notin Lives \ {"joined"}
      \/ i \in DOMAIN threads /\ threads[i].life \in Lives \ {"joined"}
  BY <1>2, NextWithIs
<1> HIDE DEF i
<1>4. 0 \notin DOMAIN threads
  BY <1>2, TypeGives
<1>5. CASE i = 0
  <2>1. at' = (IF options.justOnce THEN "stop record" ELSE "print") /\ UNCHANGED threads
    BY <1>1, <1>5
  <2>2. ASSUME NEW j \in DOMAIN threads PROVE threads[j].life = "joined"
    <3>1. threads[j] \in Thread
      BY <1>2, TypeGives, ElementOf DEF Threads
    <3> QED BY <1>3, <1>4, <1>5, <3>1 DEF Thread
  <2>3. TypeOK'
    BY <1>1, <1>2, <2>1 DEF TypeOK, Calls, setting, cpuVars
  <2>4. LimitInv'
    BY <1>1, <1>2, <2>1, SameShares DEF Exits
  <2>5. LifeInv'
    <3>1. CASE options.justOnce
      <4>1. \A j \in DOMAIN threads' : threads'[j].life \in LivesOfOne'
        BY <2>1, <2>2, <3>1 DEF LivesOfOne
      <4>2. OneInv'
        BY <1>1, <2>1, <3>1, <4>1 DEF IInv, LifeInv, OneInv
      <4> QED BY <1>1, <3>1, <4>2 DEF LifeInv
    <3>2. CASE ~options.justOnce
      <4>1. \A j \in DOMAIN threads' : threads'[j].life \in LivesOfMany(j)'
        BY <2>1, <2>2, <3>2 DEF LivesOfMany
      <4>2. ManyInv'
        BY <1>1, <1>2, <2>1, <3>2, <4>1 DEF IInv, LifeInv, ManyInv, Exits
      <4> QED BY <1>1, <3>2, <4>2 DEF LifeInv
    <3> QED BY <3>1, <3>2
  <2>6. TimeInv'
    BY <1>1, <2>1 DEF IInv, TimeInv
  <2>7. SampleInv'
    BY <1>1, <2>1, SameSamples DEF IInv
  <2> QED BY <2>1, <2>3, <2>4, <2>5, <2>6, <2>7, StillThere DEF IInv, Exits
<1>6. CASE i # 0
  <2>1. i \in DOMAIN threads /\ Lives1(i, "joined") /\ UNCHANGED at /\ "joined" \in Lives
    BY <1>1, <1>3, <1>6 DEF Lives1, Lives
  <2>2. TypeOK' /\ LimitInv' /\ SampleInv' /\ DeathInv'
    BY <1>1, <2>1, LifeTypes DEF Exits
  <2>3. /\ DOMAIN threads' = DOMAIN threads /\ Len(threads') = Len(threads)
        /\ threads'[i].life = "joined"
        /\ \A j \in DOMAIN threads : j # i => threads'[j] = threads[j]
    BY <1>2, <2>1, LifeIs, TypeGives
  <2>4. LifeInv'
    <3>1. CASE options.justOnce
      <4>1. OneInv
        BY <3>1 DEF IInv, LifeInv
      <4>2. \A j \in DOMAIN threads' : threads'[j].life \in LivesOfOne'
        BY <1>1, <2>1, <2>3, <4>1 DEF LivesOfOne, OneInv
      <4>3. OneInv'
        BY <1>1, <2>1, <2>3, <4>1, <4>2 DEF OneInv
      <4> QED BY <1>1, <3>1, <4>3 DEF LifeInv
    <3>2. CASE ~options.justOnce
      <4>1. ManyInv
        BY <3>2 DEF IInv, LifeInv
      <4>2. \A j \in DOMAIN threads' : threads'[j].life \in LivesOfMany(j)'
        BY <1>1, <2>1, <2>3, <4>1 DEF LivesOfMany, ManyInv
      <4>3. ManyInv'
        BY <1>1, <2>1, <2>3, <4>1, <4>2 DEF ManyInv
      <4> QED BY <1>1, <3>2, <4>3 DEF LifeInv
    <3> QED BY <3>1, <3>2
  <2>5. TimeInv'
    BY <1>1, <2>1, <2>3 DEF IInv, TimeInv
  <2> QED BY <2>2, <2>4, <2>5 DEF IInv
<1> QED BY <1>5, <1>6

\* A thread that is left for the destructor to end the process with was made
\* before another one that could not be initialised.
LEMMA LeaveStep == IInv /\ Leave => IInv'
<1> SUFFICES ASSUME IInv, Leave PROVE IInv'
  OBVIOUS
<1> DEFINE i == NextWith(Joinable)
<1>1. /\ at \in {"print", "finished"} /\ at' = (IF i # 0 THEN "terminated" ELSE "exit")
      /\ UNCHANGED <<options, setting, cpuVars, numThreads, threads, phase, durationLeft,
                     reporting, slept, failure>>
  BY DEF Leave
<1>2. TypeOK /\ failure \in {"none", "url", "limits", "thread"}
      /\ (at = "finished" => failure # "none")
  BY DEF IInv, TypeOK, LimitInv
<1>3. \/ i = 0
      \/ i \in DOMAIN threads /\ threads[i].life \in Joinable
  BY <1>2, NextWithIs
<1> HIDE DEF i
<1>4. ASSUME i # 0
      PROVE  ~options.justOnce /\ failure = "thread" /\ Len(threads) > 1
  <2>1. i \in DOMAIN threads /\ threads[i].life \in Joinable
    BY <1>3, <1>4
  <2>2. ~options.justOnce
    BY <1>1, <2>1 DEF IInv, LifeInv, OneInv, LivesOfOne, Joinable
  <2>3. threads[i].life \in LivesOfMany(i)
    BY <2>1, <2>2 DEF IInv, LifeInv, ManyInv
  <2>4. at = "finished" /\ i # Len(threads)
    BY <1>1, <2>1, <2>3 DEF LivesOfMany, Joinable
  <2>5. i \in 1 .. Len(threads) /\ Len(threads) \in Nat
    BY <1>2, <2>1, TypeGives
  <2>6. threads # <<>>
    BY <2>1, NoThread
  <2>7. failure = "thread"
    BY <1>2, <2>4, <2>6 DEF IInv, LimitInv
  <2>8. Len(threads) > 1
    BY <2>4, <2>5
  <2> QED BY <2>2, <2>7, <2>8
<1>5. at' \in {"terminated", "exit"} /\ (at' = "terminated" => i # 0)
  BY <1>1
<1>6. TypeOK'
  BY <1>1, <1>2, <1>5 DEF TypeOK, Exits, setting, cpuVars
<1>7. LimitInv'
  <2>1. at' = "terminated" => failure # "none"
    BY <1>4, <1>5
  <2> QED BY <1>1, <1>2, <1>5, <2>1, SameShares DEF IInv, LimitInv, Exits
<1>8. LifeInv'
  <2>1. ASSUME NEW j \in DOMAIN threads PROVE threads[j].life \in Lives
    <3>1. threads[j] \in Thread
      BY <1>2, TypeGives, ElementOf DEF Threads
    <3> QED BY <3>1 DEF Thread
  <2>2. CASE options.justOnce
    <3>1. OneInv'
      BY <1>1, <1>5, <2>1, <2>2 DEF IInv, LifeInv, OneInv, LivesOfOne
    <3> QED BY <1>1, <2>2, <3>1 DEF LifeInv
  <2>3. CASE ~options.justOnce
    <3>1. ManyInv'
      BY <1>1, <1>2, <1>5, <2>1, <2>3 DEF IInv, LifeInv, ManyInv, LivesOfMany, Exits
    <3> QED BY <1>1, <2>3, <3>1 DEF LifeInv
  <2> QED BY <2>2, <2>3
<1>9. TimeInv'
  BY <1>1, <1>5 DEF IInv, TimeInv
<1>10. SampleInv'
  BY <1>1, <1>5, SameSamples DEF IInv
<1>11. DeathInv'
  BY <1>1, <1>4, <1>5 DEF DeathInv
<1> QED BY <1>6, <1>7, <1>8, <1>9, <1>10, <1>11 DEF IInv

\* The process dies in a thread, or by a command to a host.
LEMMA DeathStep ==
  ASSUME IInv, at \notin {"url", "limits"} \cup Exits, at' \in {"null URL", "signalled"},
         UNCHANGED <<options, setting, cpuVars, numThreads, threads, phase, durationLeft,
                     reporting, slept, failure>>,
         at' = "null URL" => ~listed
  PROVE  IInv'
<1>1. TypeOK
  BY DEF IInv
<1>2. TypeOK'
  BY <1>1 DEF TypeOK, Exits, setting, cpuVars
<1>3. LimitInv'
  BY SameShares DEF Exits
<1>4. ASSUME NEW j \in DOMAIN threads PROVE threads[j].life \in Lives
  <2>1. threads[j] \in Thread
    BY <1>1, TypeGives, ElementOf DEF Threads
  <2> QED BY <2>1 DEF Thread
<1>5. LifeInv'
  <2>1. CASE options.justOnce
    <3>1. OneInv'
      BY <1>4, <2>1 DEF IInv, LifeInv, OneInv, LivesOfOne
    <3> QED BY <2>1, <3>1 DEF LifeInv
  <2>2. CASE ~options.justOnce
    <3>1. ManyInv'
      BY <1>4, <2>2 DEF IInv, LifeInv, ManyInv, LivesOfMany, Exits
    <3> QED BY <2>2, <3>1 DEF LifeInv
  <2> QED BY <2>1, <2>2
<1>6. TimeInv' /\ SampleInv'
  BY SameSamples DEF IInv, TimeInv
<1>7. DeathInv'
  BY DEF DeathInv, setting
<1> QED BY <1>2, <1>3, <1>5, <1>6, <1>7 DEF IInv

LEMMA CommandSignalsStep == IInv /\ CommandSignals => IInv'
BY DeathStep DEF CommandSignals, Exits

\* A thread's loop begins or ends.
LoopStep(i, life) ==
  /\ Lives1(i, life)
  /\ \/ life = "running" /\ threads[i].life = "starting"
     \/ life = "ended" /\ threads[i].life = (IF options.justOnce THEN "running" ELSE "stopping")

LEMMA LifeStep ==
  ASSUME IInv, at \notin {"url", "limits"} \cup Exits,
         UNCHANGED <<at, options, setting, cpuVars, numThreads, phase, durationLeft, reporting,
                     slept, failure>>,
         NEW i \in DOMAIN threads, NEW life \in {"running", "ended"}, LoopStep(i, life)
  PROVE  IInv'
<1>1. at \notin Exits
  OBVIOUS
<1>2. TypeOK
  BY DEF IInv
<1>3. /\ Lives1(i, life)
      /\ \/ life = "running" /\ threads[i].life = "starting"
         \/ life = "ended" /\ threads[i].life = (IF options.justOnce THEN "running" ELSE "stopping")
  BY DEF LoopStep
<1>4. life \in Lives
  BY DEF Lives
<1>5. at \notin {"url", "limits"}
  OBVIOUS
<1>6. TypeOK' /\ LimitInv' /\ SampleInv' /\ DeathInv'
  BY <1>1, <1>3, <1>4, <1>5, LifeTypes
<1>7. /\ DOMAIN threads' = DOMAIN threads /\ Len(threads') = Len(threads)
      /\ threads'[i].life = life
      /\ \A j \in DOMAIN threads : j # i => threads'[j] = threads[j]
  BY <1>2, <1>3, <1>4, LifeIs, TypeGives
<1>8. CASE options.justOnce
  <2>1. OneInv
    BY <1>8 DEF IInv, LifeInv
  <2>2. threads[i].life \in LivesOfOne => life \in LivesOfOne
    BY <1>3, <1>8 DEF LivesOfOne, Lives
  <2>3. \A j \in DOMAIN threads' : threads'[j].life \in LivesOfOne
    BY <1>7, <2>1, <2>2 DEF OneInv
  <2>4. LivesOfOne' = LivesOfOne
    BY <1>1 DEF LivesOfOne
  <2>5. OneInv'
    BY <1>1, <1>7, <2>1, <2>3, <2>4 DEF OneInv
  <2>6. LifeInv' /\ TimeInv'
    BY <1>1, <1>8, <2>5 DEF LifeInv, TimeInv
  <2> QED BY <1>6, <2>6 DEF IInv
<1>9. CASE ~options.justOnce
  <2>1. ManyInv
    BY <1>9 DEF IInv, LifeInv
  <2>2. threads[i].life \in LivesOfMany(i) => life \in LivesOfMany(i)
    BY <1>3, <1>9 DEF LivesOfMany, Lives, Up
  <2>3. \A j \in DOMAIN threads' : threads'[j].life \in LivesOfMany(j)
    BY <1>7, <2>1, <2>2 DEF ManyInv
  <2>4. \A j \in DOMAIN threads : LivesOfMany(j)' = LivesOfMany(j)
    BY <1>1, <1>7 DEF LivesOfMany
  <2>5. ManyInv'
    BY <1>1, <1>7, <2>1, <2>3, <2>4 DEF ManyInv
  <2>7. LifeInv' /\ TimeInv'
    BY <1>1, <1>9, <2>5 DEF IInv, LifeInv, TimeInv
  <2> QED BY <1>6, <2>7 DEF IInv
<1> QED BY <1>8, <1>9

LEMMA ThreadStepStep == IInv /\ ThreadStep => IInv'
<1> SUFFICES ASSUME IInv, ThreadStep PROVE IInv'
  OBVIOUS
<1>1. at \notin {"url", "limits"} \cup Exits
      /\ UNCHANGED <<options, setting, cpuVars, numThreads, phase, durationLeft, reporting,
                     slept, failure>>
  BY NoThread DEF ThreadStep, IInv, LimitInv
<1>2. PICK i \in DOMAIN threads :
        CreateLoop(i) \/ DrawNothing(i) \/ LoopEnds(i) \/ WriteSignals(i)
  BY DEF ThreadStep
<1>3. CASE DrawNothing(i) \/ WriteSignals(i)
  BY <1>1, <1>3, DeathStep DEF DrawNothing, WriteSignals
<1>4. CASE CreateLoop(i) \/ LoopEnds(i)
  BY <1>1, <1>4, LifeStep DEF CreateLoop, LoopEnds, LoopStep, Lives1
<1> QED BY <1>2, <1>3, <1>4

LEMMA StutterStep == IInv /\ UNCHANGED vars => IInv'
<1> SUFFICES ASSUME IInv, UNCHANGED vars PROVE IInv'
  OBVIOUS
<1> USE DEF vars, setting, cpuVars
<1>1. TypeOK' /\ LimitInv'
  BY DEF IInv, TypeOK, LimitInv, NumConn, NumThreads
<1>4. DeathInv'
  BY DEF IInv, DeathInv
<1>2. LifeInv'
  BY DEF IInv, LifeInv, OneInv, ManyInv, LivesOfOne, LivesOfMany
<1>3. TimeInv' /\ SampleInv'
  BY DEF IInv, TimeInv, SampleInv, UsedSince, TicksSince, now
<1> QED BY <1>1, <1>2, <1>3, <1>4 DEF IInv

LEMMA StepHolds == IInv /\ [Next]_vars => IInv'
<1>1. IInv /\ Main => IInv'
  BY InitURLsStep, SetLimitsStep, CreateThreadStep, ThreadsCreatedStep, CreateOnlyStep,
     StartOnlyStep, RecordStartStep, SleepStep, WaitDoneStep, RecordStopStep, RequestStopStep,
     JoinStep, LeaveStep DEF Main
<1>2. IInv /\ ThreadStep => IInv'
  BY ThreadStepStep
<1>3. IInv /\ CommandSignals => IInv'
  BY CommandSignalsStep
<1>4. IInv /\ Idle => IInv'
  BY StutterStep DEF Idle
<1> QED BY <1>1, <1>2, <1>3, <1>4, StutterStep DEF Next

LEMMA Invariance == Spec => []IInv
BY InitHolds, StepHolds, PTL DEF Spec

-----------------------------------------------------------------------------
(***************************************************************************)
(* What follows.                                                           *)
(***************************************************************************)
\* n shares of q, the first r of them one larger.
Dealt(s, n, q, r) ==
  /\ s \in Seq(Int) /\ Len(s) = n
  /\ \A k \in 1 .. n : s[k] = q + (IF k - 1 < r THEN 1 ELSE 0)

LEMMA OneMore ==
  ASSUME NEW k \in Int, NEW q \in Int
  PROVE  k * q = (k - 1) * q + q
<1>1. (k - 1) * q = k * q - q
  BY SMT
<1>2. k * q \in Int
  OBVIOUS
<1> QED BY <1>1, <1>2

LEMMA DealtTotal ==
  ASSUME NEW n \in Nat, NEW q \in Nat, NEW r \in 0 .. n, NEW s, Dealt(s, n, q, r)
  PROVE  Total(s) = n * q + r
<1> DEFINE extra(k) == IF k <= r THEN k ELSE r
           p == [k \in 0 .. n |-> k * q + extra(k)]
<1>1. s \in Seq(Int) /\ Len(s) = n
  BY DEF Dealt
<1>2. p \in [0 .. n -> Int] /\ p[0] = 0
  BY SMT
<1>3. ASSUME NEW k \in 1 .. n PROVE p[k] = p[k - 1] + s[k]
  <2>1. p[k] = k * q + extra(k) /\ p[k - 1] = (k - 1) * q + extra(k - 1)
    OBVIOUS
  <2>2. s[k] = q + (IF k - 1 < r THEN 1 ELSE 0)
    BY DEF Dealt
  <2>3. extra(k) = extra(k - 1) + (IF k - 1 < r THEN 1 ELSE 0)
    OBVIOUS
  <2>4. PICK x \in Int : x = (k - 1) * q
    OBVIOUS
  <2>5. k * q = x + q
    BY <2>4, OneMore
  <2>6. extra(k - 1) \in Int
    OBVIOUS
  <2> HIDE DEF extra, p
  <2> QED BY <2>1, <2>2, <2>3, <2>4, <2>5, <2>6
<1>4. p[n] = n * q + r
  OBVIOUS
<1> HIDE DEF p
<1>5. RunningSum(p, s)
  BY <1>1, <1>2, <1>3 DEF RunningSum
<1> QED BY <1>1, <1>4, <1>5, TotalIs

\* As many threads as there are connections have none that has nothing to do.
LEMMA EnoughForAll ==
  ASSUME NEW c \in Nat, NEW n \in Nat \ {0}, n <= c,
         NEW q \in Nat, NEW r \in 0 .. n - 1, c = n * q + r
  PROVE  q >= 1
<1>1. CASE q = 0
  <2>1. n * q = 0
    BY <1>1
  <2> QED BY <2>1
<1> QED BY <1>1

LEMMA PlacedWhileRunning ==
  ASSUME IInv, Running
  PROVE  LET shares == {threads[i].connections : i \in DOMAIN threads} IN
         /\ Total([i \in DOMAIN threads |-> threads[i].connections]) = options.connections
         /\ 0 \notin shares
         /\ \A m, n \in shares : m <= n + 1
<1> DEFINE shares == {threads[i].connections : i \in DOMAIN threads}
           s == [i \in DOMAIN threads |-> threads[i].connections]
<1>1. /\ TypeOK /\ ~options.justOnce /\ failure = "none" /\ ManyInv
      /\ at \notin {"url", "limits", "create"} \cup Exits
  BY DEF IInv, Running, LifeInv
<1>2. /\ numThreads = NumThreads /\ Len(threads) = numThreads
      /\ \A i \in DOMAIN threads : threads[i].connections = NumConn(i - 1)
  BY <1>1 DEF IInv, LimitInv, ManyInv
<1>3. DOMAIN threads = 1 .. numThreads /\ numThreads \in Nat /\ options \in Options
  BY <1>1, <1>2, TypeGives
<1>4. options.connections \in Nat /\ numThreads <= options.connections
      /\ (numThreads = 0 => options.connections = 0)
  <2>1. cpus \in Nat \ {0}
    BY DEF IInv, LimitInv
  <2> QED BY <1>2, <1>3, <2>1, NumThreadsIs, OptionsAre
<1>5. CASE numThreads = 0
  <2>1. DOMAIN threads = {}
    BY <1>3, <1>5
  <2>2. s = <<>>
    BY <2>1
  <2>3. shares = {}
    BY <2>1
  <2> QED BY <1>4, <1>5, <2>2, <2>3, TotalEmpty
<1>6. CASE numThreads # 0
  <2>1. PICK c \in Nat, n \in Nat \ {0} : c = options.connections /\ n = numThreads
    BY <1>3, <1>4, <1>6
  <2>2. PICK q \in Nat, r \in 0 .. n - 1 :
          /\ q = options.connections \div numThreads
          /\ r = options.connections % numThreads
          /\ c = n * q + r
    <3>1. 0 \in Nat /\ numThreads \in Nat \ {0}
      BY <1>3, <1>6
    <3> QED BY <1>3, <2>1, <3>1, ShareIs
  <2>3. \A k \in 1 .. n : threads[k].connections = q + (IF k - 1 < r THEN 1 ELSE 0)
    BY <1>2, <1>3, <2>1, <2>2 DEF NumConn
  <2>4. Dealt(s, n, q, r)
    <3>1. s = [k \in 1 .. n |-> q + (IF k - 1 < r THEN 1 ELSE 0)]
      BY <1>3, <2>1, <2>3
    <3> QED BY <3>1 DEF Dealt
  <2>5. Total(s) = n * q + r
    BY <2>4, DealtTotal
  <2>6. q >= 1
    BY <1>4, <2>1, <2>2, EnoughForAll
  <2>7. \A m \in shares : m \in {q, q + 1}
    BY <1>3, <2>1, <2>3
  <2>8. 0 \notin shares
    BY <2>6, <2>7
  <2>9. \A m, k \in shares : m <= k + 1
    BY <2>7
  <2> QED BY <2>1, <2>2, <2>5, <2>8, <2>9
<1> QED BY <1>5, <1>6

\* For all options, limits and numbers of CPUs: the threads of a test have all
\* the connections and each its fair share of them, within the limit on
\* descriptors (setProcessLimits, NumThreads and initializeThread).
THEOREM ConnectionsShared == Spec => []ConnectionsPlaced
<1>1. IInv => ConnectionsPlaced
  <2> SUFFICES ASSUME IInv PROVE ConnectionsPlaced
    OBVIOUS
  <2>1. TypeOK
    BY DEF IInv
  <2>2. threads # <<>> => options.connections < softLimit
    BY DEF IInv, LimitInv
  <2> QED BY <2>1, <2>2, PlacedWhileRunning DEF ConnectionsPlaced
<1> QED BY <1>1, Invariance, PTL

\* For all of them: while results are recorded every thread that was asked for is
\* there and has been asked to stop by nobody, and what is measured lasts as long
\* as -w and -d say (waitAndReport, RecordStop before RequestStop).
THEOREM TimeAndThreadsAsAsked == Spec => []MeasuredAsAsked
<1>1. IInv => MeasuredAsAsked
  <2> SUFFICES ASSUME IInv, Running PROVE MeasuredAsAsked
    BY DEF MeasuredAsAsked
  <2>1. /\ TypeOK /\ ~options.justOnce /\ failure = "none" /\ ManyInv
        /\ at \notin {"url", "limits", "create"} \cup Exits
    BY DEF IInv, Running, LifeInv
  <2>2. ASSUME reporting
        PROVE  Len(threads) = numThreads /\ NextWith({"new", "stopping", "ended", "joined"}) = 0
    <3>1. at \in {"record", "wait", "stop record"} /\ Len(threads) = numThreads
      BY <2>1, <2>2 DEF ManyInv
    <3>2. \A i \in DOMAIN threads : threads[i].life \in Up
      BY <2>1, <3>1 DEF ManyInv, LivesOfMany
    <3>3. \A i \in DOMAIN threads : threads[i].life \notin {"new", "stopping", "ended", "joined"}
      BY <3>2 DEF Up
    <3> QED BY <2>1, <3>1, <3>3, NextWithIs
  <2>3. ASSUME at \notin {"record", "wait"}
        PROVE  slept = [warmup |-> options.warmup, test |-> options.duration]
    <3>1. at \in {"stop record", "stop", "join", "print"}
      BY <2>1, <2>3 DEF IInv, LimitInv, TypeOK, Calls, ManyInv
    <3>2. slept["warmup"] = options.warmup /\ slept["test"] = options.duration
      BY <2>1, <3>1 DEF IInv, TimeInv
    <3>3. slept \in [{"warmup", "test"} -> Nat]
      BY <2>1 DEF TypeOK
    <3> QED BY <3>2, <3>3
  <2> QED BY <2>2, <2>3 DEF MeasuredAsAsked
<1> QED BY <1>1, Invariance, PTL

\* For all readings that fail but the first and the last of the test: the samples
\* that are reported add up to what was used in it, and to all of its time
\* (cpu_GetUsage, cpu_GetInterval, and where main calls them).
THEOREM SamplesTile == Spec => []SamplesAddUp
<1>1. IInv => SamplesAddUp
  BY DEF IInv, SampleInv, SamplesAddUp, Running
<1> QED BY <1>1, Invariance, PTL

\* With a list of nothing no thread ends, and main leaves with a report only where
\* there is none.
DrawInv ==
  ~listed =>
    /\ \A i \in DOMAIN threads : threads[i].life \notin {"ended", "joined"}
    /\ at = "exit" /\ failure = "none" => threads = <<>>

LEMMA DrawStep ==
  ASSUME IInv, DrawInv, [Next]_vars
  PROVE  DrawInv'
<1>1. /\ TypeOK /\ threads \in Threads /\ DOMAIN threads = 1 .. Len(threads)
      /\ Len(threads) \in Nat
  BY TypeGives DEF IInv
<1>2. CASE InitURLs
  <2>1. threads' = <<>>
    BY <1>2, NoThread DEF InitURLs, IInv, LimitInv
  <2> QED BY <2>1, NoThread DEF DrawInv
<1>3. CASE UNCHANGED <<threads, listed>> /\ at' # "exit"
  BY <1>3 DEF DrawInv
<1>4. CASE SetLimits \/ ThreadsCreated \/ RecordStart \/ Sleep \/ WaitDone \/ RecordStop
           \/ CommandSignals
  <2>1. UNCHANGED <<threads, listed>> /\ at' # "exit"
    BY <1>4 DEF SetLimits, setProcessLimits, Fail, ThreadsCreated, RecordStart, Sleep, WaitDone,
                RecordStop, CommandSignals, setting
  <2> QED BY <1>3, <2>1
<1>5. CASE CreateThread
  <2>1. PICK t \in [connections : {NumConn(Len(threads))}, life : {"starting", "new"}] :
          threads' = Append(threads, t)
    BY <1>5 DEF CreateThread
  <2>2. listed' = listed /\ at' # "exit"
    BY <1>5 DEF CreateThread, Fail, setting
  <2>3. /\ DOMAIN threads' = 1 .. Len(threads) + 1 /\ threads'[Len(threads) + 1] = t
        /\ \A j \in 1 .. Len(threads) : threads'[j] = threads[j]
    BY <1>1, <2>1 DEF Threads
  <2>4. t.life \in {"starting", "new"}
    OBVIOUS
  <2>5. \A j \in 1 .. Len(threads) + 1 : j \in 1 .. Len(threads) \/ j = Len(threads) + 1
    BY <1>1
  <2> QED BY <1>1, <2>2, <2>3, <2>4, <2>5 DEF DrawInv
<1>6. CASE CreateOnly
  <2>1. listed' = listed /\ at' # "exit"
        /\ (UNCHANGED threads \/ threads' = << [connections |-> NumConn(0), life |-> "new"] >>)
    BY <1>6 DEF CreateOnly, Fail, setting
  <2>2. CASE UNCHANGED threads
    BY <1>3, <2>1, <2>2
  <2>3. CASE threads' = << [connections |-> NumConn(0), life |-> "new"] >>
    <3>1. \A j \in DOMAIN threads' : threads'[j].life = "new"
      BY <2>3
    <3> QED BY <2>1, <3>1 DEF DrawInv
  <2> QED BY <2>1, <2>2, <2>3
<1>7. ASSUME NEW i \in DOMAIN threads, NEW life \in Lives, Lives1(i, life),
             UNCHANGED <<at, listed>>, at \notin Exits,
             life \in {"ended", "joined"} => listed
      PROVE  DrawInv'
  <2>1. /\ DOMAIN threads' = DOMAIN threads /\ threads'[i].life = life
        /\ \A j \in DOMAIN threads : j # i => threads'[j] = threads[j]
    BY <1>1, <1>7, LifeIs
  <2> QED BY <1>7, <2>1 DEF DrawInv, Exits
<1>8. CASE StartOnly
  <2>1. Len(threads) = 1
    BY <1>8, TypeGives DEF StartOnly, IInv, LifeInv, ManyInv, OneInv
  <2>2. /\ DOMAIN threads = {1} /\ Lives1(1, "starting") /\ "starting" \in Lives
    BY <1>1, <1>8, <2>1 DEF StartOnly, Lives1, Lives
  <2>3. /\ DOMAIN threads' = DOMAIN threads /\ threads'[1].life = "starting"
    BY <1>1, <2>2, LifeIs
  <2>4. listed' = listed /\ at' = "join"
    BY <1>8 DEF StartOnly, setting
  <2> QED BY <2>2, <2>3, <2>4 DEF DrawInv
<1>9. CASE RequestStop
  <2> DEFINE i == NextWith({"starting", "running"})
  <2>1. at = "stop" /\ UNCHANGED listed
        /\ CASE i = 0 -> at' = "join" /\ UNCHANGED threads
             [] i # 0 /\ threads[i].life = "starting" -> at' = "null loop" /\ UNCHANGED threads
             [] OTHER -> Lives1(i, "stopping") /\ UNCHANGED at
    BY <1>9 DEF RequestStop, setting, Lives1
  <2>2. i = 0 \/ i \in DOMAIN threads
    BY <1>1, NextWithIs
  <2> HIDE DEF i
  <2>3. CASE UNCHANGED threads /\ at' # "exit"
    BY <1>3, <2>1, <2>3
  <2>4. CASE i \in DOMAIN threads /\ Lives1(i, "stopping") /\ UNCHANGED at
    BY <1>7, <2>1, <2>4 DEF Lives, Exits
  <2> QED BY <2>1, <2>2, <2>3, <2>4
<1>10. CASE Join
  <2> DEFINE i == NextWith(Lives \ {"joined"})
  <2>1. at = "join" /\ UNCHANGED listed
        /\ IF i = 0 THEN at' # "exit" /\ UNCHANGED threads
           ELSE threads[i].life = "ended" /\ Lives1(i, "joined") /\ UNCHANGED at
    BY <1>10 DEF Join, setting, Lives1
  <2>2. i = 0 \/ i \in DOMAIN threads
    BY <1>1, NextWithIs
  <2> HIDE DEF i
  <2>3. CASE UNCHANGED threads /\ at' # "exit"
    BY <1>3, <2>1, <2>3
  <2>4. CASE i \in DOMAIN threads /\ threads[i].life = "ended" /\ Lives1(i, "joined")
             /\ UNCHANGED at
    <3>1. listed
      BY <2>4 DEF DrawInv
    <3> QED BY <1>7, <2>1, <2>4, <3>1 DEF Lives, Exits
  <2> QED BY <2>1, <2>2, <2>3, <2>4
<1>11. CASE Leave
  <2>1. at \in {"print", "finished"} /\ UNCHANGED <<threads, listed, failure>>
    BY <1>11 DEF Leave, setting
  <2>2. ASSUME ~listed, failure = "none" PROVE threads = <<>>
    <3>1. at = "print"
      BY <2>1, <2>2 DEF IInv, LimitInv
    <3>2. \A j \in DOMAIN threads : threads[j].life = "joined"
      BY <3>1, TypeGives DEF IInv, LifeInv, ManyInv, OneInv, LivesOfMany, LivesOfOne
    <3>3. DOMAIN threads = {}
      BY <2>2, <3>2 DEF DrawInv
    <3> QED BY <1>1, <3>3 DEF Threads
  <2> QED BY <2>1, <2>2 DEF DrawInv
<1>12. CASE ThreadStep
  <2>1. PICK i \in DOMAIN threads :
          CreateLoop(i) \/ DrawNothing(i) \/ LoopEnds(i) \/ WriteSignals(i)
    BY <1>12 DEF ThreadStep
  <2>2. at \notin Exits /\ UNCHANGED listed
    BY <1>12 DEF ThreadStep, setting
  <2>3. CASE DrawNothing(i) \/ WriteSignals(i)
    BY <1>3, <2>2, <2>3 DEF DrawNothing, WriteSignals
  <2>4. CASE CreateLoop(i)
    BY <1>7, <2>2, <2>4 DEF CreateLoop, Lives1, Lives
  <2>5. CASE LoopEnds(i)
    BY <1>7, <2>2, <2>5 DEF LoopEnds, Lives1, Lives
  <2> QED BY <2>1, <2>3, <2>4, <2>5
<1>13. CASE UNCHANGED vars
  BY <1>13 DEF DrawInv, vars, setting
<1> QED BY <1>2, <1>4, <1>5, <1>6, <1>8, <1>9, <1>10, <1>11, <1>12, <1>13 DEF Next, Main, Idle

\* For all options: each death of the process but the signal has the cause named
\* (~IOThread with a std::thread not joined, a division by NumThreads, RequestStop of
\* no loop, GetNext of an empty list), and an empty list gives no report.
THEOREM DeathsKnown == Spec => []DiesOnlyIf
<1>1. Init => DrawInv
  BY NoThread DEF Init, DrawInv
<1>2. IInv /\ DrawInv /\ [Next]_vars => DrawInv'
  BY DrawStep
<1>3. IInv /\ DrawInv => DiesOnlyIf
  BY DEF IInv, DeathInv, DrawInv, DiesOnlyIf
<1> QED BY <1>1, <1>2, <1>3, Invariance, PTL DEF Spec
=============================================================================
