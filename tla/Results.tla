------------------------------- MODULE Results -------------------------------
(***************************************************************************)
(* The latencies of a run and what ReportResults makes of them             *)
(* (apib_reporting.cc).  They arrive one at a time, each in the Counters   *)
(* object its thread has at that moment; when an object is swapped out the *)
(* next ones go to another.  At any time the report is over all of them.   *)
(***************************************************************************)
EXTENDS Sums, FiniteSets, FiniteSetsExt

CONSTANTS
  Latencies,       \* latencies a request may have, in ticks of the clock
  Millisecond,     \* ticks in a millisecond
  MaxLatencies,    \* bound: requests
  MaxObjects       \* bound: Counters objects

ASSUME ResultsAssumption ==
  /\ Latencies \subseteq Nat
  /\ Millisecond \in Nat \ {0}
  /\ MaxLatencies \in Nat /\ MaxObjects \in Nat \ {0}

VARIABLE accumulatedResults    \* the latencies of each object

NumLatencies == Total([i \in DOMAIN accumulatedResults |-> Len(accumulatedResults[i])])

TypeOK ==
  /\ accumulatedResults \in Seq(Seq(Latencies)) /\ accumulatedResults # <<>>
  /\ NumLatencies <= MaxLatencies

ResultsInit == accumulatedResults = << <<>> >>

\* IOThread::recordResult on the object that is not swapped out yet.
recordResult(latency) ==
  /\ NumLatencies < MaxLatencies
  /\ accumulatedResults' =
       [accumulatedResults EXCEPT ![Len(accumulatedResults)] = Append(@, latency)]

\* RecordStop and ReportIntervalResults keep the object; it may be empty.
exchangeCounters ==
  /\ Len(accumulatedResults) < MaxObjects
  /\ accumulatedResults' = Append(accumulatedResults, <<>>)

ResultsNext ==
  \/ \E latency \in Latencies : recordResult(latency)
  \/ exchangeCounters

ResultsSpec == ResultsInit /\ [][ResultsNext]_accumulatedResults

-----------------------------------------------------------------------------
\* std::sort, by one of the orders of a vector's indices.
Orders == [n \in 0 .. MaxLatencies |-> {p \in [1 .. n -> 1 .. n] : IsInjective(p)}]

Sorted(s) ==
  LET order == CHOOSE p \in Orders[Len(s)] :
                 \A i, j \in 1 .. Len(s) : i < j => s[p[i]] <= s[p[j]]
  IN  [i \in 1 .. Len(s) |-> s[order[i]]]

\* ReportResults: everything in one vector, sorted.
allLatencies == Sorted(FlattenSeq(accumulatedResults))

\* Mutant: counted from one.
getLatencyPercent_OffByOne(latencies, percent) ==
  IF latencies = <<>> THEN 0
  ELSE IF percent = 100 THEN latencies[Len(latencies)]
  ELSE latencies[Max({1, (Len(latencies) * percent) \div 100})]

\* The index is truncated to an integer; a sequence begins with 1.
getLatencyPercent(latencies, percent) ==
  IF latencies = <<>> THEN 0
  ELSE IF percent = 100 THEN latencies[Len(latencies)]
  ELSE latencies[(Len(latencies) * percent) \div 100 + 1]

getAverageLatency(latencies) ==
  IF latencies = <<>> THEN 0 ELSE Total(latencies) \div Len(latencies)

\* Mutant: the average of what the threads' objects average.
AverageInMilliseconds_OfObjects(latencies) ==
  LET averages == [i \in DOMAIN accumulatedResults |->
                     getAverageLatency(accumulatedResults[i])]
  IN  getAverageLatency(averages) \div Millisecond

\* getLatencyStdDev keeps the average in an unsigned long.
AverageInMilliseconds(latencies) == getAverageLatency(latencies) \div Millisecond

\* The sum in getLatencyStdDev, in ticks: the deviation is the square root of
\* this by the number of latencies.
differences(latencies) ==
  LET avg == AverageInMilliseconds(latencies) * Millisecond IN
  Total([i \in DOMAIN latencies |-> (latencies[i] - avg) * (latencies[i] - avg)])

-----------------------------------------------------------------------------
(***************************************************************************)
(* Properties.                                                             *)
(***************************************************************************)
\* How many requests took at most v, whatever object they are in.
CountWithin(s, v) == Cardinality({i \in DOMAIN s : s[i] <= v})
Within(v) ==
  Total([i \in DOMAIN accumulatedResults |-> CountWithin(accumulatedResults[i], v)])

\* The percentiles that ReportResults stores are percentiles of everything
\* measured, from the smallest latency (0) to the largest (100): at least p
\* percent of all requests took no longer, and at most p percent took less.
PercentilesAgree ==
  LET all == allLatencies IN
  NumLatencies > 0 =>
    \A p \in 0 .. 100 :
      LET value == getLatencyPercent(all, p) IN
      /\ Within(value) > Within(value - 1)
      /\ Within(value) * 100 >= p * NumLatencies
      /\ Within(value - 1) * 100 <= p * NumLatencies

\* The standard deviation in the report is never below that of the latencies
\* measured, and its square is above theirs by less than a square millisecond:
\* the average that is cut to whole milliseconds costs no more than that.
\* (Both sides are multiplied by the square of the number of latencies.)
DeviationWithinAMillisecond ==
  LET n == NumLatencies
      all == allLatencies
      squares == Total([i \in 1 .. n |-> all[i] * all[i]])
      exact == n * squares - Total(all) * Total(all)
  IN  n > 0 => /\ exact <= n * differences(all)
               /\ n * differences(all) < exact + n * n * (Millisecond * Millisecond)
=============================================================================
