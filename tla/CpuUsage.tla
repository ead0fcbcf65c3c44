------------------------------- MODULE CpuUsage -------------------------------
(***************************************************************************)
(* The CPU statistics that main reports for its own machine                *)
(* (apib_cpu_proc.cc): the kernel counts ticks in the columns of the first *)
(* line of /proc/stat; two readings make a sample, the usage and the ticks *)
(* in which it was.                                                        *)
(***************************************************************************)
EXTENDS Sums, FiniteSetsExt

\* user, nice, system, idle, iowait, irq, softirq, steal, guest, guest_nice
Columns == 1 .. 10

\* The columns that getTicks counts as idle, from 0 in the code.
IdleColumns == {4, 5, 8}

TicksIn(stat, columns) ==
  Total([c \in Columns |-> IF c \in columns THEN stat[c] ELSE 0])

\* cpu_Count: "processor" lines of /proc/cpuinfo, if there are any.
cpu_Count(processors) == Max({processors, 1})

getTicks(stat) ==
  [idle |-> TicksIn(stat, IdleColumns), nonIdle |-> TicksIn(stat, Columns \ IdleColumns)]

\* The static cpuUsage, and the local one of a thread of apibmon, before they are read.
NoUsage == [idle |-> 0, nonIdle |-> 0]

\* Mutant: once it has been read it is not read anew, not even after the warm-up.
cpu_GetUsage_Once(old, stat, readable) ==
  IF readable /\ old = NoUsage THEN getTicks(stat) ELSE old

\* /proc/stat cannot be opened, for want of a descriptor: what was read before stays.
cpu_GetUsage(old, stat, readable) == IF readable THEN getTicks(stat) ELSE old

\* The sample that cpu_GetInterval returns, a quotient.  Nothing by nothing, and
\* what cannot be read, are returned as zero.
cpu_GetInterval(old, stat, readable) ==
  LET new == getTicks(stat)
      usageTicks == new.nonIdle - old.nonIdle
  IN  IF readable
      THEN [usage |-> usageTicks, all |-> new.idle - old.idle + usageTicks]
      ELSE [usage |-> 0, all |-> 0]

Usages(samples) == Total([k \in DOMAIN samples |-> samples[k].usage])
Ticks(samples) == Total([k \in DOMAIN samples |-> samples[k].all])
=============================================================================
