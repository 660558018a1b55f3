-------------------------- MODULE ApplicationProfiler --------------------------
(***************************************************************************)
(* sysscope::analytics::ApplicationProfiler::profile_command               *)
(* (src/src/analytics/profiler.cpp).                                       *)
(*                                                                         *)
(* The main thread takes a first reading, starts a sampler thread, runs    *)
(* the workload, tells the sampler to stop, joins it, and reads once more  *)
(* where a vector of samples is still empty.  Both threads use the same    *)
(* collectors and vectors without a lock.  The CPU collector and the       *)
(* kernel's counters are those of CpuCollector, with one CPU, whose ticks  *)
(* are also the time.  Of the readings of memory and pressure only the     *)
(* number matters here; a pressure reading always succeeds.                *)
(***************************************************************************)
EXTENDS Integers, Sequences

CONSTANTS Cpus, Topologies, Modulus, MaxTicks,   \* see CpuCollector
          SampleInterval,  \* sample_interval_ms, in ticks
          MaxWorkload      \* bound of the model: ticks until the workload has ended

ASSUME IntervalAssumption == /\ SampleInterval \in Nat \ {0}
                             /\ MaxWorkload \in Nat
                             /\ MaxWorkload + SampleInterval <= MaxTicks
                             /\ MaxTicks \in Nat /\ Modulus \in Nat
                             /\ MaxTicks < Modulus

VARIABLES ticks, sums, online,
          has_previous_state_, previous_aggregate_, previous_cores_, snapshot,
          since, sumsSince, previousOnline, truth,    \* see CpuCollector
          main,             \* the main thread's position
          sampler,          \* the sampler thread's position
          workload_active,
          wakeAt,           \* the time its sleep ends
          cpu_samples,      \* see Sample
          rss_samples,      \* numbers of memory and
          psi_samples,      \* pressure samples
          lastRead          \* history: sums at the last successful reading

Collector == INSTANCE CpuCollector

cpuVars == <<ticks, sums, online, has_previous_state_, previous_aggregate_,
             previous_cores_, snapshot, since, sumsSince, previousOnline, truth>>
samples == <<cpu_samples, rss_samples, psi_samples>>
vars == <<cpuVars, main, sampler, workload_active, wakeAt, samples, lastRead>>

-------------------------------------------------------------------------------
time == Collector!total(sums)

\* A sample of the load, and as history the counters it lies between.
Sample == [used : Nat, whole : Nat, from : Collector!CpuCounters,
           to : Collector!CpuCounters]

\* The positions at which a thread uses collectors or samples.
MainUses == main \in {"baseline", "initial_mem", "fallback_cpu", "fallback_mem", "report"}
SamplerUses == sampler \in {"cpu", "memory", "psi"}

\* cpu_col.collect(), by either thread.
CollectCpu == Collector!CollectFails \/ Collector!CollectFirst \/ Collector!CollectNext

\* A slip: a reading that failed is recorded like the last one that did not.
PushAnyCpuSample ==
    LET share == IF snapshot'.status = "error" THEN snapshot.aggregate ELSE snapshot'.aggregate
    IN  /\ cpu_samples' = Append(cpu_samples, [used |-> share.used, whole |-> share.whole,
                                               from |-> lastRead, to |-> sums])
        /\ lastRead' = sums

\* A reading that succeeded is recorded; the first one shows no load.
PushCpuSample ==
    IF snapshot'.status = "error"
    THEN UNCHANGED <<cpu_samples, lastRead>>
    ELSE /\ cpu_samples' = Append(cpu_samples,
                                  [used  |-> snapshot'.aggregate.used,
                                   whole |-> snapshot'.aggregate.whole,
                                   from  |-> IF snapshot'.status = "first" THEN sums
                                                                           ELSE lastRead,
                                   to    |-> sums])
         /\ lastRead' = sums

-------------------------------------------------------------------------------
Init == /\ Collector!Init
        /\ main = "baseline"
        /\ sampler = "none"
        /\ workload_active = TRUE
        /\ wakeAt = 0
        /\ cpu_samples = <<>> /\ rss_samples = 0 /\ psi_samples = 0
        /\ lastRead = Collector!Zero

\* Time passes, with the CPU busy or not.
Tick == /\ workload_active => time < MaxWorkload
        /\ \E c \in Cpus, k \in Collector!Kinds : Collector!Tick(c, k)
        /\ UNCHANGED <<main, sampler, workload_active, wakeAt, samples, lastRead>>

(* The main thread.                                                        *)

\* The first reading sets the baseline and is not a sample.
Baseline ==
    /\ main = "baseline"
    /\ CollectCpu
    /\ lastRead' = IF snapshot'.status = "error" THEN lastRead ELSE sums
    /\ main' = "initial_mem"
    /\ UNCHANGED <<sampler, workload_active, wakeAt, samples>>

\* The first reading of the memory; then the sampler starts and the workload.
Launch == /\ main = "initial_mem"
          /\ main' = "workload"
          /\ sampler' = "check"
          /\ UNCHANGED <<cpuVars, workload_active, wakeAt, samples, lastRead>>

\* std::system returns.
WorkloadEnds == /\ main = "workload"
                /\ main' = "ended"
                /\ UNCHANGED <<cpuVars, sampler, workload_active, wakeAt, samples, lastRead>>

\* A slip: the sampler is joined without having been told.
StoreNothing == /\ main = "ended"
                /\ main' = "join"
                /\ UNCHANGED <<cpuVars, sampler, workload_active, wakeAt, samples, lastRead>>

StoreInactive == /\ main = "ended"
                 /\ workload_active' = FALSE
                 /\ main' = "join"
                 /\ UNCHANGED <<cpuVars, sampler, wakeAt, samples, lastRead>>

\* A slip: the sampler is left to itself.
JoinNobody == /\ main = "join"
              /\ main' = "fallback_cpu"
              /\ UNCHANGED <<cpuVars, sampler, workload_active, wakeAt, samples, lastRead>>

Join == /\ main = "join"
        /\ sampler = "exited"
        /\ main' = "fallback_cpu"
        /\ UNCHANGED <<cpuVars, sampler, workload_active, wakeAt, samples, lastRead>>

\* A workload too fast for the sampler: one reading after it.
FallbackCpu ==
    /\ main = "fallback_cpu"
    /\ IF cpu_samples = <<>>
       THEN CollectCpu /\ PushCpuSample
       ELSE UNCHANGED <<cpuVars, cpu_samples, lastRead>>
    /\ main' = "fallback_mem"
    /\ UNCHANGED <<sampler, workload_active, wakeAt, rss_samples, psi_samples>>

FallbackMem ==
    /\ main = "fallback_mem"
    /\ rss_samples' \in IF rss_samples = 0 THEN {0, 1} ELSE {rss_samples}
    /\ main' = "report"
    /\ UNCHANGED <<cpuVars, sampler, workload_active, wakeAt, cpu_samples, psi_samples,
                   lastRead>>

\* Averages, peaks and the diagnosis are computed from the samples.
Report == /\ main = "report"
          /\ main' = "done"
          /\ UNCHANGED <<cpuVars, sampler, workload_active, wakeAt, samples, lastRead>>

(* The sampler thread.                                                     *)

\* The loop's condition.
Check == /\ sampler = "check"
         /\ IF workload_active
            THEN sampler' = "sleep" /\ wakeAt' = time + SampleInterval
            ELSE sampler' = "exited" /\ UNCHANGED wakeAt
         /\ UNCHANGED <<cpuVars, main, workload_active, samples, lastRead>>

\* The sleep is over; it cannot be cut short.
Wake == /\ sampler = "sleep"
        /\ time >= wakeAt
        /\ sampler' = IF workload_active THEN "cpu" ELSE "exited"
        /\ UNCHANGED <<cpuVars, main, workload_active, wakeAt, samples, lastRead>>

SampleCpu == /\ sampler = "cpu"
             /\ CollectCpu
             /\ PushCpuSample
             /\ sampler' = "memory"
             /\ UNCHANGED <<main, workload_active, wakeAt, rss_samples, psi_samples>>

\* A reading of the memory may fail.
SampleMemory == /\ sampler = "memory"
                /\ rss_samples' \in {rss_samples, rss_samples + 1}
                /\ sampler' = "psi"
                /\ UNCHANGED <<cpuVars, main, workload_active, wakeAt, cpu_samples,
                               psi_samples, lastRead>>

SamplePsi == /\ sampler = "psi"
             /\ psi_samples' = psi_samples + 1
             /\ sampler' = "check"
             /\ UNCHANGED <<cpuVars, main, workload_active, wakeAt, cpu_samples,
                            rss_samples, lastRead>>

-------------------------------------------------------------------------------
Main == \/ Baseline \/ Launch \/ StoreInactive \/ Join
        \/ FallbackCpu \/ FallbackMem \/ Report

Sampler == Check \/ Wake \/ SampleCpu \/ SampleMemory \/ SamplePsi

Next == Tick \/ Main \/ WorkloadEnds \/ Sampler

Spec == Init /\ [][Next]_vars

\* Both threads are scheduled and time passes; the workload need not end.
FairSpec == Spec /\ WF_vars(Main) /\ WF_vars(Sampler) /\ WF_vars(Tick)

-------------------------------------------------------------------------------
\* Every variable has its type; the sampler exists from the launch on and is gone
\* after the join.
TypeOK == /\ Collector!TypeOK
          /\ main \in {"baseline", "initial_mem", "workload", "ended", "join",
                       "fallback_cpu", "fallback_mem", "report", "done"}
          /\ sampler \in {"none", "check", "sleep", "cpu", "memory", "psi", "exited"}
          /\ workload_active \in BOOLEAN
          /\ wakeAt \in Nat
          /\ cpu_samples \in Seq(Sample)
          /\ rss_samples \in Nat /\ psi_samples \in Nat
          /\ lastRead \in Collector!CpuCounters
          /\ (sampler = "none") <=> (main \in {"baseline", "initial_mem"})
          /\ main \in {"fallback_cpu", "fallback_mem", "report", "done"} => sampler = "exited"

\* The CPU samples lie end to end: each shows the load between two successful
\* readings and the next one starts where it ends, so that no tick enters the
\* average twice or is left out between samples, although readings fail and two
\* threads take them.
SamplesLieEndToEnd ==
    \A i \in 1 .. Len(cpu_samples) :
        LET s == cpu_samples[i]
            start == IF i = 1 THEN s.from ELSE cpu_samples[i - 1].to
        IN  /\ s.from = start
            /\ s.whole = Collector!total(s.to) - Collector!total(start)
            /\ s.used = s.to["user"] - start["user"]

\* The collectors and vectors, which have no lock, are never used by both threads
\* at the same time.
NoSharedUse == ~(MainUses /\ SamplerUses)

\* When the workload has ended, profile_command returns.
ProfileReturns == (main = "ended") ~> (main = "done")
===============================================================================
