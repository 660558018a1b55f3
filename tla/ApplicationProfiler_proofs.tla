---------------------- MODULE ApplicationProfiler_proofs ----------------------
(***************************************************************************)
(* For any CPUs, interval and workload: the profiler's two threads never   *)
(* use its collectors and vectors at the same time, and its samples lie    *)
(* end to end.  The threads meet nowhere but at the creation and at the    *)
(* join, so the first invariant relates their positions.                   *)
(***************************************************************************)
EXTENDS ApplicationProfiler, SequenceTheorems, TLAPS

BeforeLaunch == {"baseline", "initial_mem"}
WhileRunning == {"workload", "ended", "join"}
AfterJoin == {"fallback_cpu", "fallback_mem", "report", "done"}

\* The sampler exists from the launch on and is gone after the join.
ThreadsInv == /\ main \in BeforeLaunch \union WhileRunning \union AfterJoin
              /\ sampler \in {"none", "check", "sleep", "cpu", "memory", "psi", "exited"}
              /\ main \in BeforeLaunch => sampler = "none"
              /\ main \in WhileRunning => sampler # "none"
              /\ main \in AfterJoin => sampler = "exited"

-------------------------------------------------------------------------------
\* Each step of either thread keeps their positions in step.
LEMMA ThreadsStep ==
  ASSUME ThreadsInv, [Next]_vars
  PROVE  ThreadsInv'
<1> USE DEF ThreadsInv, BeforeLaunch, WhileRunning, AfterJoin
<1>1. CASE Tick
  BY <1>1 DEF Tick
<1>2. CASE Baseline
  BY <1>2 DEF Baseline
<1>3. CASE Launch
  BY <1>3 DEF Launch
<1>4. CASE WorkloadEnds
  BY <1>4 DEF WorkloadEnds
<1>5. CASE StoreInactive
  BY <1>5 DEF StoreInactive
<1>6. CASE Join
  BY <1>6 DEF Join
<1>7. CASE FallbackCpu
  BY <1>7 DEF FallbackCpu
<1>8. CASE FallbackMem
  BY <1>8 DEF FallbackMem
<1>9. CASE Report
  BY <1>9 DEF Report
<1>10. CASE Check
  BY <1>10 DEF Check
<1>11. CASE Wake
  BY <1>11 DEF Wake
<1>12. CASE SampleCpu
  BY <1>12 DEF SampleCpu
<1>13. CASE SampleMemory
  BY <1>13 DEF SampleMemory
<1>14. CASE SamplePsi
  BY <1>14 DEF SamplePsi
<1>15. CASE UNCHANGED vars
  BY <1>15 DEF vars
<1> QED
  BY <1>1, <1>2, <1>3, <1>4, <1>5, <1>6, <1>7, <1>8, <1>9, <1>10, <1>11, <1>12,
     <1>13, <1>14, <1>15 DEF Next, Main, Sampler

\* The collectors and the vectors of samples are used by one thread at a time.
THEOREM NoSharedUseCorrect == Spec => []NoSharedUse
<1>1. Init => ThreadsInv
  BY DEF Init, ThreadsInv, BeforeLaunch, WhileRunning, AfterJoin
<1>2. ThreadsInv /\ [Next]_vars => ThreadsInv'
  BY ThreadsStep
<1>3. ThreadsInv => NoSharedUse
  BY DEF ThreadsInv, NoSharedUse, MainUses, SamplerUses, BeforeLaunch, WhileRunning, AfterJoin
<1> QED
  BY <1>1, <1>2, <1>3, PTL DEF Spec

-------------------------------------------------------------------------------
(* The samples.                                                            *)

\* The collector's baseline is the last successful reading, and the kernel's
\* counters have only grown since and do not overflow.
CountersInv ==
    /\ sums \in Collector!CpuCounters /\ lastRead \in Collector!CpuCounters
    /\ time <= MaxTicks
    /\ \A k \in Collector!Kinds : lastRead[k] <= sums[k]
    /\ has_previous_state_ \in BOOLEAN
    /\ has_previous_state_ => previous_aggregate_ = lastRead

\* The last sample ends at that reading; there is none before the launch.
SamplesInv ==
    /\ cpu_samples \in Seq(Sample)
    /\ main \in BeforeLaunch => cpu_samples = <<>>
    /\ cpu_samples # <<>> => /\ has_previous_state_
                             /\ cpu_samples[Len(cpu_samples)].to = lastRead
    /\ SamplesLieEndToEnd

\* The counters are numbers.
LEMMA CountersAreNumbers ==
    ASSUME NEW c \in Collector!CpuCounters
    PROVE  /\ c["user"] \in Nat /\ c["idle"] \in Nat /\ c["iowait"] \in Nat
           /\ Collector!total(c) = c["user"] + c["idle"] + c["iowait"]
           /\ Collector!total(c) \in Nat
           /\ Collector!idle_time(c) = c["idle"] + c["iowait"]
BY DEF Collector!CpuCounters, Collector!Kinds, Collector!total, Collector!idle_time

\* Of counters that have grown and did not overflow, the share is the difference.
LEMMA ShareIsDifference ==
    ASSUME NEW cur \in Collector!CpuCounters, NEW prev \in Collector!CpuCounters,
           \A k \in Collector!Kinds : prev[k] <= cur[k],
           Collector!total(cur) <= MaxTicks
    PROVE  LET share == Collector!DeltaShare(cur, prev)
           IN  /\ share.whole = Collector!total(cur) - Collector!total(prev)
               /\ share.used = cur["user"] - prev["user"]
               /\ share.whole \in Nat /\ share.used \in Nat
<1> DEFINE whole == Collector!total(cur) - Collector!total(prev)
           idle == Collector!idle_time(cur) - Collector!idle_time(prev)
           used == cur["user"] - prev["user"]
<1>1. /\ prev["user"] <= cur["user"] /\ prev["idle"] <= cur["idle"]
      /\ prev["iowait"] <= cur["iowait"]
  BY DEF Collector!Kinds
<1>2. /\ whole \in Nat /\ idle \in Nat /\ used \in Nat
      /\ whole = idle + used
  BY <1>1, CountersAreNumbers
<1>3. /\ Collector!total(cur) >= Collector!total(prev)
      /\ Collector!idle_time(cur) >= Collector!idle_time(prev)
  BY <1>1, CountersAreNumbers
<1>4. /\ Collector!Minus(Collector!total(cur), Collector!total(prev)) = whole
      /\ Collector!Minus(Collector!idle_time(cur), Collector!idle_time(prev)) = idle
      /\ Collector!Minus(whole, idle) = used
  BY <1>2, <1>3 DEF Collector!Minus
<1> HIDE DEF whole, idle, used
<1>5. Collector!Least(whole, used) = used
  BY <1>2 DEF Collector!Least
<1>6. CASE whole = 0
  BY <1>2, <1>4, <1>6 DEF Collector!DeltaShare, Collector!NoShare, whole, used
<1>7. CASE whole # 0
  BY <1>2, <1>4, <1>5, <1>7 DEF Collector!DeltaShare, whole, used
<1> QED
  BY <1>6, <1>7

\* A reading of the CPU: it fails and changes nothing that matters here, or it makes
\* the present counters the baseline.
LEMMA Reading ==
    ASSUME CollectCpu
    PROVE  /\ UNCHANGED sums
           /\ \/ /\ snapshot'.status = "error"
                 /\ UNCHANGED <<has_previous_state_, previous_aggregate_>>
              \/ /\ snapshot'.status = "first" /\ ~has_previous_state_
                 /\ has_previous_state_' = TRUE /\ previous_aggregate_' = sums
                 /\ snapshot'.aggregate = Collector!NoShare
              \/ /\ snapshot'.status = "ok" /\ has_previous_state_
                 /\ has_previous_state_' = TRUE /\ previous_aggregate_' = sums
                 /\ snapshot'.aggregate = Collector!DeltaShare(sums, previous_aggregate_)
<1>1. CASE Collector!CollectFails
  BY <1>1 DEF Collector!CollectFails, Collector!NoSnapshot, Collector!kernel,
              Collector!baseline
<1>2. CASE Collector!CollectFirst
  BY <1>2 DEF Collector!CollectFirst, Collector!UpdateBaseline, Collector!kernel
<1>3. CASE Collector!CollectNext
  BY <1>3 DEF Collector!CollectNext, Collector!UpdateBaseline, Collector!kernel
<1> QED
  BY <1>1, <1>2, <1>3 DEF CollectCpu

\* A recorded reading starts where the last sample ended.
LEMMA PushKeepsSamples ==
    ASSUME CountersInv, SamplesInv, CollectCpu, PushCpuSample, main' \notin BeforeLaunch
    PROVE  CountersInv' /\ SamplesInv'
<1> USE DEF BeforeLaunch
<1>1. /\ sums \in Collector!CpuCounters /\ lastRead \in Collector!CpuCounters
      /\ has_previous_state_ \in BOOLEAN /\ cpu_samples \in Seq(Sample)
  BY DEF CountersInv, SamplesInv
<1>2. CASE snapshot'.status = "error"
  <2>1. UNCHANGED <<sums, lastRead, cpu_samples, has_previous_state_, previous_aggregate_>>
    BY <1>2, Reading DEF PushCpuSample
  <2> QED
    BY <2>1 DEF CountersInv, SamplesInv, SamplesLieEndToEnd, time
<1>3. CASE snapshot'.status # "error"
  <2> DEFINE new == [used  |-> snapshot'.aggregate.used,
                     whole |-> snapshot'.aggregate.whole,
                     from  |-> IF snapshot'.status = "first" THEN sums ELSE lastRead,
                     to    |-> sums]
  <2>1. /\ cpu_samples' = Append(cpu_samples, new)
        /\ lastRead' = sums /\ sums' = sums
        /\ has_previous_state_' = TRUE /\ previous_aggregate_' = sums
    BY <1>3, Reading DEF PushCpuSample
  <2>2. CountersInv'
    <3>1. \A k \in Collector!Kinds : sums[k] \in Nat
      BY <1>1 DEF Collector!CpuCounters
    <3> QED
      BY <2>1, <3>1 DEF CountersInv, time
  <2>3. /\ new \in Sample
        /\ new.to = sums
        /\ new.whole = Collector!total(new.to) - Collector!total(new.from)
        /\ new.used = new.to["user"] - new.from["user"]
        /\ cpu_samples # <<>> => new.from = cpu_samples[Len(cpu_samples)].to
    <3>1. CASE snapshot'.status = "first"
      <4>1. ~has_previous_state_ /\ snapshot'.aggregate = Collector!NoShare
        BY <3>1, Reading
      <4>2. cpu_samples = <<>>
        BY <4>1 DEF SamplesInv
      <4>3. new = [used |-> 0, whole |-> 0, from |-> sums, to |-> sums]
        BY <3>1, <4>1 DEF Collector!NoShare
      <4>4. sums["user"] \in Nat /\ Collector!total(sums) \in Nat
        BY <1>1, CountersAreNumbers
      <4> HIDE DEF new
      <4> QED
        BY <1>1, <4>2, <4>3, <4>4 DEF Sample
    <3>2. CASE snapshot'.status # "first"
      <4>1. /\ has_previous_state_
            /\ snapshot'.aggregate = Collector!DeltaShare(sums, previous_aggregate_)
        BY <1>3, <3>2, Reading
      <4>2. /\ previous_aggregate_ = lastRead
            /\ \A k \in Collector!Kinds : lastRead[k] <= sums[k]
            /\ Collector!total(sums) <= MaxTicks
        BY <4>1 DEF CountersInv, time
      <4> DEFINE share == Collector!DeltaShare(sums, lastRead)
      <4>3. /\ share.whole = Collector!total(sums) - Collector!total(lastRead)
            /\ share.used = sums["user"] - lastRead["user"]
            /\ share.whole \in Nat /\ share.used \in Nat
        BY <1>1, <4>2, ShareIsDifference
      <4>4. cpu_samples # <<>> => lastRead = cpu_samples[Len(cpu_samples)].to
        BY DEF SamplesInv
      <4> HIDE DEF share
      <4>5. new = [used |-> share.used, whole |-> share.whole, from |-> lastRead,
                   to |-> sums]
        BY <3>2, <4>1, <4>2 DEF share
      <4> HIDE DEF new
      <4> QED
        BY <1>1, <4>3, <4>4, <4>5 DEF Sample
    <3> QED
      BY <3>1, <3>2
  <2> HIDE DEF new
  <2> DEFINE count == Len(cpu_samples)
  <2>4. /\ cpu_samples' \in Seq(Sample) /\ count \in Nat
        /\ Len(cpu_samples') = count + 1
        /\ \A i \in 1 .. count : cpu_samples'[i] = cpu_samples[i]
        /\ cpu_samples'[count + 1] = new
    BY <1>1, <2>1, <2>3, AppendProperties, LenProperties
  <2>5. count # 0 => cpu_samples # <<>>
    BY EmptySeq
  <2> HIDE DEF count
  <2>6. ASSUME NEW i \in 1 .. count + 1
        PROVE  LET s == cpu_samples'[i]
                   start == IF i = 1 THEN s.from ELSE cpu_samples'[i - 1].to
               IN  /\ s.from = start
                   /\ s.whole = Collector!total(s.to) - Collector!total(start)
                   /\ s.used = s.to["user"] - start["user"]
    <3>1. CASE i \in 1 .. count
      <4>1. i # 1 => i - 1 \in 1 .. count
        BY <3>1, <2>4
      <4>2. cpu_samples'[i] = cpu_samples[i]
            /\ (i # 1 => cpu_samples'[i - 1] = cpu_samples[i - 1])
        BY <3>1, <4>1, <2>4
      <4>3. LET s == cpu_samples[i]
                start == IF i = 1 THEN s.from ELSE cpu_samples[i - 1].to
            IN  /\ s.from = start
                /\ s.whole = Collector!total(s.to) - Collector!total(start)
                /\ s.used = s.to["user"] - start["user"]
        BY <3>1 DEF SamplesInv, SamplesLieEndToEnd, count
      <4> QED
        BY <4>2, <4>3
    <3>2. CASE i = count + 1
      <4>1. cpu_samples'[i] = new
        BY <3>2, <2>4
      <4>2. CASE i = 1
        BY <4>1, <4>2, <2>3
      <4>3. CASE i # 1
        <5>1. i - 1 = count /\ count # 0 /\ count \in 1 .. count
          BY <3>2, <4>3, <2>4
        <5>2. cpu_samples'[i - 1] = cpu_samples[count]
          BY <5>1, <2>4
        <5>3. new.from = cpu_samples'[i - 1].to
          BY <5>1, <5>2, <2>3, <2>5 DEF count
        <5> QED
          BY <4>1, <4>3, <5>3, <2>3
      <4> QED
        BY <4>2, <4>3
    <3>3. i \in 1 .. count \/ i = count + 1
      BY <2>4
    <3> QED
      BY <3>1, <3>2, <3>3
  <2>7. SamplesLieEndToEnd'
    BY <2>4, <2>6 DEF SamplesLieEndToEnd
  <2> QED
    BY <2>1, <2>2, <2>3, <2>4, <2>7 DEF SamplesInv
<1> QED
  BY <1>2, <1>3

\* The other steps of the two threads leave samples and counters alone.
LEMMA OtherSteps ==
    ASSUME ThreadsInv, CountersInv, SamplesInv,
           UNCHANGED <<cpuVars, cpu_samples, lastRead>>,
           main \notin BeforeLaunch => main' \notin BeforeLaunch
    PROVE  CountersInv' /\ SamplesInv'
BY DEF CountersInv, SamplesInv, SamplesLieEndToEnd, cpuVars, time

\* Each step keeps the samples end to end.
LEMMA SamplesStep ==
    ASSUME ThreadsInv, CountersInv, SamplesInv, [Next]_vars
    PROVE  CountersInv' /\ SamplesInv'
<1> USE DEF BeforeLaunch
<1>1. CASE Tick
  <2>1. PICK c \in Cpus, k \in Collector!Kinds : Collector!Tick(c, k)
    BY <1>1 DEF Tick
  <2>2. /\ sums' = [sums EXCEPT ![k] = @ + 1] /\ Collector!total(sums) < MaxTicks
        /\ UNCHANGED <<has_previous_state_, previous_aggregate_>>
    BY <2>1 DEF Collector!Tick, Collector!baseline
  <2>3. UNCHANGED <<main, cpu_samples, lastRead>>
    BY <1>1 DEF Tick, samples
  <2>4. sums' \in Collector!CpuCounters /\ \A j \in Collector!Kinds : lastRead[j] <= sums'[j]
    BY <2>2 DEF CountersInv, Collector!CpuCounters
  <2>5. time' <= MaxTicks
    <3>1. sums'["user"] + sums'["idle"] + sums'["iowait"]
             = sums["user"] + sums["idle"] + sums["iowait"] + 1
      BY <2>2 DEF CountersInv, Collector!CpuCounters, Collector!Kinds
    <3>2. /\ Collector!total(sums) \in Nat /\ MaxTicks \in Nat
          /\ Collector!total(sums') = Collector!total(sums) + 1
      BY <2>4, <3>1, CountersAreNumbers, IntervalAssumption DEF CountersInv
    <3> QED
      BY <2>2, <3>2 DEF time
  <2> QED
    BY <2>2, <2>3, <2>4, <2>5 DEF CountersInv, SamplesInv, SamplesLieEndToEnd
<1>2. CASE Baseline
  <2>1. /\ CollectCpu /\ main \in BeforeLaunch /\ cpu_samples' = cpu_samples
        /\ lastRead' = IF snapshot'.status = "error" THEN lastRead ELSE sums
    BY <1>2 DEF Baseline, samples
  <2>2. cpu_samples = <<>>
    BY <2>1 DEF SamplesInv
  <2>3. SamplesInv'
    BY <2>1, <2>2, EmptySeq DEF SamplesInv, SamplesLieEndToEnd
  <2>4. \A k \in Collector!Kinds : sums[k] \in Nat
    BY DEF CountersInv, Collector!CpuCounters
  <2>5. CountersInv'
    <3>1. CASE snapshot'.status = "error"
      <4>1. UNCHANGED <<sums, lastRead, has_previous_state_, previous_aggregate_>>
        BY <2>1, <3>1, Reading
      <4> QED
        BY <4>1 DEF CountersInv, time
    <3>2. CASE snapshot'.status # "error"
      <4>1. /\ sums' = sums /\ lastRead' = sums
            /\ has_previous_state_' = TRUE /\ previous_aggregate_' = sums
        BY <2>1, <3>2, Reading
      <4> QED
        BY <2>4, <4>1 DEF CountersInv, time
    <3> QED
      BY <3>1, <3>2
  <2> QED
    BY <2>3, <2>5
<1>3. CASE SampleCpu
  BY <1>3, PushKeepsSamples DEF SampleCpu, ThreadsInv
<1>4. CASE FallbackCpu
  <2>1. main \notin BeforeLaunch /\ main' \notin BeforeLaunch
    BY <1>4 DEF FallbackCpu
  <2>2. CASE cpu_samples = <<>>
    BY <1>4, <2>1, <2>2, PushKeepsSamples DEF FallbackCpu
  <2>3. CASE cpu_samples # <<>>
    BY <1>4, <2>1, <2>3, OtherSteps DEF FallbackCpu
  <2> QED
    BY <2>2, <2>3
<1>5. CASE Launch
  <2>1. UNCHANGED <<cpuVars, cpu_samples, lastRead>> /\ main' = "workload"
    BY <1>5 DEF Launch, samples
  <2> QED
    BY <2>1, OtherSteps
<1>6. CASE WorkloadEnds \/ StoreInactive \/ Join \/ FallbackMem \/ Report
  <2>1. UNCHANGED <<cpuVars, cpu_samples, lastRead>> /\ main' \notin BeforeLaunch
    BY <1>6 DEF WorkloadEnds, StoreInactive, Join, FallbackMem, Report, samples
  <2> QED
    BY <2>1, OtherSteps
<1>7. CASE Check \/ Wake \/ SampleMemory \/ SamplePsi \/ UNCHANGED vars
  <2>1. UNCHANGED <<cpuVars, cpu_samples, lastRead, main>>
    BY <1>7 DEF Check, Wake, SampleMemory, SamplePsi, vars, samples
  <2> QED
    BY <2>1, OtherSteps
<1> QED
  BY <1>1, <1>2, <1>3, <1>4, <1>5, <1>6, <1>7 DEF Next, Main, Sampler

\* The samples lie end to end, whatever readings fail and whichever thread takes
\* them (profiler.cpp:49-87): no tick enters the average twice or is left out.
THEOREM SamplesCorrect == Spec => []SamplesLieEndToEnd
<1>1. Init => ThreadsInv /\ CountersInv /\ SamplesInv
  <2> SUFFICES ASSUME Init
               PROVE  ThreadsInv /\ CountersInv /\ SamplesInv
    OBVIOUS
  <2>1. ThreadsInv
    BY DEF Init, ThreadsInv, BeforeLaunch, WhileRunning, AfterJoin
  <2>2. /\ sums = Collector!Zero /\ lastRead = Collector!Zero
        /\ has_previous_state_ = FALSE /\ cpu_samples = <<>>
    BY DEF Init, Collector!Init
  <2>3. Collector!Zero \in Collector!CpuCounters /\ Collector!total(Collector!Zero) = 0
    BY DEF Collector!Zero, Collector!CpuCounters, Collector!total, Collector!Kinds
  <2>4. CountersInv
    <3>1. \A k \in Collector!Kinds : Collector!Zero[k] <= Collector!Zero[k]
      BY DEF Collector!Zero
    <3>2. time <= MaxTicks
      BY <2>2, <2>3, IntervalAssumption DEF time
    <3> QED
      BY <2>2, <2>3, <3>1, <3>2 DEF CountersInv
  <2>5. SamplesInv
    BY <2>2, EmptySeq DEF SamplesInv, SamplesLieEndToEnd
  <2> QED
    BY <2>1, <2>4, <2>5
<1>2. ThreadsInv /\ CountersInv /\ SamplesInv /\ [Next]_vars
         => (ThreadsInv /\ CountersInv /\ SamplesInv)'
  BY ThreadsStep, SamplesStep
<1>3. SamplesInv => SamplesLieEndToEnd
  BY DEF SamplesInv
<1> QED
  BY <1>1, <1>2, <1>3, PTL DEF Spec
===============================================================================
