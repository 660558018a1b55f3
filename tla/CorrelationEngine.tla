--------------------------- MODULE CorrelationEngine ---------------------------
(***************************************************************************)
(* sysscope::analytics::CorrelationEngine                                  *)
(* (src/src/analytics/correlation.cpp).                                    *)
(*                                                                         *)
(* analyze is a pure function of one snapshot: four rules, each of which   *)
(* either adds a diagnosis or does not.  A contribution of 0.40 is 40.     *)
(***************************************************************************)
EXTENDS MetricSnapshot, SequencesExt

Highest(S) == CHOOSE x \in S : \A y \in S : y <= x

-------------------------------------------------------------------------------
\* The evidence of a metric above its threshold, or none.
Signal(metric, observed, threshold, contribution) ==
    IF observed > threshold
    THEN <<[metric |-> metric, observed_value |-> observed, threshold |-> threshold,
            contribution |-> contribution]>>
    ELSE <<>>

\* Contributions add up; confidence is at most 1.
Diagnosis(condition, evidence) ==
    LET sum == FoldLeft(LAMBDA acc, e : acc + e.contribution, 0, evidence)
    IN  [condition |-> condition, evidence |-> evidence,
         confidence |-> Least(100, sum)]

\* A diagnosis when all of the required evidence is there.
Rule(condition, required, further) ==
    IF \A i \in 1 .. Len(required) : required[i] # <<>>
    THEN <<Diagnosis(condition, FlattenSeq(required) \o further)>>
    ELSE <<>>

\* The pressure of a snapshot without PSI raises nothing.
Pressure(s, metric) == IF Has(s.psi) THEN Value(s.psi)[metric] ELSE 0

\* A slip: only the first zone is looked at.
MaxTempFirst(s) ==
    IF Has(s.thermal) /\ Value(s.thermal) # <<>> THEN Head(Value(s.thermal)) ELSE 0

\* The highest temperature of GPU and zones, from 0 up.
MaxTemp(s) ==
    Highest({0} \union (IF Has(s.gpu) THEN {Value(s.gpu).temperature_celsius} ELSE {})
                \union (IF Has(s.thermal)
                        THEN {Value(s.thermal)[i] : i \in 1 .. Len(Value(s.thermal))}
                        ELSE {}))

\* Rule 1.  It asks for a GPU or a list of cores before it looks at the zones.
ThermalThrottling(s) ==
    IF Has(s.gpu) \/ s.cpu.per_core # <<>>
    THEN Rule("THERMAL THROTTLING",
              <<Signal("Temperature", MaxTemp(s), 75, 40)>>,
              Signal("CpuUtilization", s.cpu.total_utilization, 80, 25)
              \o IF Has(s.gpu)
                 THEN Signal("GpuUtilization", Value(s.gpu).utilization_percent, 85, 25)
                 ELSE <<>>)
    ELSE <<>>

\* Rule 2.
MemoryContention(s) ==
    Rule("MEMORY CONTENTION & PRESSURE",
         <<Signal("PsiMemorySome", Pressure(s, "memory_some"), 5, 50),
           Signal("MemoryUtilization", s.memory.utilization_percent, 70, 35)>>,
         <<>>)

\* Rule 3.
IoBottleneck(s) ==
    Rule("I/O BOTTLENECK",
         <<Signal("PsiIoSome", Pressure(s, "io_some"), 5, 55)>>,
         Signal("CpuUtilization", s.cpu.iowait_percent, 10, 35))

\* Rule 4.
CpuContention(s) ==
    Rule("CPU SCHEDULING CONTENTION",
         <<Signal("PsiCpuSome", Pressure(s, "cpu_some"), 5, 50),
           Signal("CpuUtilization", s.cpu.total_utilization, 75, 40)>>,
         <<>>)

analyze(s) == ThermalThrottling(s) \o MemoryContention(s) \o IoBottleneck(s)
              \o CpuContention(s)
===============================================================================
