-------------------------- MODULE MCTelemetryPipeline --------------------------
EXTENDS TelemetryPipeline

Psi(cpu, memory) == <<[cpu_some |-> cpu, memory_some |-> memory, memory_full |-> 0,
                       io_some |-> 0, io_full |-> 0]>>

\* A busy machine: two conditions at once.
Busy == [NoSnapshot EXCEPT
           !.cpu = [total_utilization |-> 90, iowait_percent |-> 0,
                    per_core |-> <<90, 90, 90>>],
           !.memory.utilization_percent = 80,
           !.psi = Psi(20, 10),
           !.processes = <<[pid |-> 1, ppid |-> 0, cpu_percent |-> 1],
                           [pid |-> 7, ppid |-> 1, cpu_percent |-> 89]>>]

\* A quiet one with a hot sensor and without PSI.
Hot == [NoSnapshot EXCEPT
          !.cpu = [total_utilization |-> 3, iowait_percent |-> 0, per_core |-> <<3>>],
          !.memory.utilization_percent = 20,
          !.thermal = <<<<40, 90>>>>]

TheSamples == {Busy, Hot}
TheMeminfos == {<<>>, <<[MemTotal |-> 10, MemFree |-> 2, Buffers |-> 1, Cached |-> 1]>>}
================================================================================
