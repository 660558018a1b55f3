---------------------------- MODULE MetricSnapshot ----------------------------
(***************************************************************************)
(* sysscope::core::MetricSnapshot (src/include/sysscope/core/snapshot.hpp) *)
(* and the collectors without a state of their own, which turn one file or *)
(* directory of the kernel into one part of it (src/src/collectors/        *)
(* memory.cpp, psi.cpp, thermal.cpp).                                      *)
(*                                                                         *)
(* A std::optional, a core::Result and the content of a file that may be   *)
(* unreadable are sequences of at most one element.  Percentages, degrees  *)
(* and sizes are whole numbers.  Of a pressure line only avg10 is kept.    *)
(***************************************************************************)
EXTENDS Integers, Sequences

Has(optional) == optional # <<>>
Value(optional) == optional[1]

Least(a, b) == IF a <= b THEN a ELSE b

-------------------------------------------------------------------------------
\* The initial values of the structs.  Of a process only its place in the tree
\* and its usage are kept, of a disk only how busy it is.
NoCpu == [total_utilization |-> 0, iowait_percent |-> 0, per_core |-> <<>>]
NoMemory == [total_bytes |-> 0, available_bytes |-> 0, used_bytes |-> 0,
             swap_used_bytes |-> 0, utilization_percent |-> 0]
NoSnapshot == [timestamp |-> 0, cpu |-> NoCpu, memory |-> NoMemory, processes |-> <<>>,
               gpu |-> <<>>, thermal |-> <<>>, psi |-> <<>>, disk |-> <<>>]

(* MemoryCollector.                                                        *)

\* operator[] of a map: 0 for a field that is not there.
Field(fields, key) == IF key \in DOMAIN fields THEN fields[key] ELSE 0

\* MemAvailable; in its absence, or when it is 0, what is free or cached.
Available(fields) ==
    IF Field(fields, "MemAvailable") = 0 /\ Field(fields, "MemTotal") > 0
    THEN Field(fields, "MemFree") + Field(fields, "Buffers") + Field(fields, "Cached")
    ELSE Field(fields, "MemAvailable")

\* A difference that is never negative.
Excess(a, b) == IF a > b THEN a - b ELSE 0

MemoryOf(fields) ==
    LET total == Field(fields, "MemTotal")
        used  == Excess(total, Available(fields))
    IN  [total_bytes         |-> total,
         available_bytes     |-> Available(fields),
         used_bytes          |-> used,
         swap_used_bytes     |-> Excess(Field(fields, "SwapTotal"), Field(fields, "SwapFree")),
         utilization_percent |-> IF total > 0 THEN Least(100, (100 * used) \div total) ELSE 0]

CollectMemory(meminfo) == IF Has(meminfo) THEN <<MemoryOf(Value(meminfo))>> ELSE <<>>

(* PsiCollector; it never fails.                                           *)

Avg10(file, line) == IF Has(file) THEN Field(Value(file), line) ELSE 0

CollectPsi(pressure) ==
    <<[cpu_some    |-> Avg10(pressure["cpu"], "some"),
       memory_some |-> Avg10(pressure["memory"], "some"),
       memory_full |-> Avg10(pressure["memory"], "full"),
       io_some     |-> Avg10(pressure["io"], "some"),
       io_full     |-> Avg10(pressure["io"], "full")]>>

(* ThermalCollector.                                                       *)

\* The kernel reports thousandths of a degree; small values are taken as degrees.
Celsius(raw) == IF raw > 1000 THEN raw \div 1000 ELSE raw

Sensor(entry) == entry.zone /\ Has(entry.type) /\ Has(entry.temp)

\* The temperatures of the thermal zones whose two files can be read.
Temperatures(entries) ==
    LET zones[n \in 0 .. Len(entries)] ==
            IF n = 0 THEN <<>>
            ELSE IF Sensor(entries[n])
            THEN Append(zones[n - 1], Celsius(Value(entries[n].temp)))
            ELSE zones[n - 1]
    IN  zones[Len(entries)]

CollectThermal(entries) == IF Has(entries) THEN <<Temperatures(Value(entries))>> ELSE <<>>
===============================================================================
