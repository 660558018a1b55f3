----------------------------- MODULE CpuCollector -----------------------------
(***************************************************************************)
(* sysscope::collectors::CpuCollector (src/src/collectors/cpu.cpp).        *)
(*                                                                         *)
(* The kernel counts the ticks each CPU spends busy, idle and waiting for  *)
(* I/O; /proc/stat shows their sums over all CPUs in its first line and    *)
(* then one line for each CPU that is online.  collect reads the file and  *)
(* reports, for the sums and for each line, the shares of the interval     *)
(* since the last successful read.  Lines of two reads are paired by their *)
(* position.  A share is kept as the fraction the code divides out: ticks  *)
(* over the ticks of the interval.                                         *)
(*                                                                         *)
(* The six kinds of busy time (user, nice, system, irq, softirq, steal)    *)
(* enter total() and the snapshot in the same way; "user" stands for them. *)
(***************************************************************************)
EXTENDS Integers, Sequences

CONSTANTS Cpus,
          Topologies,  \* the lists of CPUs that /proc/stat may show
          Modulus,     \* uint64_t arithmetic is modulo this
          MaxTicks     \* bound of the model: ticks of all CPUs together

ASSUME ConstAssumption == /\ Topologies \subseteq Seq(Cpus)
                          /\ MaxTicks \in Nat
                          /\ Modulus \in Nat
                          /\ MaxTicks < Modulus

VARIABLES ticks,                \* the kernel's counters of each CPU
          sums,                 \* the kernel's counters of all CPUs together
          online,               \* the CPUs that have a line, in order
          has_previous_state_,
          previous_aggregate_,
          previous_cores_,
          snapshot,             \* what the last call of collect returned
          since,                \* history: ticks of each CPU since the last
          sumsSince,            \* successful read, and of all together
          previousOnline,       \* history: the lines of that read
          truth                 \* history: what the last snapshot should show

kernel == <<ticks, sums, online>>
baseline == <<has_previous_state_, previous_aggregate_, previous_cores_>>
history == <<since, sumsSince, previousOnline, truth>>
vars == <<kernel, baseline, snapshot, history>>

-------------------------------------------------------------------------------
Kinds == {"user", "idle", "iowait"}

CpuCounters == [Kinds -> Nat]
Zero == [k \in Kinds |-> 0]

total(c) == c["user"] + c["idle"] + c["iowait"]

\* A slip: time spent waiting for I/O is not idle.
idle_time_only(c) == c["idle"]

idle_time(c) == c["idle"] + c["iowait"]

\* Unsigned subtraction.
Minus(a, b) == IF a >= b THEN a - b ELSE a - b + Modulus

Least(a, b) == IF a <= b THEN a ELSE b

\* The percentages of a line as fractions of whole; all 0 when no tick passed.
Share == [whole : Nat, used : Nat, user : Nat, iowait : Nat]
NoShare == [whole |-> 0, used |-> 0, user |-> 0, iowait |-> 0]

\* The deltas of two readings of a line.
DeltaShare(cur, prev) ==
    LET total_delta == Minus(total(cur), total(prev))
        idle_delta  == Minus(idle_time(cur), idle_time(prev))
    IN  IF total_delta = 0
        THEN NoShare
        ELSE [whole  |-> total_delta,
              used   |-> Least(total_delta, Minus(total_delta, idle_delta)),
              user   |-> Minus(cur["user"], prev["user"]),
              iowait |-> Minus(cur["iowait"], prev["iowait"])]

\* The per-CPU lines of /proc/stat.
CoreLines == [i \in 1 .. Len(online) |-> ticks[online[i]]]

NoSnapshot == [status |-> "none", aggregate |-> NoShare, per_core |-> <<>>]

-------------------------------------------------------------------------------
Init == /\ ticks = [c \in Cpus |-> Zero]
        /\ sums = Zero
        /\ online \in Topologies
        /\ has_previous_state_ = FALSE
        /\ previous_aggregate_ = Zero
        /\ previous_cores_ = <<>>
        /\ snapshot = NoSnapshot
        /\ since = [c \in Cpus |-> Zero]
        /\ sumsSince = Zero
        /\ previousOnline = <<>>
        /\ truth = [aggregate |-> NoShare, per_core |-> <<>>]

\* A tick of an online CPU.
Tick(c, k) ==
    /\ \E i \in 1 .. Len(online) : online[i] = c
    /\ total(sums) < MaxTicks
    /\ ticks' = [ticks EXCEPT ![c][k] = @ + 1]
    /\ sums' = [sums EXCEPT ![k] = @ + 1]
    /\ since' = [since EXCEPT ![c][k] = @ + 1]
    /\ sumsSince' = [sumsSince EXCEPT ![k] = @ + 1]
    /\ UNCHANGED <<online, baseline, snapshot, previousOnline, truth>>

\* CPUs are taken offline or brought online; their counters stay.
HotPlug == /\ online' \in Topologies
           /\ UNCHANGED <<ticks, sums, baseline, snapshot, history>>

\* collect when /proc/stat cannot be read.
CollectFails ==
    /\ snapshot' = [NoSnapshot EXCEPT !.status = "error"]
    /\ UNCHANGED <<kernel, baseline, history>>

\* A slip: the baseline of the cores is kept from the first read.
UpdateAggregateOnly == /\ previous_aggregate_' = sums
                       /\ previous_cores_' = IF has_previous_state_ THEN previous_cores_
                                                                    ELSE CoreLines
                       /\ has_previous_state_' = TRUE

UpdateBaseline == /\ previous_aggregate_' = sums
                  /\ previous_cores_' = CoreLines
                  /\ has_previous_state_' = TRUE

\* The shares of an interval in which the ticks c passed.
TrueShare(c) == [whole  |-> c["user"] + c["idle"] + c["iowait"],
                 used   |-> c["user"],
                 user   |-> c["user"],
                 iowait |-> c["iowait"]]

\* What the interval since the last successful read really was.
RecordTruth ==
    /\ truth' = [aggregate |-> TrueShare(sumsSince),
                 per_core  |-> IF previousOnline = online
                               THEN [i \in 1 .. Len(online) |-> TrueShare(since[online[i]])]
                               ELSE <<>>]
    /\ since' = [c \in Cpus |-> Zero]
    /\ sumsSince' = Zero
    /\ previousOnline' = online

\* The first successful read sets the baseline and reports no usage.
CollectFirst ==
    /\ ~has_previous_state_
    /\ snapshot' = [status    |-> "first",
                    aggregate |-> NoShare,
                    per_core  |-> [i \in 1 .. Len(online) |-> NoShare]]
    /\ UpdateBaseline
    /\ RecordTruth
    /\ UNCHANGED kernel

\* Every later one reports deltas.  A line beyond those of the last read shows
\* no usage.
CollectNext ==
    /\ has_previous_state_
    /\ snapshot' = [status    |-> "ok",
                    aggregate |-> DeltaShare(sums, previous_aggregate_),
                    per_core  |-> [i \in 1 .. Len(online) |->
                                      IF i <= Len(previous_cores_)
                                      THEN DeltaShare(CoreLines[i], previous_cores_[i])
                                      ELSE NoShare]]
    /\ UpdateBaseline
    /\ RecordTruth
    /\ UNCHANGED kernel

Next == \/ \E c \in Cpus, k \in Kinds : Tick(c, k)
        \/ HotPlug
        \/ CollectFails \/ CollectFirst \/ CollectNext

Spec == Init /\ [][Next]_vars
-------------------------------------------------------------------------------
\* Every variable has its type; a baseline and the snapshot have a share for
\* each line.
TypeOK == /\ ticks \in [Cpus -> CpuCounters] /\ since \in [Cpus -> CpuCounters]
          /\ sums \in CpuCounters /\ sumsSince \in CpuCounters
          /\ total(sums) <= MaxTicks
          /\ online \in Topologies
          /\ previousOnline \in Seq(Cpus)
          /\ has_previous_state_ \in BOOLEAN
          /\ previous_aggregate_ \in CpuCounters
          /\ previous_cores_ \in Seq(CpuCounters)
          /\ snapshot \in [status : {"none", "error", "first", "ok"},
                           aggregate : Share, per_core : Seq(Share)]
          /\ truth \in [aggregate : Share, per_core : Seq(Share)]

\* Utilization is computed strictly over time deltas (telemetry-pipeline.md):
\* the total of a snapshot is the load of the interval since the last successful
\* read, however many reads failed in between and whatever CPUs came and went.
AggregateIsTrue ==
    snapshot.status = "ok" => snapshot.aggregate = truth.aggregate

\* So is the share of every line, provided the same CPUs have lines as at that
\* read; what was plugged in the meantime does not matter.
CoresAreTrue ==
    (snapshot.status = "ok" /\ truth.per_core # <<>>) => snapshot.per_core = truth.per_core

\* No utilization beyond 100 % is ever reported, not even when lines of
\* different CPUs are compared and the differences wrap.
NeverAboveWhole ==
    /\ snapshot.aggregate.used <= snapshot.aggregate.whole
    /\ \A i \in 1 .. Len(snapshot.per_core) :
          snapshot.per_core[i].used <= snapshot.per_core[i].whole

\* "Delta computation guarantees non-negative CPU usage across core frequency
\* scaling and hot-plugging events" (docs/verification.md:36): no part of the time
\* of a core wraps below zero, where it would exceed the whole.
DeltasNonNegative ==
    \A i \in 1 .. Len(snapshot.per_core) :
        LET s == snapshot.per_core[i]
        IN  s.user <= s.whole /\ s.iowait <= s.whole
===============================================================================
