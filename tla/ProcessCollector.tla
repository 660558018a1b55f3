--------------------------- MODULE ProcessCollector ---------------------------
(***************************************************************************)
(* sysscope::collectors::ProcessCollector                                  *)
(* (src/src/collectors/process.cpp).                                       *)
(*                                                                         *)
(* collect lists /proc, reads the CPU time of the system from /proc/stat   *)
(* and then the stat file of every listed process, one after the other.    *)
(* Each of these is a step of its own: in between, processes run, are      *)
(* forked, exit and leave their children to process 1, and a process id    *)
(* that became free may be given out again.  Any read may fail.            *)
(*                                                                         *)
(* A CPU percentage is kept as the fraction part/whole the code divides    *)
(* out, of ticks of the process over ticks of the system.                  *)
(***************************************************************************)
EXTENDS Integers, Sequences

CONSTANTS Pids,           \* process ids; 1 is the one that adopts orphans
          ticks_per_sec_,
          Modulus,        \* uint64_t arithmetic is modulo this
          MaxTicks,       \* bound of the model: ticks of the system
          MaxBirths       \* bound of the model: processes forked

ASSUME ConstAssumption == /\ Pids \subseteq Nat \ {0}
                          /\ 1 \in Pids
                          /\ ticks_per_sec_ \in Nat \ {0}
                          /\ MaxTicks \in Nat /\ MaxBirths \in Nat
                          /\ Modulus \in Nat /\ MaxTicks < Modulus

VARIABLES procs,    \* the kernel's processes, by id
          total,    \* ticks of the system
          births,   \* number of processes forked so far
          used,     \* history: the ids that were ever given out
          reused,   \* history: has any been given out twice?
          has_previous_state_,
          previous_total_system_time_,
          previous_process_states_,    \* by id, see Baseline
          pc,                          \* position inside collect
          entries,                     \* the listed ids not read yet
          current_total_system_time,
          current_process_states,
          process_list,                \* the snapshot, while and after it is made
          since,                       \* history: ticks of each process since it
                                       \* was forked or last read
          statAt, previousStatAt       \* history: total at the last two visits
                                       \* to /proc/stat

kernel == <<procs, total, births, used, reused>>
baseline == <<has_previous_state_, previous_total_system_time_, previous_process_states_>>
locals == <<entries, current_total_system_time, current_process_states, process_list>>
history == <<since, statAt, previousStatAt>>
vars == <<kernel, baseline, pc, locals, history>>

-------------------------------------------------------------------------------
\* A process: its number in the order of the forks, its parent, its CPU time.
Process == [born : Nat, ppid : Nat, time : Nat]
Free == [born |-> 0, ppid |-> 0, time |-> 0]
Alive(p) == procs[p].born # 0

\* What is kept of a process; as history, which process it was.
Baseline == [total_process_cpu_time : Nat, born : Nat]

\* The part of a ProcessInfo that depends on other reads, and as history which
\* process it is of, which one the baseline was of, and what it really used.
Info == [pid : Nat, ppid : Nat, born : Nat, base : Nat, used : Nat,
         part : Nat, whole : Nat]

\* Unsigned subtraction.
Minus(a, b) == IF a >= b THEN a - b ELSE a - b + Modulus

Least(a, b) == IF a <= b THEN a ELSE b

\* A slip: a system time of 0, from a failed read, counts as a baseline.
HasAnySystemDelta == /\ has_previous_state_
                     /\ current_total_system_time > previous_total_system_time_

\* There are two system times to compare.
HasSystemDelta == /\ has_previous_state_
                  /\ previous_total_system_time_ > 0
                  /\ current_total_system_time > previous_total_system_time_

\* A slip of the percentage: the time since the process started.
UsageSinceStart(p) ==
    LET whole == current_total_system_time - previous_total_system_time_
    IN  [part |-> Least(procs[p].time, ticks_per_sec_ * whole), whole |-> whole]

\* The usage of a process that has a baseline, capped at 100 * ticks_per_sec_ %.
Usage(p) ==
    LET whole == current_total_system_time - previous_total_system_time_
        delta == Minus(procs[p].time, previous_process_states_[p].total_process_cpu_time)
    IN  [part |-> Least(delta, ticks_per_sec_ * whole), whole |-> whole]

NoUsage == [part |-> 0, whole |-> 0]

ShowsUsage(p) == HasSystemDelta /\ p \in DOMAIN previous_process_states_

\* A slip: the field after the parent's id is read, the process group, which a
\* process leads itself.
InfoWithGroup(p) ==
    LET usage == IF ShowsUsage(p) THEN Usage(p) ELSE NoUsage
    IN  [pid |-> p, ppid |-> p, born |-> procs[p].born,
         base |-> IF ShowsUsage(p) THEN previous_process_states_[p].born ELSE 0,
         used |-> since[p], part |-> usage.part, whole |-> usage.whole]

InfoOf(p) ==
    LET usage == IF ShowsUsage(p) THEN Usage(p) ELSE NoUsage
    IN  [pid |-> p, ppid |-> procs[p].ppid, born |-> procs[p].born,
         base |-> IF ShowsUsage(p) THEN previous_process_states_[p].born ELSE 0,
         used |-> since[p], part |-> usage.part, whole |-> usage.whole]

-------------------------------------------------------------------------------
Init == /\ procs = [p \in Pids |-> IF p = 1 THEN [born |-> 1, ppid |-> 0, time |-> 0]
                                            ELSE Free]
        /\ total = 1
        /\ births = 1
        /\ used = {1} /\ reused = FALSE
        /\ has_previous_state_ = FALSE
        /\ previous_total_system_time_ = 0
        /\ previous_process_states_ = <<>>
        /\ pc = "idle"
        /\ entries = {}
        /\ current_total_system_time = 0
        /\ current_process_states = <<>>
        /\ process_list = <<>>
        /\ since = [p \in Pids |-> 0]
        /\ statAt = 0 /\ previousStatAt = 0

(* The kernel.                                                             *)

\* The system ticks; a process runs, or none.
Idle == /\ total < MaxTicks
        /\ total' = total + 1
        /\ UNCHANGED <<procs, births, used, reused, baseline, pc, locals, history>>

Run(p) == /\ total < MaxTicks
          /\ Alive(p)
          /\ total' = total + 1
          /\ procs' = [procs EXCEPT ![p].time = @ + 1]
          /\ since' = [since EXCEPT ![p] = @ + 1]
          /\ UNCHANGED <<births, used, reused, baseline, pc, locals, statAt, previousStatAt>>

Fork(parent, p) ==
    /\ births < MaxBirths
    /\ Alive(parent) /\ ~Alive(p)
    /\ procs' = [procs EXCEPT ![p] = [born |-> births + 1, ppid |-> parent, time |-> 0]]
    /\ births' = births + 1
    /\ used' = used \cup {p}
    /\ reused' = (reused \/ p \in used)
    /\ since' = [since EXCEPT ![p] = 0]
    /\ UNCHANGED <<total, baseline, pc, locals, statAt, previousStatAt>>

\* Process 1 adopts the children.
Exit(p) ==
    /\ Alive(p) /\ p # 1
    /\ procs' = [q \in Pids |->
                    IF q = p THEN Free
                    ELSE [procs[q] EXCEPT !.ppid = IF @ = p THEN 1 ELSE @]]
    /\ UNCHANGED <<total, births, used, reused, baseline, pc, locals, history>>

(* collect.                                                                *)

\* The names in /proc; without them collect returns an error and keeps
\* everything as it was.
List == /\ pc = "idle"
        /\ entries' = {p \in Pids : Alive(p)}
        /\ process_list' = <<>>
        /\ current_process_states' = <<>>
        /\ pc' = "stat"
        /\ UNCHANGED <<kernel, baseline, current_total_system_time, history>>

\* /proc/stat; the time stays 0 when it cannot be read.
ReadSystemTime ==
    /\ pc = "stat"
    /\ current_total_system_time' \in {0, total}
    /\ statAt' = total
    /\ previousStatAt' = statAt
    /\ pc' = "processes"
    /\ UNCHANGED <<kernel, baseline, entries, current_process_states, process_list, since>>

\* A process that is gone, or cannot be read, is left out.
SkipProcess(p) ==
    /\ pc = "processes" /\ p \in entries
    /\ entries' = entries \ {p}
    /\ UNCHANGED <<kernel, baseline, pc, current_total_system_time,
                   current_process_states, process_list, history>>

ReadProcess(p) ==
    /\ pc = "processes" /\ p \in entries
    /\ Alive(p)
    /\ entries' = entries \ {p}
    /\ process_list' = Append(process_list, InfoOf(p))
    /\ current_process_states' =
           [q \in DOMAIN current_process_states \cup {p} |->
               IF q = p THEN [total_process_cpu_time |-> procs[p].time, born |-> procs[p].born]
                        ELSE current_process_states[q]]
    /\ since' = [since EXCEPT ![p] = 0]
    /\ UNCHANGED <<kernel, baseline, pc, current_total_system_time, statAt, previousStatAt>>

\* A slip: processes that have exited keep their baseline.
FinishMerging ==
    /\ pc = "processes" /\ entries = {}
    /\ previous_process_states_' =
           [q \in DOMAIN current_process_states \cup DOMAIN previous_process_states_ |->
               IF q \in DOMAIN current_process_states THEN current_process_states[q]
                                                      ELSE previous_process_states_[q]]
    /\ previous_total_system_time_' = current_total_system_time
    /\ has_previous_state_' = TRUE
    /\ pc' = "idle"
    /\ UNCHANGED <<kernel, locals, history>>

\* The baseline for the next call; processes that have exited drop out of it.
Finish ==
    /\ pc = "processes" /\ entries = {}
    /\ previous_process_states_' = current_process_states
    /\ previous_total_system_time_' = current_total_system_time
    /\ has_previous_state_' = TRUE
    /\ pc' = "idle"
    /\ UNCHANGED <<kernel, locals, history>>

Next == \/ Idle
        \/ \E p \in Pids : \/ Run(p) \/ Exit(p) \/ SkipProcess(p) \/ ReadProcess(p)
                           \/ \E parent \in Pids : Fork(parent, p)
        \/ List \/ ReadSystemTime \/ Finish

Spec == Init /\ [][Next]_vars

-------------------------------------------------------------------------------
(* build_process_tree of a finished snapshot.                              *)

Listed == {process_list[i].pid : i \in 1 .. Len(process_list)}

\* A slip: one pass, in which only parents that come earlier are found.
ChildrenListedLater(p) ==
    {process_list[i].pid : i \in {j \in 1 .. Len(process_list) :
        /\ process_list[j].ppid = p
        /\ \E k \in 1 .. j : process_list[k].pid = p}}

\* children_pids of the node of p.
Children(p) == {process_list[i].pid : i \in {j \in 1 .. Len(process_list) :
                                                 process_list[j].ppid = p}}

Roots == {process_list[i].pid : i \in {j \in 1 .. Len(process_list) :
                                           process_list[j].ppid \notin Listed}}

-------------------------------------------------------------------------------
MapsTo(f, S) == DOMAIN f \subseteq Pids /\ \A p \in DOMAIN f : f[p] \in S

\* Every variable has its type.
TypeOK == /\ procs \in [Pids -> Process]
          /\ total \in Nat /\ total <= MaxTicks + 1
          /\ births \in Nat
          /\ used \subseteq Pids /\ reused \in BOOLEAN
          /\ has_previous_state_ \in BOOLEAN
          /\ previous_total_system_time_ \in Nat
          /\ MapsTo(previous_process_states_, Baseline)
          /\ pc \in {"idle", "stat", "processes"}
          /\ entries \subseteq Pids
          /\ current_total_system_time \in Nat
          /\ MapsTo(current_process_states, Baseline)
          /\ process_list \in Seq(Info)
          /\ since \in [Pids -> Nat]
          /\ statAt \in Nat /\ previousStatAt \in Nat

Shown(i) == process_list[i].whole # 0

\* A percentage shows the time the process used since it was last read, however
\* many reads failed or collections were skipped before, as long as the id still
\* belongs to the same process.
UsageIsTrue ==
    \A i \in 1 .. Len(process_list) :
        LET info == process_list[i]
        IN  (Shown(i) /\ info.base = info.born)
               => info.part = Least(info.used, ticks_per_sec_ * info.whole)

\* The time it is set against is the time between the two visits to /proc/stat of
\* this collection and the previous one, also after visits that failed.
WholeIsInterval ==
    \A i \in 1 .. Len(process_list) :
        Shown(i) => process_list[i].whole = statAt - previousStatAt

\* Between collections a baseline is kept for exactly the processes of the last
\* snapshot, so that none outlives its process by more than one collection.
BaselinesAreListed == pc = "idle" => DOMAIN previous_process_states_ = Listed

\* The nodes that can be reached from roots without passing a node twice.
Reachable ==
    LET reach[n \in 0 .. Len(process_list)] ==
            IF n = 0 THEN Roots
            ELSE reach[n - 1] \cup UNION {Children(p) : p \in reach[n - 1]}
    IN  reach[Len(process_list)]

\* The tree of a snapshot is a forest that holds every process, although parents
\* exit and orphans are adopted while it is read.
TreeIsForest == (pc = "idle" /\ ~reused) => Listed \subseteq Reachable

\* Every parent in the tree is older than its children, so that no process is its
\* own ancestor: a parent that was read before or after its child is still the
\* process that forked it, or process 1.  Until ids are given out again, that is.
OlderThanChildren ==
    \A i, j \in 1 .. Len(process_list) :
        process_list[i].ppid = process_list[j].pid => process_list[j].born < process_list[i].born
ParentsAreOlder == ~reused => OlderThanChildren

\* "100% match verified on ... CPU tick deltas" (docs/verification.md:38): no
\* process is shown to have used more than it ever has.
NoPhantomUsage ==
    \A i \in 1 .. Len(process_list) : Shown(i) => process_list[i].part <= process_list[i].used
===============================================================================
