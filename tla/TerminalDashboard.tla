--------------------------- MODULE TerminalDashboard ---------------------------
(***************************************************************************)
(* sysscope::ui::Dashboard and Terminal (src/src/ui/dashboard.cpp,         *)
(* terminal.cpp): the interactive loop, which reads at most one key, takes *)
(* a snapshot reading by reading while the machine goes on, has it         *)
(* analysed, records the diagnoses and draws one screen.                   *)
(*                                                                         *)
(* The machine is one of Machines for a slice of time and may be another   *)
(* in the next; a slice may end between any two readings.  The files the   *)
(* kernel shows of the machine are derived from what is really going on,   *)
(* so that what the user sees can be compared with that.                   *)
(*                                                                         *)
(* The collectors of rates (CpuCollector, ProcessCollector, RateCollectors *)
(* have modules of their own) divide what was counted since their last     *)
(* successful reading by the time since then: the mean over those slices,  *)
(* which may be a rate the machine had at no moment.                       *)
(***************************************************************************)
EXTENDS CorrelationEngine

CONSTANTS Machines,     \* what may be going on, see Machine
          Keys,         \* what the user types
          HISTORY,      \* the 50 events the log is capped at
          TOP_OVERVIEW, \* the 5 processes of the overview
          TOP_LIST,     \* the 12 processes of their own screen
          MaxSlices,    \* bound of the model: slices of time that end in a frame
          MaxFailures,  \* bound of the model: failed readings in a frame
          MaxKeys       \* bound of the model: keys waiting to be read

VARIABLES machine,
          slices,       \* slices of time that have ended since the frame began
          seen,         \* history: what the machine was in the time the frame shows
          window,       \* what it was in each slice since the last successful
                        \* reading of each rate; empty before the first
          pc,
          keys,         \* typed and not read
          raw_mode_enabled,
          alternate,    \* the alternate screen, with the cursor hidden
          current_screen_,
          snapshot,
          failures,     \* failed readings of the frame
          diagnoses,    \* of the last frame
          diagnostic_history_

world == <<machine, slices, seen>>
terminal == <<keys, raw_mode_enabled, alternate>>
history == <<diagnoses, diagnostic_history_>>
vars == <<world, window, pc, terminal, current_screen_, snapshot, failures, history>>

-------------------------------------------------------------------------------
(* The machine and its files.                                              *)

Pids == 1 .. 3

\* heat in degrees, the rest in percent; usage by pid.  An old kernel has
\* neither MemAvailable nor pressure files.  A single degree is left out: the
\* collector takes its 1000 thousandths for 1000 degrees, see Celsius.
Machine == [load : 0 .. 100, iowait : 0 .. 100, used : 0 .. 99, heat : Nat \ {1},
            cpu_psi : 0 .. 100, memory_psi : 0 .. 100, io_psi : 0 .. 100,
            busy : 0 .. 100, usage : [Pids -> 0 .. 100], old : BOOLEAN]

ASSUME DashboardAssumption ==
    /\ Machines \subseteq Machine
    /\ {HISTORY, TOP_OVERVIEW, TOP_LIST} \subseteq Nat \ {0}

\* What a first reading without a baseline shows.
Still == [load |-> 0, iowait |-> 0, busy |-> 0, usage |-> [p \in Pids |-> 0]]

\* A memory of 100 units, of which half of the available part is cache.
Meminfo(m) ==
    LET cached == (100 - m.used) \div 2
        fields == [MemTotal |-> 100, MemFree |-> 100 - m.used - cached, Buffers |-> 0,
                   Cached |-> cached, MemAvailable |-> 100 - m.used]
    IN  <<Restrict(fields, {f \in DOMAIN fields : m.old => f # "MemAvailable"})>>

PressureFile(m, some) == IF m.old THEN <<>> ELSE <<[some |-> some, full |-> 0]>>

PressureFiles(m) == [cpu    |-> PressureFile(m, m.cpu_psi),
                     memory |-> PressureFile(m, m.memory_psi),
                     io     |-> PressureFile(m, m.io_psi)]

\* A cooling device, a sensor that cannot be read, one in the cold, and one at
\* the heat.
ThermalEntries(m) ==
    <<[zone |-> FALSE, type |-> <<"Processor">>, temp |-> <<0>>],
      [zone |-> TRUE,  type |-> <<"acpitz">>,    temp |-> <<>>],
      [zone |-> TRUE,  type |-> <<"ambient">>,   temp |-> <<20000>>],
      [zone |-> TRUE,  type |-> <<"x86_pkg">>,   temp |-> <<1000 * m.heat>>]>>

-------------------------------------------------------------------------------
(* The readings.                                                           *)

Rates == {"cpu", "processes", "disk"}
Readings == <<"cpu", "memory", "processes", "psi", "thermal", "disk">>
After(reading) ==
    LET i == CHOOSE i \in 1 .. 6 : Readings[i] = reading
    IN  IF i = 6 THEN "render" ELSE Readings[i + 1]

\* The mean of a non-empty sequence of whole numbers, rounded down.
Mean(values) ==
    LET sum[n \in 0 .. Len(values)] == IF n = 0 THEN 0 ELSE sum[n - 1] + values[n]
    IN  sum[Len(values)] \div Len(values)

\* What was counted over slices of equal length, divided by their time.
MeanRates(w) ==
    [load   |-> Mean([i \in 1 .. Len(w) |-> w[i].load]),
     iowait |-> Mean([i \in 1 .. Len(w) |-> w[i].iowait]),
     busy   |-> Mean([i \in 1 .. Len(w) |-> w[i].busy]),
     usage  |-> [p \in Pids |-> Mean([i \in 1 .. Len(w) |-> w[i].usage[p]])]]

\* The rates a collector measures: none without a baseline.
Measured(w) == IF w = <<>> THEN Still ELSE MeanRates(w)

\* How the collector of a source presents the rates it has measured.
Rate(source, m) ==
    CASE source = "cpu"       -> [total_utilization |-> m.load, iowait_percent |-> m.iowait,
                                  per_core |-> <<m.load>>]
      [] source = "processes" -> [p \in Pids |-> [pid |-> p, ppid |-> p - 1,
                                                  cpu_percent |-> m.usage[p]]]
      [] source = "disk"      -> <<m.busy>>

\* What the reading of a source returns.
Result(source, readable) ==
    CASE source \in Rates ->
            IF readable THEN <<Rate(source, Measured(window[source]))>> ELSE <<>>
      [] source = "memory"  -> CollectMemory(IF readable THEN Meminfo(machine) ELSE <<>>)
      [] source = "psi"     -> CollectPsi(IF readable THEN PressureFiles(machine)
                                          ELSE [f \in {"cpu", "memory", "io"} |-> <<>>])
      [] source = "thermal" -> CollectThermal(IF readable THEN <<ThermalEntries(machine)>>
                                              ELSE <<>>)

\* A value assigned to an optional member fills it.
Stored(source, result) ==
    IF source \in {"psi", "thermal", "disk"} THEN <<result>> ELSE result

-------------------------------------------------------------------------------
(* The terminal.                                                           *)

\* TCSAFLUSH throws away what was typed before.
enable_raw_mode == /\ raw_mode_enabled' = TRUE
                   /\ alternate' = TRUE
                   /\ keys' = IF raw_mode_enabled THEN keys ELSE <<>>

\* A slip: the alternate screen stays.
disable_raw_mode_only == /\ raw_mode_enabled' = FALSE
                         /\ keys' = <<>>
                         /\ UNCHANGED alternate

disable_raw_mode == /\ raw_mode_enabled' = FALSE
                    /\ alternate' = FALSE
                    /\ keys' = <<>>

\* The next key, or none.
read_key == /\ keys' = IF keys = <<>> THEN keys ELSE Tail(keys)
            /\ UNCHANGED <<raw_mode_enabled, alternate>>
KeyRead == IF keys = <<>> THEN "none" ELSE Head(keys)

Screens == <<"Overview", "CpuCores", "MemoryAndDisk", "Processes", "Diagnostics">>

\* The screen a key selects; other keys leave it as it is.
Selected(key) ==
    LET digits == <<"1", "2", "3", "4", "5">>
    IN  IF key \in ToSet(digits)
        THEN Screens[CHOOSE i \in 1 .. 5 : digits[i] = key]
        ELSE current_screen_

-------------------------------------------------------------------------------
(* What is drawn.                                                          *)

make_progress_bar(percent, width) == (Least(100, percent) * width) \div 100

\* The pids of the rows of the list.
PidsAt(rows) == {snapshot.processes[i].pid : i \in rows}

\* What sorting by usage and cutting may leave: equal ones come in any order.
TopProcesses(count) ==
    LET listed == 1 .. Len(snapshot.processes)
        usage(i) == snapshot.processes[i].cpu_percent
    IN  {PidsAt(top) : top \in {S \in SUBSET listed :
            /\ Cardinality(S) = Least(count, Cardinality(listed))
            /\ \A i \in S, j \in listed \ S : usage(i) >= usage(j)}}

render_overview ==
    [cpu     |-> make_progress_bar(snapshot.cpu.total_utilization, 24),
     memory  |-> make_progress_bar(snapshot.memory.utilization_percent, 24),
     top     |-> TopProcesses(TOP_OVERVIEW),
     healthy |-> diagnoses = <<>>,
     alerts  |-> diagnoses]

render_cpu_cores ==
    [cores |-> [i \in 1 .. Len(snapshot.cpu.per_core) |->
                  make_progress_bar(snapshot.cpu.per_core[i], 20)]]

\* The tables of disks and of sensors are left out when there is none.
render_memory_disk ==
    [used |-> snapshot.memory.used_bytes, available |-> snapshot.memory.available_bytes,
     disk |-> snapshot.disk, sensors |-> snapshot.thermal]

render_processes == [top |-> TopProcesses(TOP_LIST)]

render_diagnostics == [healthy |-> diagnostic_history_ = <<>>,
                       log     |-> Reverse(diagnostic_history_)]

\* The line below every screen.
render_footer == [cpu |-> snapshot.cpu.total_utilization,
                  psi |-> Pressure(snapshot, "cpu_some")]

-------------------------------------------------------------------------------
Init == /\ machine \in Machines
        /\ slices = 0 /\ seen = {machine} /\ window = [s \in Rates |-> <<>>]
        /\ pc = "start"
        /\ keys = <<>> /\ raw_mode_enabled = FALSE /\ alternate = FALSE
        /\ current_screen_ = "Overview"
        /\ snapshot = NoSnapshot /\ failures = 0
        /\ diagnoses = <<>> /\ diagnostic_history_ = <<>>

(* The machine and the user.                                               *)

\* A slice of time ends; in the next the machine is the same or another.  While a
\* frame is looked at it is no longer compared with what goes on.
EndSlice ==
    /\ pc \notin {"start", "done"}
    /\ slices < MaxSlices
    /\ \E m \in {m \in Machines : m.old = machine.old} :
          /\ machine' = m
          /\ seen' = IF pc = "key" THEN seen ELSE seen \union {m}
          /\ window' = [s \in Rates |-> IF window[s] = <<>> THEN <<>>
                                         ELSE Append(window[s], m)]
    /\ slices' = slices + 1
    /\ UNCHANGED <<pc, terminal, current_screen_, snapshot, failures, history>>

\* The loop looks at the keys once in a frame: what is typed in between is as if
\* it were typed just before that.
Type == /\ pc \in {"start", "key"}
        /\ Len(keys) < MaxKeys
        /\ \E k \in Keys : keys' = Append(keys, k)
        /\ UNCHANGED <<world, window, pc, raw_mode_enabled, alternate, current_screen_,
                       snapshot, failures, history>>

(* run_interactive_loop and render_snapshot.                               *)

\* Readings that only set the baselines of the rates.
SetBaselines(failed) ==
    window' = [s \in Rates |-> IF s \in failed THEN window[s] ELSE <<machine>>]

Start == /\ pc = "start"
         /\ pc' = "key"
         /\ enable_raw_mode
         /\ \E failed \in SUBSET Rates :
               /\ Cardinality(failed) <= MaxFailures
               /\ SetBaselines(failed)
         /\ UNCHANGED <<world, current_screen_, snapshot, failures, history>>

\* What the last frame was drawn from is gone.
ReadKey == /\ pc = "key"
           /\ KeyRead \notin {"q", "Q"}
           /\ pc' = "baseline"
           /\ read_key
           /\ current_screen_' = Selected(KeyRead)
           /\ snapshot' = NoSnapshot /\ diagnoses' = <<>>
           /\ seen' = {machine} /\ slices' = 0 /\ failures' = 0
           /\ UNCHANGED <<machine, window, diagnostic_history_>>

Quit == /\ pc = "key"
        /\ KeyRead \in {"q", "Q"}
        /\ pc' = "done"
        /\ disable_raw_mode
        /\ UNCHANGED <<world, window, current_screen_, snapshot, failures, history>>

\* A slip: the frame relies on the baselines of the frame before.
BaselineKept ==
    /\ pc = "baseline"
    /\ pc' = "cpu"
    /\ UNCHANGED <<world, window, terminal, current_screen_, snapshot, failures, history>>

\* render_snapshot sets new baselines, then sleeps for 200 ms.  A rate whose
\* baseline fails will be measured from an older one.
Baseline ==
    /\ pc = "baseline"
    /\ pc' = "cpu"
    /\ \E failed \in SUBSET Rates :
          /\ Cardinality(failed) <= MaxFailures
          /\ SetBaselines(failed)
          /\ failures' = Cardinality(failed)
          /\ seen' = {machine} \union UNION {ToSet(window[s]) : s \in failed}
    /\ UNCHANGED <<machine, slices, terminal, current_screen_, snapshot, history>>

\* One reading; a failed one leaves the initial values.
Collect ==
    /\ pc \in ToSet(Readings)
    /\ pc' = After(pc)
    /\ \E readable \in BOOLEAN :
          /\ readable \/ failures < MaxFailures
          /\ failures' = failures + IF readable THEN 0 ELSE 1
          /\ LET result == Result(pc, readable)
             IN  snapshot' = IF Has(result)
                             THEN [snapshot EXCEPT ![pc] = Stored(pc, Value(result))]
                             ELSE snapshot
          /\ window' = IF readable /\ pc \in Rates
                       THEN [window EXCEPT ![pc] = <<machine>>] ELSE window
    /\ UNCHANGED <<world, terminal, current_screen_, history>>

\* A slip: one event is removed per frame, however many were added.
RecordOncePerFrame(events, new) ==
    IF Len(events \o new) > HISTORY THEN Tail(events \o new) ELSE events \o new

\* push_back, then erase from the front beyond the cap.
PushCapped(events, d) ==
    IF Len(events) + 1 > HISTORY THEN Tail(Append(events, d)) ELSE Append(events, d)

\* The loop over the new diagnoses: the log after the first n of them.
Record(events, new) ==
    LET log[n \in 0 .. Len(new)] == IF n = 0 THEN events ELSE PushCapped(log[n - 1], new[n])
    IN  log[Len(new)]

\* The snapshot is analysed and drawn; then the loop sleeps for the refresh time.
Render == /\ pc = "render"
          /\ pc' = "key"
          /\ diagnoses' = analyze(snapshot)
          /\ diagnostic_history_' = Record(diagnostic_history_, diagnoses')
          /\ UNCHANGED <<world, window, terminal, current_screen_, snapshot, failures>>

Loop == Start \/ ReadKey \/ Quit \/ Baseline \/ Collect \/ Render

\* The program has ended.
Ended == pc = "done" /\ UNCHANGED vars

Next == EndSlice \/ Type \/ Loop \/ Ended

\* The loop is a thread of its own; neither reading nor drawing blocks.
Spec == Init /\ [][Next]_vars /\ WF_vars(Loop)

-------------------------------------------------------------------------------
(* What the program promises its user.                                     *)

\* A frame is on the screen.
Drawn == pc = "key" /\ snapshot # NoSnapshot

Conditions(list) == {list[i].condition : i \in 1 .. Len(list)}

\* The rules of the engine (correlation.cpp:22, 64, 65, 94, 124) in terms of the
\* machine: its single signs, and those that make up each condition.  They are not
\* the rules of docs/diagnostics.md:8-11, which wants a memory of which less than
\* 10 % is available reported from a stall of 2 % on, a disk in use for more than
\* 80 % from one of 4 % on, and a heat only beside a drop of the frequency.
Signs(m) == (IF m.load > 75 THEN {"loaded"} ELSE {})
            \union (IF m.used > 70 THEN {"full"} ELSE {})
            \union (IF m.heat > 75 THEN {"hot"} ELSE {})
            \union (IF ~m.old /\ m.cpu_psi > 5 THEN {"cpu stall"} ELSE {})
            \union (IF ~m.old /\ m.memory_psi > 5 THEN {"memory stall"} ELSE {})
            \union (IF ~m.old /\ m.io_psi > 5 THEN {"io stall"} ELSE {})
SignsOf ==
    [c \in {"THERMAL THROTTLING", "MEMORY CONTENTION & PRESSURE", "I/O BOTTLENECK",
            "CPU SCHEDULING CONTENTION"} |->
        CASE c = "THERMAL THROTTLING"           -> {"hot"}
          [] c = "MEMORY CONTENTION & PRESSURE" -> {"full", "memory stall"}
          [] c = "I/O BOTTLENECK"               -> {"io stall"}
          [] c = "CPU SCHEDULING CONTENTION"    -> {"loaded", "cpu stall"}]

\* By the thresholds of the engine the overview does not miss a pressure that lasts:
\* a condition whose signs were all there from the baseline to the last reading is
\* among the alerts, and "No resource contention" (dashboard.cpp:126) is not claimed
\* - provided no reading of the frame failed.  Of a machine that only the document
\* calls contended (8 % available and a memory stall of 3 %, say) nothing is said:
\* the engine reports nothing then.
LastingPressureIsReported ==
    (Drawn /\ current_screen_ = "Overview" /\ failures = 0) =>
        \A c \in DOMAIN SignsOf :
            (\A m \in seen : SignsOf[c] \subseteq Signs(m)) =>
                /\ c \in Conditions(render_overview.alerts)
                /\ ~render_overview.healthy

\* What a screen shows belongs to the time the frame stands for.  What is read at
\* once - memory, sensors, pressure - was so at some moment of it.  A rate is a mean
\* and may have been so at no moment, but it is not above the highest rate of that
\* time nor below the lowest; a process left out of a list was not busier than one
\* in it all that time; and each sign of a reported condition was there at some
\* moment, not necessarily all at once.  A number for which this does not hold is
\* zero, and only after a reading has failed.
ShownWasTrue ==
    Drawn =>
        LET Shows(value, missing, of(_)) ==
                \/ \E m \in seen : value = of(m)
                \/ failures > 0 /\ value \in missing
            Between(value, of(_)) ==
                \/ \E low, high \in seen : of(low) <= value /\ value <= of(high)
                \/ failures > 0 /\ value = 0
        IN  /\ \A c \in Conditions(render_overview.alerts) :
                  \A sign \in SignsOf[c] : \E m \in seen : sign \in Signs(m)
            /\ Between(render_footer.cpu, LAMBDA m : m.load)
            /\ LET cores == render_cpu_cores.cores
               IN  \/ Len(cores) = 1 /\ Between(cores[1], LAMBDA m : make_progress_bar(m.load, 20))
                   \/ failures > 0 /\ cores = <<>>
            /\ LET disk == render_memory_disk.disk
               IN  \/ /\ Len(disk) = 1 /\ Len(disk[1]) = 1
                      /\ Between(disk[1][1], LAMBDA m : m.busy)
                   \/ failures > 0 /\ disk = <<>>
            /\ Shows(render_footer.psi, {0}, LAMBDA m : IF m.old THEN 0 ELSE m.cpu_psi)
            /\ Shows(render_overview.memory, {0}, LAMBDA m : make_progress_bar(m.used, 24))
            /\ Shows(render_memory_disk.used, {0}, LAMBDA m : m.used)
            /\ Shows(render_memory_disk.sensors, {<<>>}, LAMBDA m : <<<<20, m.heat>>>>)
            /\ \A top \in render_overview.top \union render_processes.top :
                  \/ \A p \in top, q \in Pids \ top : \E m \in seen : m.usage[p] >= m.usage[q]
                  \/ failures > 0 /\ \A i \in top : snapshot.processes[i].cpu_percent = 0

\* The event log shows the latest events, newest first, in the order of the frames
\* and, within a frame, of the rules; only the oldest go, and only at the cap; an
\* event once logged is not taken back by a healthy frame.
LogKeepsLatest ==
    [][ \/ UNCHANGED diagnostic_history_
        \/ LET all == diagnostic_history_ \o diagnoses'
           IN  /\ render_diagnostics'.log = SubSeq(Reverse(all), 1, Least(HISTORY, Len(all)))
               /\ render_diagnostics'.healthy => all = <<>> ]_vars

\* A typed q ends the program, whatever was typed before it, and gives the
\* terminal back as it was.
QuitIsObeyed ==
    (raw_mode_enabled /\ "q" \in ToSet(keys))
        ~> (pc = "done" /\ ~raw_mode_enabled /\ ~alternate)
===============================================================================
