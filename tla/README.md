# SysScope in TLA+

A TLA+ model of SysScope, the telemetry tool in `src/` (C++20, about 5000 lines of
implementation): what its parts do when threads, timeouts, failing reads and changing
kernel state meet, the properties that make the parts correct, TLC configurations that
check them on small instances, and TLAPS proofs of the most important ones for every
instance.

## 1. The system

| Component | State it keeps | Operations | Hard behaviour | Correct when |
|---|---|---|---|---|
| Bounded telemetry queue (`telemetry/queue.hpp`) | deque, `shutdown_`, `dropped_count_`, the wait set of one condition variable | `push`, `pop`, `wait_and_pop`, `shutdown`, `size`, `dropped_count` | overflow while consumers sleep, stolen wake-ups, timeouts, shutdown | order kept, nothing delivered twice, losses counted and only under pressure, no lost wake-up |
| Telemetry scheduler (`telemetry/scheduler.cpp`) | vector of tasks with deadlines, `running_`, worker thread | `add_task`, `start`, `stop`, `run_loop` | callbacks with the mutex released, stop against a sleeping or busy worker, clients that overlap, late callbacks | tasks keep phase and rate, none starves, stop returns and leaves no worker |
| CPU collector (`collectors/cpu.cpp`) | counters of the previous successful read, aggregate and per line | `collect` | failing reads, hot-plugged CPUs, unsigned differences | percentages are those of the interval since the last success |
| Process collector (`collectors/process.cpp`) | CPU time by pid, total CPU time | `collect`, `build_process_tree` | processes that start, exit and re-use a pid while /proc is read, unreadable files | a share of CPU is that of the process it is shown for |
| Disk and network collectors (`collectors/disk.cpp`, `network.cpp`) | counters and time stamp by device | `collect` | counters reset, devices come and go, the wall clock is set | rates are those of the interval |
| Memory, PSI and thermal collectors (`collectors/`) | none | `collect` | missing files, fields and sensors | a number that is shown was read, a missing one is zero |
| Correlation engine (`analytics/correlation.cpp`) | none | `analyze` | four rules over optional inputs, thresholds | a condition is reported when its signs are there, and only then |
| Application profiler (`analytics/profiler.cpp`) | sample vectors shared with a sampler thread | `profile_command` | the workload ends while the sampler sleeps or samples | samples belong to the workload; join before use |
| Persistence (`storage/`) | records in memory (nothing is written to disk), whether it is initialized | `initialize`, `store_*`, `query_*` | records stored while a page queries, two implementations that disagree | what was stored is found again, nothing else |
| IPC (`ipc/`) | `running_`, `connected_` | server `start`/`stop`, client `connect`/`send_request` | a client of a stopped server | answers come from a running server |
| Terminal dashboard (`ui/dashboard.cpp`, `ui/terminal.cpp`) | collectors, event log, selected screen, terminal mode | `run_interactive_loop`, `render_snapshot` | the machine changes within a frame, readings fail, keys wait | what is shown belongs to the time of the frame, pressure is not missed, the log keeps the latest, `q` ends and restores the terminal |
| Qt interface (`ui/qt/`) | event queue, ring buffer, charts, pages, incidents, selections; history page, playback position | poll timer, `post_snapshot`, `update_snapshot` and its slots, clicks; query, play, pause, stop, timer tick | queued delivery, two buffers of different length, an index into a growing list, playback against new queries | every view shows the latest snapshot, buffers keep order, the inspector shows the selected row, playback shows the records in order |
| Platform readers (`platform/`) | none | file reads, netlink dump | partial and failing receives | errors are reported |

Interaction. A reader gives a collector the text of a kernel file; a collector keeps the
previous counters and returns a snapshot of differences; snapshots are meant to be produced
by scheduler tasks, pushed into a `BoundedQueue` and taken by consumers
(`docs/telemetry-pipeline.md`). The program at this commit drives its collectors directly:
from the loop of the terminal dashboard, from the sampler thread of the profiler, and from a
timer of the Qt window whose snapshots pass a queued signal into `TelemetryModel`. The
correlation engine reads one snapshot. The scheduler and the queue are used by the tests only.

## 2. Modules and the code

Every operation, critical section or step between two points where another actor may run is
one action. Names are those of the source. Variables called history in a module exist only to
state properties.

### `BoundedQueue.tla`, `SlidingWindowChannel.tla`

| Code (`telemetry/queue.hpp`) | Model |
|---|---|
| `queue_`, `shutdown_`, `dropped_count_` | the variables of the same name; an item is the number of the push it came from |
| constructor, capacity 0 becomes 8192 | `capacity_` from `RequestedCapacity` and `DefaultCapacity` |
| `push` 18-26 | `Push`: overflow, count, append and `notify_one` under one lock |
| `pop` 28-36 | `Pop` |
| `wait_and_pop` 38-49 | `WaitAndPop` up to the return or the release of the mutex, then `Expire`, `SpuriousWake` or a notification, then `Resume` once the mutex is held again |
| `shutdown` 51-55 | `Shutdown` |
| `size`, `dropped_count` | read only, no action |

A thread leaves the wait set when it is notified, when its deadline passes or spuriously, and
runs only when it has the mutex; what it was woken for may be gone by then. `notify_one` picks
any member of the wait set. `SlidingWindowChannel` is what the queue promises: a channel that
holds the latest `Window` messages, from which the receiver takes the oldest; the queue
implements it (`ImplementsChannel`).

### `TelemetryScheduler.tla`

| Code (`telemetry/scheduler.cpp`) | Model |
|---|---|
| `tasks_` with deadlines, `running_`, `worker_thread_` | `tasks_`, `running_`, `joinable` |
| `add_task` 12-21 | `AddTask`, with the growth of the vector (`storage`, `stale`) |
| `start` 23-28 | `Start`; assigning to a joinable thread ends the process |
| `stop` 30-40 | `Stop`, `StopNotify`, `StopJoin`: three steps, the last two without the mutex |
| `run_loop` 42-80 | `LoopHead`, `EnterEmpty`, `EnterTasks`, `WakeIdle`, `WakeSleeping`, `Scan`, `EndPass`, `CallbackReturn`, `CallbackReturnStale` |
| destructor 8-10 | `Stop` ... by the last client |

The worker holds the mutex in `"scan"` and has released it in `"idle"`, `"sleeping"` and
`"callback"`. Time (`Tick`) passes between any two steps, so a callback, and a pass, last as
long as they like. `add_task` may reallocate the vector while the worker keeps references into
it; what it reads or writes through them afterwards is undefined in C++ and a choice in the
model: any deadline, a lost update with the rest of the pass skipped, or the end of the process.
Each task carries, as history, whether a worker was there when it was added (`late`); the
properties that the code keeps only without such tasks say so by `OnTime`. Intervals are at least
one tick (the code takes milliseconds and does not check). A callback does not call the
scheduler back.

### `CpuCollector.tla`

| Code (`collectors/cpu.cpp`) | Model |
|---|---|
| `/proc/stat` | `sums` (line `cpu`), `ticks` of each CPU, `online`: the CPUs that have a line, in order; external |
| `has_previous_state_`, `previous_aggregate_`, `previous_cores_` | the variables of the same name |
| what `collect` returned | `snapshot`: a status and shares, for all CPUs and for each line |
| `collect` 11-14, 40-64, 66-122 | `CollectFails`, `CollectFirst`, `CollectNext` |
| the kernel's accounting, hot-plugging | `Tick`, `HotPlug`; external |

A percentage is kept as the fraction it is computed from (ticks over the ticks of the
interval), so nothing is rounded. Subtractions are modulo `Modulus`, as those of `uint64_t`.
The six kinds of busy time enter the code in the same way and are one, `"user"`. A line is
known by its position only, as in the code (`core_id` is the index). Frequencies are left out.

### `ProcessCollector.tla`

| Code (`collectors/process.cpp`) | Model |
|---|---|
| `/proc`, `/proc/[pid]/stat`, `/proc/stat` | `procs`, `total`; external, changed by `Idle`, `Run`, `Fork`, `Exit` |
| `collect` 23-137 | `List`, `ReadSystemTime`, one `ReadProcess` or `SkipProcess` for each entry, `Finish` |
| the locals of `collect` | `pc`, `entries`, `current_total_system_time`, `current_process_states`, `process_list` |
| the delta of a process 107-119 | `Usage`, `HasSystemDelta`, `ShowsUsage`, `InfoOf` |
| `build_process_tree` 139-150 | `Roots`, `Children`, over the list of a finished snapshot |

The kernel moves between any two reads: processes run, fork, exit, are adopted by the first
process, and ids are given out again. The order in which the directory lists its entries is
arbitrary. Fields that are copied from the file read, and the count of running processes, are
left out. `births` and `reused` are history: which process an id stands for, and whether an id
has been given out twice.

### `ApplicationProfiler.tla`

| Code (`analytics/profiler.cpp`) | Model |
|---|---|
| main thread 26-140 | `Baseline`, `Launch`, `WorkloadEnds`, `StoreInactive`, `Join`, `FallbackCpu`, `FallbackMem`, `Report`, at the position `main` |
| sampler thread 45-67 | `Check`, `Wake`, `SampleCpu`, `SampleMemory`, `SamplePsi`, at the position `sampler` |
| `cpu_samples`, `rss_samples`, the pressure vectors | the CPU samples, and the numbers of the other two |

It composes an instance of `CpuCollector`: both threads call its actions, and its ticks are the
time in which the sampler sleeps. Each CPU sample also keeps, as history, the counters between
which it lies. Every reading may fail except that of the pressure, whose collector returns
zeros instead.

### `RateCollectors.tla`

| Code (`collectors/disk.cpp`, `network.cpp`) | Model |
|---|---|
| `/sys/block/*/stat`, `/proc/net/dev`, the clock | `present`, `count`, `clock`, changed by `Work`, `Unplug`, `Plug`, `Pass`, `SetClock`; external |
| which of the two collectors | `one_file` |
| `previous_disk_states_` / `previous_iface_states_`, `has_previous_state_` | `previous_states_`, `has_previous_state_` |
| disk 11, network 10 | `List` |
| disk 17, network 16 | `Stamp` |
| disk 20-66 | `ReadFile`, `SkipFile` for each device |
| network 19-69 | `ParseLine` for each device, from the `lines` read before |
| disk 68-71, network 71-74 | `Finish` |

One module stands for both collectors: they differ in whether a device has a file of its own.
The clock is the wall clock (`core::Timestamp::now` reads `system_clock`). A rate is kept as the
fraction `ops`/`elapsed`. All counters of a device are one; the cap of the utilization and the
queue depth are left out.

### `MetricSnapshot.tla`, `CorrelationEngine.tla`

`MetricSnapshot` is the record that the parts exchange (`core/snapshot.hpp`), and the three
collectors without state as operators from the content of their files to a part of it:
`CollectMemory` (`memory.cpp`, with the fallback for a kernel without `MemAvailable`),
`CollectPsi` (`psi.cpp`), `CollectThermal` (`thermal.cpp`). An optional, a `Result` and a file that
may be unreadable are sequences of at most one element.

`CorrelationEngine` is `analyze` (`correlation.cpp` 7-152): one operator for each of the four
rules, built from `Signal` (a metric above its threshold) and `Rule` (all required evidence is
there). Percentages, degrees and contributions are whole numbers.

### `TerminalDashboard.tla`

| Code (`ui/dashboard.cpp`, `ui/terminal.cpp`) | Model |
|---|---|
| the machine and its files | `machine`, changed by `EndSlice`; `Meminfo`, `PressureFiles`, `ThermalEntries`; external |
| baselines of the CPU, process and disk collectors | `window`: what the machine was, one slice of time after the other, since the last successful reading of each |
| what these collectors compute (`cpu.cpp` 66-108, `process.cpp` 107-119, `disk.cpp` 42-63) | `Measured`, `MeanRates`, `Mean`, presented by `Rate` |
| `run_interactive_loop` 339-373 | `Start`, `ReadKey`, `Quit`, and the frame at the position `pc` |
| `render_snapshot` 278-337 | `Baseline`, six times `Collect`, `Render` with `Record` |
| the five screens and the footer | `render_overview`, `render_cpu_cores`, `render_memory_disk`, `render_processes`, `render_diagnostics`, `render_footer`: what they show |
| `enable_raw_mode`, `disable_raw_mode`, `read_key` | the operators of the same name; typed keys wait in `keys` (`Type`, external) |

Time is cut into slices of equal length; one may end between any two readings (`EndSlice`), and the
machine is then the same or another. A reading may fail. The files are derived from what is really
going on, so a screen can be compared with it; `seen` is what has been going on in the time a frame
stands for. The collectors of rates have modules of their own; here they return what those compute
from two readings of counters, the mean over the slices between them. With 10 % in one slice and 96 %
in the next the load shown is 53 %, which it was at no moment. A temperature of one degree
is left out: the collector takes its 1000 thousandths for 1000 degrees (section 6).

### `TelemetryChart.tla`, `TelemetryPipeline.tla`

| Code (`ui/qt/`) | Model |
|---|---|
| `MainWindow::poll_telemetry` | `poll_telemetry`, with `Polled` for its two new collectors; `CpuReading` is what `CpuCollector::collect` returns with and without a baseline |
| `QtTelemetryBridge::post_snapshot`, the queued connection | `post_snapshot`; `events`, the event queue of the GUI thread |
| another thread that posts | `Post`; external (`docs/gui.md` describes it, the tests do it) |
| `TelemetryModel::update_snapshot` and the slots of the pages and the window | `Deliver`: one event, so one action; one operator for each page |
| `TelemetryModel`'s ring buffer, `TelemetryChart` | `history_buffer_`, `cpu_chart_`, `mem_chart_` with `PushBounded`, `Latest` |
| `ProcessTreeModel` | `update_processes`, `rowCount`, `index`, `data`; `Children` and `Shown`: what a view finds with them at each level |
| `DiagnosisModel`, the incident list | `active_incidents_`, `historical_incidents_`, `incident_list_` |
| clicks | `SelectProcess`, `SelectIncident`, `Navigate` |

### `HistoryPlayback.tla`

| Code (`ui/qt/pages/history_page.cpp`, `playback_controller.cpp`, `history_service.cpp`, `storage/`) | Model |
|---|---|
| the engine of the page, SQLite or mock | `engine`, `initialized_`, `metric_store_`; `query_history` |
| the page's construction | `HistoryPage` |
| a record stored by another thread | `StoreSnapshot` |
| the page's table, chart and records | `history_table_`, `history_chart_`, `current_records_` |
| `PlaybackController` | `records_`, `current_index_`, `active`; `load_records`, `tick` |
| the four buttons | `on_query_clicked`, `on_play_clicked`, `on_pause_clicked`, `on_stop_clicked` |

Both engines keep their records in vectors; of `SqlitePersistenceEngine` no statement reaches a
database. `asked` is history: when the latest query was made and how many records there were.

## 3. Runs

| Run | Shows |
|---|---|
| `queue` | Three consumers, two slots, six pushes: every item is delivered, held or counted; no wake-up is lost; shutdown releases every consumer; no item lies beside a sleeper; where time passes every timed call returns although others steal its items; and the queue implements the channel, which contains delivery in order, at most once, and loss only of the oldest when it is full. |
| `scheduler` | Two overlapping clients, two tasks of three kinds, three ticks, restarts, tasks added before the start and while the worker sleeps, scans or runs a callback. Whatever is added when: a pass leaves no backlog, a returned `stop` leaves no worker, and `stop` returns. As long as no task was added beside a worker: tasks keep their phase, only a `start` that overlaps a `stop` ends the process, and a due task is served unless the scheduler is stopped. |
| `scheduler_late_adds` | Violation, see section 6. |
| `cpu` | Two CPUs that come and go, reads that fail: the shares reported are those of the interval since the last success. |
| `cpu_hotplug` | Violation, see section 6. |
| `process` | Three processes that run, fork, exit and are adopted during a collection: usage is that of the process and the interval, baselines are those of the last collection, and the tree is a forest that shows everything listed, with parents older than children, while no id is re-used. |
| `process_reuse` | Violation, see section 6. |
| `rates` | Two devices that work, vanish and return while they are read, files that fail, a clock that is set, both collectors: a rate is that of the device over the interval, and all rates of a snapshot are over one interval. |
| `profiler` | A workload that ends at any moment of the sampler's loop, with failing readings: CPU samples lie end to end, nothing unlocked is shared at a time, and the call returns. |
| `dashboard` | Four machines (computing, thrashing, and the same with an old kernel), one slice of time that ends and one failed reading in each frame, two keys at any time. By the thresholds of the engine, a pressure that lasts through a frame is reported (`LastingPressureIsReported`). What a screen shows belongs to the frame (`ShownWasTrue`): memory, sensors and pressure were so at some moment of it, each rate lies between the lowest and the highest of its time, also where it is a mean of different machines, a list leaves out nobody who was busier all the time, each sign of a reported condition was there; anything else is zero after a failed reading. The log shows the latest events, newest first (`LogKeepsLatest`), and a typed `q` ends the loop behind any other keys and gives the terminal back (`QuitIsObeyed`). |
| `gui` | Four snapshots, polled by the window or posted by another thread, and clicks in between: all views show the latest snapshot and nothing older, the process tree its processes at whatever level (`ViewsAgree`), ring buffer and charts hold the latest in the order of posting (`ChartsFollowRing`), the inspector shows the selected incident although the list grows (`InspectorShowsRow`), and what is posted is shown (`PostedIsShown`). |
| `history` | Three records stored at any time, two queries, both engines, the four buttons at any time: the end of the chart is what has been played since the last query or stop, in order and without gap (`PlaybackInOrder`), table, playback and page hold what the engine had in the hour before the query (`FoundIsStored`), and a playback ends (`PlaybackEnds`). |

Each property of a passing run is also tried on a mutated definition - the operators commented
as a slip in the modules - and TLC then finds it violated.

**Bounds.** `MaxPush` of 6 with two slots and three consumers lets an item be dropped while
consumers sleep, two consumers be woken for one remaining item, and pushes continue after
shutdown. `MaxTasks` of 2 is the smallest number where one task delays another and where the
vector moves; `MaxClock` of 3 gives an interval of one tick three periods, or a catch-up
and a period after it, beside a task of the other rate. `MaxTicks` of 4 gives the CPU collector
two CPUs that run on both sides of several reads, and `Modulus` of 16 is larger than any true
counter, so that a result beyond `MaxTicks` is a wrap. Three process ids and three births give a
process that forks, exits and leaves a child while its parent's id is given out again.
In `rates` each device counts to one and the clock and an interval reach two, with any number of
collections: enough for a device that works in one interval of two, misses a collection, or
returns with a smaller counter, and for intervals of different length.
The profiler's workload of at most four ticks at an interval of two ends before, at and after the
first sample and in every position of the second; the two ticks beyond let a sleep that has begun
end. In `dashboard` one slice ends in a frame, before or after any of its readings, and each reading
fails once: a rate is the mean of one machine or two, also of two of which one is above and the
other below a threshold, and after a failed baseline a mean over two frames. The machines are at a
threshold or one above it, but for loads and rates. Since `pc` returns to the key and the history
variables start anew, frames repeat without a bound. Up to two new events in a frame, or three where
the machine changes, meet a log of two, and two keys wait. In `gui` four posts overflow a ring
buffer of three and charts of two, leave up to four events in the queue, and make lists of up to
eight incidents with a selected row before and after each delivery; samples with and without
pressure, with more and with fewer cores than bars, and with and without processes make each page
lose what it had. In `history` an hour is one tick and two pass, so that records leave the range
between two queries; three records exceed a chart of two.
All counters of pushes, ticks and births stop at their bounds; no fairness obliges
them to reach it, except time in `profiler`.

**Fairness.** `FairSpec` of the queue assumes only that a runnable thread gets the mutex
eventually; nobody is obliged to push, pop or shut down, and time need not pass. That it does
(`std::condition_variable::wait_for` measures it) is the hypothesis `TimePasses` of
`TimedCallsReturn`. `FairSpec` of the scheduler assumes that the worker thread is scheduled, that
its callbacks return (the code has no way to interrupt one) and that a client inside `stop` goes
on. `FairSpec` of the profiler assumes that both threads are scheduled and that time passes; the
workload need not end, and `ProfileReturns` starts when it has. `Spec` of the dashboard assumes
that its loop goes on: neither reading files of the kernel nor drawing blocks, and its two sleeps are
bounded. `Spec` of the window assumes that the GUI thread runs its event loop, and of the history
page that a running timer fires. Nobody is obliged to type, click, post or store.

## 4. Proofs

The theorems hold for every value of the constants that meets the module's named assumption.

* `BoundedQueue_proofs`. `TypeCorrect` is inductive as it stands. `ItemsCorrect` proves
  `ItemsInv`, the conjunction of `QueueIsLatest`, `DeliveredInOrder`, `Accounting` and
  `LostOnlyWhenFull`: none of them is inductive alone, since that a delivery is in order needs
  that the deque holds the latest items, and what is lost is found from the count.
  `WakeupsCorrect` proves `NoLostWakeup /\ NobodySleepsAfterShutdown`, with the cardinality of the
  set of woken consumers. `QueueImplementsChannel` maps each step to a step of the channel or to a
  stutter.
* `TelemetryScheduler_proofs`. `TypeCorrect` also covers late additions. `StopLeavesNoWorker`
  rests on `LifeInv`, which ties the thread object, `running_` and the clients inside `stop`
  together: at most one client is inside, and only while a worker is joinable. `NoBacklogCorrect`
  holds whatever is added when, since what is appended lies behind the end of the pass. The other
  deadline theorems speak of behaviours as long as `OnTime` holds (the violation run shows why;
  `OnTimeStep`: once false it stays false) and rest on `DeadlineInv`: for
  each task the phase and the rate (`RateCorrect`: none runs more often than its interval
  allows), for the pass that its time is not in the future and that the task in its callback was due.
* `CpuCollector_proofs`. `RangeInv` keeps all counters below the word width, so that a true
  difference never wraps; `TruthInv` says that the baselines and what has been counted since add
  up to the kernel's counters, and that the last snapshot shows its interval. The cap
  (`CapCorrect`) holds on any lines.
* `ProcessCollector_proofs`. `RangeInv` and `TruthInv` as before, for each process, with
  `BaselinesAreListed` tying baselines to the last collection. `TreeCorrect` rests on the order
  of births: a parent is born before its child, adoption included (`KernelInv`), what has been
  read during a collection keeps that order (`EntriesInv`), so the list does while no id is
  re-used (`OlderThanChildren`). From that `ForestCorrect`: a row with `n` older ones is at most
  `n` levels below a root, by induction over `n` (`OlderParentsMakeForest`).
* `RateCollectors_proofs`. `Truth` relates counter, history and what is kept of each device: of
  those handled by the running collection against what it will keep, of the others against the
  last one (`DeviceInv`), and the clock likewise (`ClockInv`); that all baselines carry one stamp
  (`StampInv`) gives `OneInterval`.
* `ApplicationProfiler_proofs`. `ThreadsInv` relates the positions of the two threads.
  `SamplesCorrect` adds `CountersInv` (the collector's baseline is the last successful reading, the
  kernel's counters have only grown since and do not wrap) and `SamplesInv` (the last sample ends
  at that reading; before the launch there is none): a sample then starts where the last one ended
  even when the first reading failed and the sampler sets the baseline.
* `QtInterface_proofs`, about the window and the history page. The four safety properties of the `gui` run
  for any samples, memory and lengths of buffers. `PushLatest` shows of a bounded buffer that it holds the
  latest elements of all there were; with the order of the event queue (`InOrder`) that gives
  `ChartsCorrect`, and with the last element of the buffers `ViewsCorrect`. `InspectorCorrect` rests on
  `RowsMatch`: list and model grow by the same number of elements in the same places and lose none.
  `ViewsCorrect` finds the processes at all levels of the tree (`Levels`, by induction over them). The assumption on
  `Samples` says only that a sample is a snapshot, with lists of cores and processes. Of the history
  page: `HistoryTyped`; `PlaybackCorrect`, since a tick moves the chart and the index together
  (`TickPlaysNext`) and everything else that touches one of them clears both; and `QueryCorrect`, which
  proves of the loop over the records that it finds those of the hour, all of them and each once
  (`FilterLoopResult`), and that a record stored later does not change the answer (`StoreKeepsAnswer`).
* `TerminalDashboard_proofs`. `LogCorrect` proves of the loop that records the diagnoses that it keeps the
  latest events (`RecordKeepsLatest`), for any cap and any number of them. `PressureReported` and
  `ScreenWasTrue` rest on `FrameInv`: neither property is inductive, since each speaks of a frame that is
  complete. Within a frame every baseline is of a machine `seen` in it, and only a failure leaves a
  rate without one (`WindowsInFrame`); each reading already made holds what some machine of
  `seen` shows, a mean over machines of `seen`, or nothing after a failure, each other one is still
  empty (`SnapshotInFrame`). A mean is not below the least of its values nor above the greatest
  (`MeanInBounds`), a mean of values each above the other's is not below the other mean
  (`MeansCompared`), both by induction over the sum. What the machine is like may change at any step: a machine more in `seen` takes
  nothing back (`FrameGrows`). From the parts of a complete snapshot to the screen lead lemmas about
  the collectors (`MemoryIsUsed` with and without `MemAvailable`, `ZonesAreRead`, `ShownParts`) and the engine
  (`EngineReports`: `analyze` names exactly the conditions whose rules fire).

Loops over data. What a loop of the code computes for a sequence of any length (`query_history`, the
recording of diagnoses, the zones of the thermal collector, the levels of the process tree) is a
function defined by recursion over a bounded interval. The induction theorems of the library take an
operator as a parameter, which the provers cannot instantiate; `SetInduction` states induction as a
fact about a set of numbers, from the well-foundedness of `<`, and `Iteration` the existence of the
sequence of values a loop goes through. Three of the proof modules carry these two lemmas.

Only model-checked: liveness (`ShutdownReleases`, `SleeperOrItemGoes`, `TimedCallsReturn`,
`StopReturns`, `DueTaskIsServed`, `ProfileReturns`, `QuitIsObeyed`, `PostedIsShown`,
`PlaybackEnds`), which is beyond the prover. Every safety invariant and every action property of the
passing runs, and the refinement, is a theorem.

Proved and in no run of their own: the type invariants of the queue, the scheduler and the
collectors; `DeliveredInOrder`, `LostOnlyWhenFull` (both also part of what `ImplementsChannel`
says), `QueueIsLatest`, `NobodySleepsAfterShutdown`; `NeverTooOften` of the scheduler;
`NeverAboveWhole` of the CPU collector.

## 5. What is not modelled

* Parsing of text, formatting, drawing and widgets: no state, or layout.
* File readers and capability probes: pure I/O. `RealNetlinkReader` and the accelerator backends:
  no part of the program asks them for anything, so nothing can go wrong with the answer. The
  dashboard leaves the GPU and network parts of its snapshots empty.
* IPC (`ipc/real_ipc.cpp`): client and server share no state, exchange no message, and no part
  of the program creates either.
* Command line and the load generators under `tools/`: they call the parts above, once each. A
  signal that ends the program while the terminal is raw (there is no handler) is not an action.
* In the scheduler, a callback that calls `stop` (it would join itself) and intervals of zero.
* In the collectors, fields copied from a file without computation.
* Of persistence, the records of diagnoses; of the Qt interface, `PlaybackController::set_speed` and
  `TelemetryModel::raise_diagnosis`: nobody calls them.

## 6. Findings

* `scheduler_late_adds`: `add_task` during a callback moves the vector under the worker's
  range-for; the rescheduling is written to freed memory and the task drifts or runs again.
* `cpu_hotplug`: lines of different CPUs are subtracted after a hot-plug; only the total has a cap.
* `process_reuse`: a process with a re-used id is compared with the CPU time of the other.

Four places where the documents promise what the code does not do, read off the code; the models
have them as they are, and no property claims the contrary:

* The thresholds of the engine (`correlation.cpp:22,64-65,94,124`) are not those of
  `docs/diagnostics.md:8-11`. A machine with 8 % of its memory available and a memory PSI of 3 %, or with
  a disk at 90 % and an I/O PSI of 5 %, is under pressure by the document and healthy on the screen;
  a hot sensor is reported without the drop of the frequency the document asks for.
  `LastingPressureIsReported` goes by the engine's own thresholds and says nothing of such machines.
* Each poll of the window makes a new `CpuCollector`, whose first reading only sets a baseline
  (`main_window.cpp:88`): of a busy machine the chart and the figures that `README.md:115-117,127` call
  real-time show zero, unless another thread posts snapshots (`CpuReading`, `Polled`). `ViewsAgree` compares
  the views with the snapshot, not with the machine.
* `update_processes` hangs every process below the root (`process_tree_model.cpp:116`), where
  `README.md:127,183` and `CHANGELOG.md:11` have a parent-child tree. `ViewsAgree` leaves open at which level
  of the tree a process is.
* `add_task` notifies nobody (`scheduler.cpp:13-20`), so a worker that sleeps to the deadline of a slow task
  sleeps past that of a fast one added meanwhile; `README.md:167` promises independent rates. `PhaseKept`
  speaks of tasks added before the start; what is added during a sleep is covered by `NoBacklog` and
  `StopReturns` only.

Observations without a run:

* One worker runs all callbacks of the scheduler, so a slow one delays the other tasks.
* With re-used ids the list of one collection can hold a process and its ancestor each as the other's
  parent, of which `build_process_tree` shows neither (the passing run excludes re-use in its
  tree properties).
* A frame of the dashboard takes 200 ms for the rates and then the 500 ms of the refresh, which
  the interface calls its period (`dashboard.cpp:259-276`, `main.cpp:93`).
* When `/proc/stat` cannot be read the list of cores is empty, and with no GPU the thermal rule is then
  not evaluated, however hot the zones are (`correlation.cpp:10`).
* A `MemAvailable` of 0 is taken for a missing one and replaced by free and cached memory
  (`memory.cpp:39-42`); a zone of up to 1000 thousandths of a degree is taken for degrees
  (`thermal.cpp:31`).
* The window's own polls collect no pressure, processes or sensors (`main_window.cpp:88-98`).
  `DiagnosisModel` never clears its active incidents.
* A rate of a device that was reset, or over a clock that was set, wraps (`disk.cpp:45`); `RateIsTrue` leaves
  these out.
* No part of the program stores into the engine of the history page (`docs/gui.md:25` says
  otherwise). Neither engine looks at the metric of a query, the mock not at the range either, and
  records are in the order of storing, not of time. A finished playback keeps its index: Play then
  only finishes it again until Stop.

## 7. Plan

The order was that of importance: threads and their data structures first, what feeds them next,
then the views.

| Step | Modules | Composes |
|---|---|---|
| done | `SlidingWindowChannel`, `BoundedQueue`, `TelemetryScheduler`, `CpuCollector`, `ProcessCollector`, `RateCollectors`, `ApplicationProfiler` | the profiler an instance of `CpuCollector`; the queue an instance of the channel |
| done | `MetricSnapshot`, `CorrelationEngine` | |
| done | `TelemetryChart`, `TelemetryPipeline` | snapshot, engine and charts |
| done | `HistoryPlayback` | engine, page, playback and chart |
| done | `TerminalDashboard` | snapshot, engine, loop, terminal |
| when they get a user | netlink dump, IPC life cycle, the scheduler and the queue between collectors and consumers as `docs/telemetry-pipeline.md` describes | `TelemetryScheduler`, `BoundedQueue`, `TelemetryPipeline` |

Theorems still wanted: a type invariant of the dashboard's keys and terminal, and of the window's pages.
