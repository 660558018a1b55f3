--------------------------- MODULE TelemetryPipeline ---------------------------
(***************************************************************************)
(* The desktop interface: sysscope::ui::qt::MainWindow, QtTelemetryBridge, *)
(* TelemetryModel, DiagnosisModel, ProcessTreeModel and the pages that     *)
(* show a snapshot (src/src/ui/qt).                                        *)
(*                                                                         *)
(* A snapshot posted to the bridge waits in the event queue of the GUI     *)
(* thread.  When it is taken out, the model stores it and calls each page  *)
(* and the window in turn; as that is one event, nothing on the thread     *)
(* comes in between.  The window's own timer posts, and so may any other   *)
(* thread: in the documented architecture (docs/gui.md) the telemetry      *)
(* engine does, in the tests and in this program nobody yet.               *)
(***************************************************************************)
EXTENDS CorrelationEngine, TelemetryChart

CONSTANTS Samples,      \* the snapshots another thread may post
          Loads,        \* the load of the machine when the timer fires
          Meminfos,     \* what /proc/meminfo may contain, or <<>>
          CORES,        \* number of CPUs of the machine
          BARS,         \* the 16 bars of the CPU page
          PAGES,        \* the 7 pages
          MAX_RING_BUFFER_SIZE, \* 600
          MaxPosts      \* bound of the model

\* A snapshot gets its time when it is posted.
ASSUME PipelineAssumption ==
    /\ {MAX_RING_BUFFER_SIZE, MAX_POINTS, BARS, PAGES} \subseteq Nat \ {0}
    /\ CORES \in Nat
    /\ \A s \in Samples :
          /\ s = [field \in DOMAIN NoSnapshot |-> s[field]]
          /\ s.timestamp = 0
          /\ s.cpu.per_core \in Seq(Nat)
          /\ s.processes \in Seq([pid : Nat, ppid : Nat, cpu_percent : Nat])

VARIABLES posted,           \* number of snapshots posted, also the time
          events,           \* dispatched and not yet delivered to the model
          delivered,        \* history: what was delivered
          latest_, history_buffer_,
          kpi,              \* the labels of the first page
          cpu_chart_, mem_chart_,
          core_bars_,       \* <<>> is a hidden bar
          memory_labels,
          psi_labels,       \* <<>> is "N/A"
          root_,            \* the process tree
          process_detail,   \* the inspected process
          incident_list_,   \* rows of the incident list
          active_incidents_, historical_incidents_,
          incident_row,     \* the selected row, or 0
          incident_detail,  \* the inspected incident
          status_label_,
          page              \* the visible page

model == <<latest_, history_buffer_>>
pages == <<kpi, cpu_chart_, mem_chart_, core_bars_, memory_labels, psi_labels, root_>>
incidents == <<incident_list_, active_incidents_, historical_incidents_>>
selection == <<process_detail, incident_row, incident_detail, page>>
vars == <<posted, events, delivered, model, pages, incidents, status_label_, selection>>

-------------------------------------------------------------------------------
(* ProcessTreeModel: a node for each process, all of them children of the  *)
(* root, whatever their ppid; README.md:127 and CHANGELOG.md:11 speak of a *)
(* tree of parents and children.                                           *)

Node(info) == [pid |-> info.pid, ppid |-> info.ppid, cpu_percent |-> info.cpu_percent,
               parent |-> "root", children |-> <<>>]

NoTree == [parent |-> "none", children |-> <<>>]

\* The model is reset: every selection in the view is gone.
update_processes(processes) ==
    [NoTree EXCEPT !.children = [i \in 1 .. Len(processes) |-> Node(processes[i])]]

rowCount(node) == Len(node.children)

\* The node of a row, or none.
index(row, node) == IF row \in 1 .. rowCount(node) THEN <<node.children[row]>> ELSE <<>>

data(node) == [pid |-> node.pid, ppid |-> node.ppid, cpu_percent |-> node.cpu_percent]

\* What a view finds below a node, and in the first levels of a tree.
Children(node) == {Value(index(row, node)) : row \in 1 .. rowCount(node)}
Shown(root, levels) ==
    LET level[n \in 0 .. levels] ==
            IF n = 0 THEN {root} ELSE UNION {Children(node) : node \in level[n - 1]}
    IN  UNION {level[n] : n \in 1 .. levels}

-------------------------------------------------------------------------------
(* The slots connected to snapshot_updated, in the order of connection.    *)

DashboardPage(s) ==
    /\ kpi' = [cpu |-> s.cpu.total_utilization, memory |-> s.memory.utilization_percent,
               psi |-> s.psi]
    /\ cpu_chart_' = append_sample(cpu_chart_, s.cpu.total_utilization)
    /\ mem_chart_' = append_sample(mem_chart_, s.memory.utilization_percent)

\* The bars of cores the machine does not have are hidden.
CpuPage(s) ==
    core_bars_' = [i \in 1 .. BARS |->
                     IF i <= Len(s.cpu.per_core) THEN <<s.cpu.per_core[i]>> ELSE <<>>]

MemoryPage(s) == memory_labels' = s.memory

\* A slip: without PSI the labels stay as they are.
PsiPageKeeps(s) == psi_labels' = IF Has(s.psi) THEN s.psi ELSE psi_labels

PsiPage(s) == psi_labels' = s.psi

ProcessPage(s) == root_' = update_processes(s.processes)

\* A diagnosis as it is stored in the model and as a row of the list.
Event(s, d) == [start_time |-> s.timestamp, condition |-> d.condition,
                evidence |-> d.evidence]
Item(s, d) == [start_time |-> s.timestamp, condition |-> d.condition,
               signals |-> Len(d.evidence)]

\* A slip: the latest incident goes to the top of the list.
DiagnosticsPageOnTop(s) ==
    LET diagnoses == analyze(s)
        new == [i \in 1 .. Len(diagnoses) |-> Event(s, diagnoses[i])]
    IN  /\ active_incidents_' = active_incidents_ \o new
        /\ historical_incidents_' = historical_incidents_ \o new
        /\ incident_list_' = Reverse([i \in 1 .. Len(diagnoses) |-> Item(s, diagnoses[i])])
                             \o incident_list_

\* Every diagnosis is added to the model and to the list; nothing is removed.
DiagnosticsPage(s) ==
    LET diagnoses == analyze(s)
        new == [i \in 1 .. Len(diagnoses) |-> Event(s, diagnoses[i])]
    IN  /\ active_incidents_' = active_incidents_ \o new
        /\ historical_incidents_' = historical_incidents_ \o new
        /\ incident_list_' = incident_list_
                             \o [i \in 1 .. Len(diagnoses) |-> Item(s, diagnoses[i])]

StatusBar(s) == status_label_' = [cpu |-> s.cpu.total_utilization,
                                  memory |-> s.memory.utilization_percent]

-------------------------------------------------------------------------------
\* The labels of a page just made show zeroes.
NoPressure == CollectPsi([source \in {"cpu", "memory", "io"} |-> <<>>])

Init == /\ posted = 0 /\ events = <<>> /\ delivered = <<>>
        /\ latest_ = NoSnapshot /\ history_buffer_ = <<>>
        /\ kpi = [cpu |-> 0, memory |-> 0, psi |-> NoPressure]
        /\ cpu_chart_ = <<>> /\ mem_chart_ = <<>>
        /\ core_bars_ = [i \in 1 .. BARS |-> <<0>>]
        /\ memory_labels = NoMemory
        /\ psi_labels = NoPressure
        /\ root_ = NoTree
        /\ incident_list_ = <<>> /\ active_incidents_ = <<>> /\ historical_incidents_ = <<>>
        /\ status_label_ = [cpu |-> 0, memory |-> 0]
        /\ process_detail = <<>> /\ incident_row = 0 /\ incident_detail = <<>>
        /\ page = 1

\* The snapshot is copied into the queue.
post_snapshot(s) ==
    /\ posted < MaxPosts
    /\ posted' = posted + 1
    /\ events' = Append(events, [s EXCEPT !.timestamp = posted + 1])
    /\ UNCHANGED <<delivered, model, pages, incidents, status_label_, selection>>

\* CpuCollector::collect: without a baseline, the reading has a line for each core
\* and shows no load.
CpuReading(load, baseline) ==
    LET shown == IF baseline THEN load ELSE 0
    IN  [NoCpu EXCEPT !.total_utilization = shown, !.per_core = [i \in 1 .. CORES |-> shown]]

\* What two collectors made for this poll return, either of which may fail; the new
\* collector of the processor has no baseline, so that the chart README.md:117 calls
\* real-time shows no load on any poll.
Polled(load, readable, meminfo) ==
    LET memory == CollectMemory(meminfo)
    IN  [NoSnapshot EXCEPT !.cpu = IF readable THEN CpuReading(load, FALSE) ELSE NoCpu,
                           !.memory = IF Has(memory) THEN Value(memory) ELSE NoMemory]

poll_telemetry == \E load \in Loads, readable \in BOOLEAN, meminfo \in Meminfos :
                      post_snapshot(Polled(load, readable, meminfo))

\* Another thread posts a snapshot it has taken.
Post == \E s \in Samples : post_snapshot(s)

\* A slip: only the first page has its events handled.
TakeOnFirstPage == /\ events # <<>> /\ page = 1
                   /\ events' = Tail(events)

\* The event loop of the GUI thread.
Take == /\ events # <<>>
        /\ events' = Tail(events)

\* update_snapshot and the slots connected to it.
Deliver ==
    /\ Take
    /\ LET s == Head(events)
       IN  /\ delivered' = Append(delivered, s)
           /\ latest_' = s
           /\ history_buffer_' = PushBounded(history_buffer_, s, MAX_RING_BUFFER_SIZE)
           /\ DashboardPage(s) /\ CpuPage(s) /\ MemoryPage(s) /\ PsiPage(s)
           /\ ProcessPage(s) /\ DiagnosticsPage(s) /\ StatusBar(s)
    /\ UNCHANGED <<posted, selection>>

\* A click on a row of the process tree.
SelectProcess ==
    /\ \E row \in 1 .. rowCount(root_) :
          process_detail' = <<data(Value(index(row, root_)))>>
    /\ UNCHANGED <<posted, events, delivered, model, pages, incidents, status_label_,
                   incident_row, incident_detail, page>>

\* Another row of the incident list becomes the current one.
SelectIncident ==
    /\ \E row \in 1 .. Len(incident_list_) :
          /\ incident_row' = row
          /\ incident_detail' = IF row <= Len(historical_incidents_)
                                THEN <<historical_incidents_[row]>> ELSE incident_detail
    /\ UNCHANGED <<posted, events, delivered, model, pages, incidents, status_label_,
                   process_detail, page>>

\* A row of the sidebar is chosen.
Navigate == /\ page' \in 1 .. PAGES
            /\ UNCHANGED <<posted, events, delivered, model, pages, incidents,
                           status_label_, process_detail, incident_row, incident_detail>>

Next == poll_telemetry \/ Post \/ Deliver \/ SelectProcess \/ SelectIncident \/ Navigate

\* The GUI thread takes the events out of its queue.
Spec == Init /\ [][Next]_vars /\ WF_events(Take)

-------------------------------------------------------------------------------
\* Whatever the page, it shows the snapshot the model calls its latest, and no
\* part of an earlier one: also where the latest has no pressure, fewer cores or
\* no processes.  Which level of the tree a process is at is left open, and so is
\* whether the load a snapshot brings is that of the machine.
ViewsAgree ==
    delivered # <<>> =>
        LET s == latest_
        IN  /\ s = history_buffer_[Len(history_buffer_)]
            /\ kpi = [cpu |-> s.cpu.total_utilization, psi |-> psi_labels,
                      memory |-> memory_labels.utilization_percent]
            /\ psi_labels = s.psi
            /\ memory_labels = s.memory
            /\ status_label_ = [cpu |-> kpi.cpu, memory |-> kpi.memory]
            /\ cpu_chart_[Len(cpu_chart_)] = kpi.cpu
            /\ \A i \in 1 .. BARS :
                  core_bars_[i] = IF i \in DOMAIN s.cpu.per_core THEN <<s.cpu.per_core[i]>>
                                                                 ELSE <<>>
            /\ {data(node) : node \in Shown(root_, Len(s.processes) + 1)}
                  = ToSet(s.processes)

\* The ring buffer holds the latest of all snapshots in the order they were
\* posted, and the charts, cut at another length, the same times.
ChartsFollowRing ==
    /\ Len(delivered \o events) = posted
    /\ \A i \in 1 .. posted : (delivered \o events)[i].timestamp = i
    /\ history_buffer_ = Latest(MAX_RING_BUFFER_SIZE, delivered)
    /\ cpu_chart_ = Latest(MAX_POINTS, [i \in 1 .. Len(delivered) |->
                                          delivered[i].cpu.total_utilization])
    /\ mem_chart_ = Latest(MAX_POINTS, [i \in 1 .. Len(delivered) |->
                                          delivered[i].memory.utilization_percent])

\* The inspector shows the incident of the selected row, however many incidents
\* have come since the list was drawn or the row was chosen.
InspectorShowsRow ==
    incident_row # 0 =>
        /\ Has(incident_detail)
        /\ LET item == incident_list_[incident_row]
               shown == Value(incident_detail)
           IN  [start_time |-> shown.start_time, condition |-> shown.condition,
                signals |-> Len(shown.evidence)] = item

\* Every snapshot posted is delivered at some time: the queue becomes empty again
\* and again.
PostedIsShown == []<>(events = <<>>)
===============================================================================
