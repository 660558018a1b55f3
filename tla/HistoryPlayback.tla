---------------------------- MODULE HistoryPlayback ----------------------------
(***************************************************************************)
(* The history page of the desktop interface: a persistence engine         *)
(* (src/src/storage/sqlite_persistence.cpp or the mock of persistence.hpp, *)
(* both of which keep their records in memory), HistoryService,            *)
(* PlaybackController and HistoryPage (src/src/ui/qt).                     *)
(*                                                                         *)
(* Snapshots are stored by other threads, as the tests do and the          *)
(* documentation says of the telemetry engine (docs/gui.md:25); in the     *)
(* program as it is nobody stores into the page's own engine.  Of a record *)
(* its time and its value are kept, of diagnoses, which the page never     *)
(* asks for, nothing.  How long the timer's interval is does not matter.   *)
(***************************************************************************)
EXTENDS TelemetryChart, FiniteSets

CONSTANTS Values,       \* what may be stored
          HOUR,         \* how far a query reaches back
          Metrics,      \* the choices of the metric selector
          MaxTime,      \* bound of the model: time that passes
          MaxStores,    \* bound of the model: records stored
          MaxQueries    \* bound of the model: queries made

ASSUME HistoryAssumption == MAX_POINTS \in Nat \ {0} /\ HOUR \in Nat

VARIABLES engine,           \* the implementation of IPersistenceEngine
          now,              \* HOUR at least: the epoch is long ago
          initialized_,     \* of the engine
          metric_store_,
          queries,          \* queries made
          asked,            \* history: time of the latest query, and the number of
                            \* records the engine had then
          current_records_, \* of the page
          history_table_,   \* its rows
          history_chart_,
          records_,         \* of the playback
          current_index_,   \* number of records played
          active            \* the playback's timer is running

store == <<engine, now, initialized_, metric_store_>>
found == <<queries, asked, current_records_, history_table_>>
playback == <<records_, current_index_, active>>
historyVars == <<store, found, history_chart_, playback>>

ValuesOf(records) == [i \in 1 .. Len(records) |-> records[i].value]

-------------------------------------------------------------------------------
(* The engines.                                                            *)

\* A slip: the first moment of the range is left out.
InRangeOpen(record, start, end) == record.timestamp_ns > start /\ record.timestamp_ns <= end

InRange(record, start, end) == record.timestamp_ns >= start /\ record.timestamp_ns <= end

\* The loop over the records: what it has found after the first n of them.
RecordsInRange(records, start, end) ==
    LET result[n \in 0 .. Len(records)] ==
            IF n = 0 THEN <<>>
            ELSE IF InRange(records[n], start, end) THEN Append(result[n - 1], records[n])
            ELSE result[n - 1]
    IN  result[Len(records)]

\* Neither engine looks at the metric, and the mock not at the range either.
query_history(metric, start, end) ==
    IF engine = "sqlite" THEN RecordsInRange(metric_store_, start, end) ELSE metric_store_

HistoryInit ==
        /\ engine \in {"sqlite", "mock"}
        /\ now = HOUR
        /\ initialized_ = FALSE
        /\ metric_store_ = <<>>
        /\ queries = 0 /\ asked = [at |-> HOUR, stored |-> 0]
        /\ current_records_ = <<>> /\ history_table_ = <<>> /\ history_chart_ = <<>>
        /\ records_ = <<>> /\ current_index_ = 0 /\ active = FALSE

TimePasses == /\ now < HOUR + MaxTime
              /\ now' = now + 1
              /\ UNCHANGED <<engine, initialized_, metric_store_, found, history_chart_,
                             playback>>

\* The page is made and initializes its engine.
HistoryPage == /\ ~initialized_
               /\ initialized_' = TRUE
               /\ UNCHANGED <<engine, now, metric_store_, found, history_chart_, playback>>

\* A snapshot taken now or some time ago is stored; the engine has a lock.  It
\* refuses as long as it is not initialized.
StoreSnapshot ==
    /\ Len(metric_store_) < MaxStores
    /\ \E t \in 0 .. now, v \in Values :
          metric_store_' = IF initialized_
                           THEN Append(metric_store_, [timestamp_ns |-> t, value |-> v])
                           ELSE metric_store_
    /\ UNCHANGED <<engine, now, initialized_, found, history_chart_, playback>>

(* PlaybackController.                                                     *)

\* A slip: new records do not start at the beginning.
load_records_only(records) == /\ records_' = records
                              /\ UNCHANGED current_index_

\* A running timer goes on with the new records.
load_records(records) == /\ records_' = records
                         /\ current_index_' = 0

\* A slip: a playback that is over has to be stopped by the user.
FinishAndWait == UNCHANGED active

Finish == active' = FALSE

\* The timer fires: the next record is played, or the playback is finished.
tick == /\ active
        /\ IF current_index_ >= Len(records_)
           THEN Finish /\ UNCHANGED <<current_index_, history_chart_>>
           ELSE /\ current_index_' = current_index_ + 1
                /\ history_chart_' = append_sample(history_chart_,
                                                   records_[current_index_ + 1].value)
                /\ UNCHANGED active
        /\ UNCHANGED <<store, found, records_>>

(* The buttons of the page.                                                *)

on_query_clicked ==
    /\ initialized_
    /\ queries < MaxQueries
    /\ \E metric \in Metrics :
          LET records == query_history(metric, now - HOUR, now)
          IN  /\ current_records_' = records
              /\ load_records(records)
              /\ history_table_' = [i \in 1 .. Len(records) |-> records[i]]
              /\ history_chart_' = update_series(ValuesOf(records))
    /\ queries' = queries + 1
    /\ asked' = [at |-> now, stored |-> Len(metric_store_)]
    /\ UNCHANGED <<store, active>>

on_play_clicked == /\ initialized_
                   /\ active' = (active \/ records_ # <<>>)
                   /\ UNCHANGED <<store, found, history_chart_, records_, current_index_>>

on_pause_clicked == /\ initialized_
                    /\ active' = FALSE
                    /\ UNCHANGED <<store, found, history_chart_, records_, current_index_>>

on_stop_clicked == /\ initialized_
                   /\ active' = FALSE
                   /\ current_index_' = 0
                   /\ UNCHANGED <<store, found, history_chart_, records_>>

-------------------------------------------------------------------------------
HistoryNext == \/ TimePasses \/ HistoryPage \/ StoreSnapshot
               \/ tick
               \/ on_query_clicked \/ on_play_clicked \/ on_pause_clicked \/ on_stop_clicked

\* A running timer fires.
HistorySpec == HistoryInit /\ [][HistoryNext]_historyVars /\ WF_historyVars(tick)

-------------------------------------------------------------------------------
\* However often the user plays, pauses, stops and queries again, and whatever was
\* on the chart before: its latest points are the records played since the last
\* stop or query, in their order and none left out or shown twice.
PlaybackInOrder ==
    /\ current_index_ <= Len(records_)
    /\ \A k \in 1 .. Smaller(MAX_POINTS, current_index_) :
          /\ k <= Len(history_chart_)
          /\ history_chart_[Len(history_chart_) + 1 - k]
                = records_[current_index_ + 1 - k].value

\* Table, playback and page hold the same records: those that the engine had when
\* the query was made and whose time is in the hour before it, all of them and, of
\* the SQLite engine, no other; records stored since do not slip in.
FoundIsStored ==
    LET had == 1 .. asked.stored
        wanted == {i \in had : /\ metric_store_[i].timestamp_ns <= asked.at
                               /\ asked.at - metric_store_[i].timestamp_ns <= HOUR}
        Kept(S) == {metric_store_[i] : i \in S}
    IN  /\ history_table_ = current_records_ /\ records_ = current_records_
        /\ LET answer == IF engine = "sqlite" THEN wanted ELSE had
           IN  /\ Kept(wanted) \subseteq {records_[i] : i \in 1 .. Len(records_)}
               /\ {records_[i] : i \in 1 .. Len(records_)} = Kept(answer)
               /\ Len(records_) = Cardinality(answer)

\* A playback comes to its end, or the user ends it.
PlaybackEnds == active ~> ~active
===============================================================================
