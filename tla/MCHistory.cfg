\* Three records, older and younger than the reach of a query, under both engines;
\* two queries and a chart of two points.
CONSTANTS
    Values = {10, 20}
    Metrics = {"cpu_utilization", "memory_utilization"}
    HOUR = 1
    MAX_POINTS = 2
    MaxTime = 2
    MaxStores = 3
    MaxQueries = 2
SPECIFICATION HistorySpec
INVARIANTS
    PlaybackInOrder
    FoundIsStored
PROPERTIES
    PlaybackEnds
