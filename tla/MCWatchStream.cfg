CONSTANTS
    Watcher = {w1}
    MaxHistory = 2
    MaxBytes = 3
    RingSize = 2
    Length = {1, 2, 4}
    MaxEvents = 4
SPECIFICATION FairSpec
INVARIANTS TypeOK HistoryIsRecent InOrder MissedMeansLagged
PROPERTIES StreamsEnd ImplementsFeed
CHECK_DEADLOCK FALSE
