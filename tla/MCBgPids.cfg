\* The buffer grows from 1 to 2, then to 4 cells, wraps around at either size,
\* and may be cleared and allocated anew.
CONSTANTS
    Pids = {1, 2, 3}
    Statuses = {0, 1}
    Buckets = {0, 1}
    Hash <- MCHash
    TableSize = 1
    MaxChildMax = 4
    DefaultLimit = 2
    Requests = {0, 3}
    MaxNpid = 4
SPECIFICATION HistorySpec
INVARIANTS TypeOK LinksOK NeverSkips  
INVARIANT KeepsLastStatuses
PROPERTY ImplementsList
CHECK_DEADLOCK FALSE
