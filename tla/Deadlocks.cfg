\* Two lookups over two open trades of one unit, among deletions.
SPECIFICATION Spec
CONSTANTS
    Session = {s1, s2}
    Fill = {1, 2, 3, 4}
    Account = {a1}
    Qty = {1}
    Time = {1}
    TicksPerDay = 1
    Family = "FO"
    NULL = NULL
    MaxBatch = 1
    SoftDeletes = TRUE
\* The supply of fill ids is finite: when it is used up the system stops.
CHECK_DEADLOCK FALSE
INVARIANT DeadlockNeedsTwoTrades
