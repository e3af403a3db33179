\* Two sessions on one unit under fairness: row locks are always released.
SPECIFICATION FairSpec
CONSTANTS
    Session = {s1, s2}
    Fill = {1, 2}
    Account = {a1}
    Qty = {1, 2}
    Time = {1}
    TicksPerDay = 1
    Family = "FO"
    NULL = NULL
    MaxBatch = 2
    SoftDeletes = TRUE
\* The supply of fill ids is finite: when it is used up the system stops.
CHECK_DEADLOCK FALSE
PROPERTY SessionsEnd
