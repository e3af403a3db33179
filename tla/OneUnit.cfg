\* One account's F&O unit, with deletions: trades, roles, runs and history.
SPECIFICATION Spec
CONSTANTS
    Fill = {f1, f2, f3, f4}
    Account = {a1}
    Qty = {1, 2}
    Time = {1, 2}
    TicksPerDay = 2
    Family = "FO"
    NULL = NULL
    MaxBatch = 2
    SoftDeletes = TRUE
SYMMETRY FillSymmetry
\* The supply of fill ids is finite: when it is used up the system stops.
CHECK_DEADLOCK FALSE
INVARIANTS
    TypeOK
    OneOpenTrade
    RunAgreesWithTables
    NoOrphanFill
    FillsMatchTrades
    TradesAddUp
PROPERTIES
    HistoryIsFinal
    ImplementsPositionBook
