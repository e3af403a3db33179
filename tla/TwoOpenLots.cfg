\* A deleted open trade leaves its lot behind.
SPECIFICATION Spec
CONSTANTS
    Fill = {f1, f2}
    Account = {a1}
    Qty = {1, 2}
    Time = {1}
    TicksPerDay = 1
    Family = "DELIVERY"
    NULL = NULL
    MaxBatch = 1
    SoftDeletes = TRUE
SYMMETRY FillSymmetry
\* The supply of fill ids is finite: when it is used up the system stops.
CHECK_DEADLOCK FALSE
INVARIANTS
    AtMostOneOpenLot
