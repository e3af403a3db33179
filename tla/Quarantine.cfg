\* What becomes of a fill that would cross zero.
SPECIFICATION Spec
CONSTANTS
    Fill = {f1, f2}
    Account = {a1}
    Qty = {1, 2}
    Time = {1, 2}
    TicksPerDay = 2
    Family = "FO"
    NULL = NULL
    MaxBatch = 2
    SoftDeletes = FALSE
SYMMETRY FillSymmetry
\* The supply of fill ids is finite: when it is used up the system stops.
CHECK_DEADLOCK FALSE
PROPERTIES
    CrossingFillIsQuarantined
