\* Two accounts of one user hold DELIVERY trades of one instrument, with deletions.
SPECIFICATION Spec
CONSTANTS
    Fill = {f1, f2, f3, f4}
    Account = {a1, a2}
    Qty = {1, 2}
    Time = {1}
    TicksPerDay = 1
    Family = "DELIVERY"
    NULL = NULL
    MaxBatch = 4
    SoftDeletes = TRUE
SYMMETRY Symmetry
\* The supply of fill ids is finite: when it is used up the system stops.
CHECK_DEADLOCK FALSE
INVARIANTS
    ClosedTradeLotClosed
    LotsConserved
    LotMirrorsTrade
