\* Three uploads of three overlapping files into two accounts, two at a time.
SPECIFICATION FairSpec
CONSTANTS
    Session = {s1, s2}
    Account = {a1, a2}
    File = {"a", "b", "c"}
    BrokerId = {1, 2, 3, 4, 5}
    Unit = {"u", "v"}
    Rows <- MCRows
    ByHand <- MCByHand
    MaxUploads = 3
    NULL = NULL
\* The supply of uploads is finite: when it is used up the system stops.
CHECK_DEADLOCK FALSE
INVARIANTS
    TypeOK
    NoFillLeftBehind
PROPERTIES
    ImplementsLedger
    ImportsEnd
