\* One file, uploaded into two accounts, one after the other.
SPECIFICATION Spec
CONSTANTS
    Session = {s1}
    Account = {a1, a2}
    File = {"a", "b", "c"}
    BrokerId = {1, 2, 3, 4, 5}
    Unit = {"u", "v"}
    Rows <- MCRows
    ByHand <- MCByHand
    MaxUploads = 2
    NULL = NULL
CHECK_DEADLOCK FALSE
INVARIANT KeyedByAccount
