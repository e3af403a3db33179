\* The averages of the hold-duration endpoint against its buckets.
SPECIFICATION Spec
CONSTANTS
    NULL = NULL
    MinSample = 2
    Window = 2
    RuinThreshold <- MCRuinThreshold
    Trade = {1, 2, 3, 4}
    Profile <- MCProfile
    Account = {"A", "B"}
    Capital <- MCCapital
    Filters <- MCFilters
    Today = 3
    MonthStart = 2
    WeekStart = 3
    Moving = {2, 3}
INVARIANT FilterReachesEveryQuery
