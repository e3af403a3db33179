\* Four trades, two accounts, three filters, one commit during a request.
SPECIFICATION Spec
CONSTANTS
    NULL = NULL
    MinSample = 2
    Window = 2
    RuinThreshold <- MCRuinThreshold
    Trade = {1, 2, 3, 4}
    Profile <- MCProfile
    Account = {"A", "B"}
    Capital <- MCCapital
    Filters <- MCFilters
    Today = 3
    MonthStart = 2
    WeekStart = 3
    Moving = {2, 3}
INVARIANTS
    TypeOK
    PartsAddUp
    ExpectancyAgrees
    CurveMetricsSound
    RuinMatchesFinals
    DashboardAgrees
    SummaryAddsUp
