\* A trade entered and closed in one request, with its planned stop.
SPECIFICATION Spec
CONSTANTS
    NULL = NULL
    RateScale = 100
    RScale = 10
    Session = {s2}
    Editors = {}
    Writers = {s2}
    Uploaders = {}
    Price = {100, 105}
    Stop = {96, 105}
    Date = {1, 2}
    MaxQty = 2
    Note = {}
    Places = {0}
    MaxAudit = 0
    Migrations <- MCMigrations
    Attachment = {a1}
    Size = {1, 3}
    MaxBytes = 2
    TradeQuota = 2
    UserQuota = 5
    OtherBytes = 3
INVARIANT PlannedStopGivesR
