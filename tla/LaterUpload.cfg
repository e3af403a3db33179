\* One attachment uploaded to again while its URL is good.
SPECIFICATION Spec
CONSTANTS
    NULL = NULL
    RateScale = 100
    RScale = 10
    Session = {s1, s2}
    Editors = {}
    Writers = {s2}
    Uploaders = {s1, s2}
    Price = {100}
    Stop = {96}
    Date = {1}
    MaxQty = 1
    Note = {}
    Places = {0}
    MaxAudit = 0
    Migrations <- MCMigrations
    Attachment = {a1}
    Size = {1, 3}
    MaxBytes = 2
    TradeQuota = 2
    UserQuota = 5
    OtherBytes = 3
INVARIANT
    ConfirmedWithinLimit
