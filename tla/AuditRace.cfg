\* Two sessions that save the same entry.
SPECIFICATION Spec
CONSTANTS
    NULL = NULL
    RateScale = 100
    RScale = 10
    Session = {s1, s2}
    Editors = {s1, s2}
    Writers = {s2}
    Uploaders = {}
    Price = {100}
    Stop = {96, 97}
    Date = {1}
    MaxQty = 1
    Note = {n1}
    Places = {0}
    MaxAudit = 2
    Migrations <- MCMigrations
    Attachment = {a1}
    Size = {1, 3}
    MaxBytes = 2
    TradeQuota = 2
    UserQuota = 5
    OtherBytes = 3
INVARIANT AuditExplainsEntry
