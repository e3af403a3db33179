\* One attachment: two sessions that upload, one of which also saves the entry.
SPECIFICATION Spec
CONSTANTS
    NULL = NULL
    RateScale = 100
    RScale = 10
    Session = {s1, s2}
    Editors = {s1}
    Writers = {s2}
    Uploaders = {s1, s2}
    Price = {100}
    Stop = {96}
    Date = {1}
    MaxQty = 1
    Note = {}
    Places = {0}
    MaxAudit = 1
    Migrations <- MCMigrations
    Attachment = {a1}
    Size = {1, 3}
    MaxBytes = 2
    TradeQuota = 2
    UserQuota = 5
    OtherBytes = 3
INVARIANTS
    TypeOK
    ConfirmedUploaded
PROPERTY
    DeletedStaysDeleted
