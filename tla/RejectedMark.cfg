\* A confirm that finds no upload, once the route has answered.
SPECIFICATION Spec
CONSTANTS
    NULL = NULL
    RateScale = 100
    RScale = 10
    Session = {s1, s2}
    Editors = {}
    Writers = {s2}
    Uploaders = {s1, s2}
    Price = {100}
    Stop = {96}
    Date = {1}
    MaxQty = 1
    Note = {n1}
    Places = {0}
    MaxAudit = 0
    Migrations <- MCMigrations
    Attachment = {a1}
    Size = {1, 3}
    MaxBytes = 2
    TradeQuota = 2
    UserQuota = 5
    OtherBytes = 3
PROPERTY MissingUploadIsRejected
