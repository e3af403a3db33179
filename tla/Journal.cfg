\* One trade: an editor, and a session that trades and imports.
SPECIFICATION Spec
CONSTANTS
    NULL = NULL
    RateScale = 100
    RScale = 10
    Session = {s1, s2}
    Editors = {s1}
    Writers = {s2}
    Uploaders = {}
    Price = {100, 105}
    Stop = {96, 105}
    Date = {1, 2}
    MaxQty = 2
    Note = {}
    Places = {0}
    MaxAudit = 2
    Migrations <- MCMigrations
    Attachment = {a1}
    Size = {1, 3}
    MaxBytes = 2
    TradeQuota = 2
    UserQuota = 5
    OtherBytes = 3
INVARIANTS
    PnlExplained
    AuditExplainsEntry
PROPERTIES
    ScheduledCloseHasPnl
    RFollowsEdits
