\* Two requests on one account.
SPECIFICATION Spec
CONSTANTS
    Request = {r1, r2}
    Token = {t1, t2}
    Link = {l1, l2}
    Password = {p1}
    LOGIN_FAILURE_THRESHOLD = 2
    MaxParams = 1
    NULL = NULL
INVARIANTS
    TypeOK
    FailuresBounded
PROPERTY LoginAdmits
