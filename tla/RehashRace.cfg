\* A login that hashes the password again while a reset changes it.
SPECIFICATION Spec
CONSTANTS
    Request = {r1, r2}
    Token = {t1, t2}
    Link = {l1, l2}
    Password = {p1, p2}
    LOGIN_FAILURE_THRESHOLD = 2
    MaxParams = 1
    NULL = NULL
PROPERTY ResetSticks
