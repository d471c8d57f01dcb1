SPECIFICATION FairSpec
CONSTANTS
    User = {u1}
    Token = {t1, t2}
    Request = {r1, r2}
    NoUser = NoUser
    NoToken = NoToken
    Ops = {"login", "refresh", "reuse", "password", "delete"}
    MaxGen = 1
    CanAbort = FALSE
PROPERTIES RequestsEnd ReuseEndsFamily
CHECK_DEADLOCK FALSE
