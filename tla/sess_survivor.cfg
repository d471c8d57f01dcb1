SPECIFICATION Spec
CONSTANTS
    User = {u1}
    Token = {t1, t2, t3}
    Request = {r1, r2}
    NoUser = NoUser
    NoToken = NoToken
    Ops = {"login", "refresh", "password"}
    MaxGen = 1
    CanAbort = FALSE
INVARIANTS ClosingEndsSessions
CHECK_DEADLOCK FALSE
