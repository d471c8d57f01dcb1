SPECIFICATION Spec
CONSTANTS
    User = {u1, u2}
    Token = {t1, t2, t3}
    Request = {r1}
    NoUser = NoUser
    NoToken = NoToken
    Ops = {"login", "refresh", "reuse", "logout", "logout_all", "password", "reset", "role", "deactivate", "reactivate", "delete", "purge"}
    MaxGen = 1
    CanAbort = TRUE
SYMMETRY Interchangeable
INVARIANTS LiveIsUnique ClosingEndsSessions
PROPERTIES RevokesOwnOnly FalseAlarmIsHarmless SerialLedger
