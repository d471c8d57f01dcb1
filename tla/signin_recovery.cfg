SPECIFICATION Spec
CONSTANTS
    Password = {p1, p2}
    NoPassword = NoPassword
    Secret = {s1}
    NoSecret = NoSecret
    Link = {k1}
    NoLink = NoLink
    Request = {r1}
    Ops = {"login", "password", "cli"}
    Edited = {}
    MaxFailed = 2
    MaxServed = 0
    CanAbort = FALSE
INVARIANTS RecoveryIsTemporary
