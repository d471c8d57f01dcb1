SPECIFICATION Spec
CONSTANTS
    Password = {p1, p2}
    NoPassword = NoPassword
    Secret = {s1, s2, s3}
    NoSecret = NoSecret
    Link = {k1, k2}
    NoLink = NoLink
    Request = {r1}
    Ops = {"wrong", "login", "challenge", "code", "password", "reset", "cli", "setup", "confirm", "disable", "clear", "enrol", "forgot"}
    Edited = {}
    MaxFailed = 3
    MaxServed = 0
    CanAbort = TRUE
SYMMETRY Interchangeable
INVARIANTS EnabledIsVerified
PROPERTIES LimitsGuesses AdminKeepsMfa
