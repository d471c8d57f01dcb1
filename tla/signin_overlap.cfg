SPECIFICATION Spec
CONSTANTS
    Password = {p1, p2}
    NoPassword = NoPassword
    Secret = {s1, s2}
    NoSecret = NoSecret
    Link = {k1, k2}
    NoLink = NoLink
    Request = {r1, r2}
    Ops = {"wrong", "login", "challenge", "code", "password", "reset", "setup", "confirm", "clear", "forgot", "panel"}
    Edited = {"enabled"}
    MaxFailed = 2
    MaxServed = 3
    CanAbort = FALSE
CHECK_DEADLOCK FALSE
SYMMETRY Interchangeable
INVARIANTS TypeOK PasswordSticksUnlessUndone EnabledIsVerifiedUnlessTorn GuessesAreBoundedUnlessLost LinksAreOneShot OneOpenLink
PROPERTIES LockHolds
