SPECIFICATION Spec
CONSTANTS
    User = {u1}
    Token = {t1, t2, t3}
    Request = {r1, r2}
    NoUser = NoUser
    NoToken = NoToken
    Ops = {"login", "refresh", "reuse", "password", "delete"}
    MaxGen = 1
    CanAbort = TRUE
CHECK_DEADLOCK FALSE
SYMMETRY Interchangeable
INVARIANTS TypeOK Lineage ForkOnlyIfContested OneLivePerFamily StaleOnlyIfRaced DeadlocksAreUpdates
PROPERTIES StampsAreFinal OverlapLedger
