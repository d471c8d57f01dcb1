SPECIFICATION Spec
CONSTANTS
    Account = {u1, u2}
    NoAccount = NoAccount
    Name = {boot, m1}
    Spelling = {lower, mixed}
    LowerCase = lower
    NoAddress = NoAddress
    BootName = boot
    Request = {r1, r2}
    MaxServed = 3
CHECK_DEADLOCK FALSE
SYMMETRY Interchangeable
INVARIANTS TypeOK OneAccountPerAddress SessionsCarryRoleUnlessUnswept DeletedStaysClosed
PROPERTIES AnAdminRemains PendingNeverManages
