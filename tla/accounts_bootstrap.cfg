SPECIFICATION Spec
CONSTANTS
    Account = {u1, u2}
    NoAccount = NoAccount
    Name = {boot, m1}
    Spelling = {lower, mixed}
    LowerCase = lower
    NoAddress = NoAddress
    BootName = boot
    Request = {r1}
    MaxServed = 2
CHECK_DEADLOCK FALSE
INVARIANT SessionsCarryRole
