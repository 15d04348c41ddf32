\* Two accounts, two connections, two messages, pages of one row: the backlog,
\* the live pushes and the hand-over between connections.
CONSTANTS
    Msgs = {1, 2}
    Users = {u1, u2}
    Registered = {u1, u2}
    Conns = {c1, c2}
    Size <- MCSize
    PageSize = 1
    MaxMessages = 2
    MaxBytes = 9
    MinTtl = 1
    DefaultTtl = 2
    MaxTtl = 2
    TtlAsked <- MCTtlBelow
    AckBatches = {{1}}
    MaxClock = 0
    MaxCrashes = 0
SPECIFICATION Spec
SYMMETRY Symmetry
INVARIANTS TypeOK NoMessageSkipped MailSafe
CHECK_DEADLOCK FALSE
