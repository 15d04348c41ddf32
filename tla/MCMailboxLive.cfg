\* One account, one connection, three messages, pages of one row: the whole
\* backlog is delivered.
CONSTANTS
    Msgs = {1, 2, 3}
    Users = {"u1"}
    Registered = {"u1"}
    Conns = {c1}
    Size <- MCSize
    PageSize = 1
    MaxMessages = 3
    MaxBytes = 9
    MinTtl = 1
    DefaultTtl = 1
    MaxTtl = 1
    TtlAsked <- MCTtlBelow
    AckBatches = {{1, 2, 3}}
    MaxClock = 0
    MaxCrashes = 0
SPECIFICATION FairSpec
PROPERTY BacklogDelivered
CHECK_DEADLOCK FALSE
