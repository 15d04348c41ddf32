\* Four sends at once, some to an address that is nobody's, with acknowledgements,
\* expiry and a crash in between: neither cap is overshot and nothing is lost.
CONSTANTS
    Msgs = {1, 2, 3, 4}
    Users = {"u1", "cover"}
    Registered = {"u1"}
    Conns = {}
    Size <- MCSize
    PageSize = 2
    MaxMessages = 2
    MaxBytes = 3
    MinTtl = 0
    DefaultTtl = 0
    MaxTtl = 1
    TtlAsked <- MCTtlBelow
    AckBatches = {{1}, {2, 3}}
    MaxClock = 1
    MaxCrashes = 1
SPECIFICATION Spec
INVARIANTS CountWithinCap BytesWithinCap MailSafe
CHECK_DEADLOCK FALSE
