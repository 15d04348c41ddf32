\* Each part with two or eight events of the user, of peers, of failures and of reloads.
CONSTANTS
    BackupEvents = 2
    BackupSeconds = 2
    VaultEvents = 8
    FreeGuesses = 2
    PrekeyEvents = 2
    Periods = 2
SPECIFICATION FairSpec
INVARIANTS NothingLost LockSound PrekeysSound
PROPERTIES  DecisionsStick Settles
CHECK_DEADLOCK FALSE
