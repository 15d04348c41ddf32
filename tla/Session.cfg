SPECIFICATION FairSpec
CONSTANTS
    MAX_BOOT_RETRIES = 1
    MaxEvents = 3
INVARIANTS LockHolds SocketTrue 
PROPERTIES ComesUp
CHECK_DEADLOCK FALSE
