\* Strangers add each other at once: whatever they do, mailboxes empty.
CONSTANTS
    MaxSkip = 3
    Slots = {"user"}
    Plans <- Mutual
SPECIFICATION FairSpec
INVARIANTS NoForcedContact
PROPERTY MailboxDrains
CHECK_DEADLOCK FALSE
