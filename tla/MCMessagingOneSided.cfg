\* One client at a time acts: it writes, or it loses its device and starts over.
CONSTANTS
    MaxSkip = 3
    Slots = {"user"}
    Plans <- OneSided
SPECIFICATION Spec
INVARIANTS  TextsAccounted 
CHECK_DEADLOCK FALSE
