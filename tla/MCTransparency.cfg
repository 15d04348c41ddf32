\* Registrations, rotations, one of them cut short, fetches, and a log that is lost
\* and repaired, in every order; then every log of up to 9 entries of two accounts,
\* in which odd nodes are promoted at every level of the tree.
CONSTANTS
    Users = {"u1", "u2"}
    Rotators = {"u1"}
    Fetchers = {f1}
    MaxSpk = 2
    MaxCrashes = 1
    MaxBoots = 2
    MaxDropped = 1
    MaxLeaves = 9
SPECIFICATION MCSpec
INVARIANTS  LogComplete TreeProves
CHECK_DEADLOCK FALSE
