\* Four messages of each client, delivered in every order and more than once; gaps of up to
\* MaxSkip keys are bridged, longer ones refused.
CONSTANTS
    MaxSkip = 2
    MaxSends = 4
    MaxLeaks = 1
SPECIFICATION Spec
INVARIANTS OpensExactlyOnce LeaksContained
CHECK_DEADLOCK FALSE
