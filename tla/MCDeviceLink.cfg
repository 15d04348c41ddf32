\* An exporter and two devices that may have its code.
CONSTANTS
    Importers = {"i", "j"}
    Records = 1
    Scenes <- MCScenes
SPECIFICATION Spec
INVARIANTS  BothConfirmed NobodyWaits
CHECK_DEADLOCK FALSE
