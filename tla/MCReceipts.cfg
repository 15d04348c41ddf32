SPECIFICATION FairSpec
CONSTANTS
    Texts = {t1}
    Files = {f1}
    Chunks = 2
    Scenes <- MCScenes
INVARIANTS ReceiptOnce BlockStopsDrain ManifestLast
PROPERTIES StatusTrue QueuesDrain
CHECK_DEADLOCK FALSE
