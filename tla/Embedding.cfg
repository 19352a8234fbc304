CONSTANTS
    Hashes = {1, 2, 3, 4}
    Instagram = {1, 2}
    Captioned = {2, 3, 4}
    Corpus = {1, 3, 4}
    Scrapes = {2}
    MaxRetries = 1
    Batch = 1
    Chunk = 2
    Limits = {0, 1}
    Slots = {"s1"}
    Fills = {"b1", "b2"}
SPECIFICATION FairSpec
INVARIANTS
    NoLockCycle
    CountedOnce
PROPERTIES
    EmbedBacklogDrains
CHECK_DEADLOCK FALSE
