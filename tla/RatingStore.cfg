CONSTANTS
    Hashes <- MCHashes
    Instagram = {1, 3}
    Near <- MCNear
    Poison = {1}
    Embedding = TRUE
    MaxRetries = 0
    Batch = 2
    Slots = {"s1", "s2"}
SPECIFICATION FairSpec
INVARIANTS
    RatingsGrounded
PROPERTIES
    FirstRatingStays
    BacklogDrains
CHECK_DEADLOCK FALSE
