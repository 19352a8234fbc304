CONSTANTS
    Hashes = {1, 2, 3}
    Instagram = {1, 2, 3}
    Captioned = {1, 2, 3}
    Corpus = {1, 2}
    Scrapes = {3}
    MaxRetries = 0
    Batch = 1
    Chunk = 2
    Limits = {0}
    Slots = {"s1"}
    Fills = {}
    K = 2
    Pool = 3
    Asked = {1, 3}
    Copies <- MCCopies
    MaxThemes = 2
    Relevances = {5, 9}
SPECIFICATION RetrievalSpec
CONSTRAINT OneRequest
INVARIANTS
    NothingVanishes
    AgreementFirst
    StrongestCover
CHECK_DEADLOCK FALSE
