SPECIFICATION FairStreamSpec
CONSTANTS
    Influencers = {i1, i2}
    Hashes = {h1}
    MaxRetries = 0
    HasEnv = FALSE
    Faults = {"refresh"}
    Clients = {c1}
INVARIANTS StreamTypeOK SnapshotCoversMissed EndedMeansTerminal
PROPERTIES StreamEnds RunCloses DoneIsAnnounced
