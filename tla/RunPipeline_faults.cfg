SPECIFICATION Spec
CONSTANTS
    Influencers = {i1, i2}
    Hashes = {h1, h2}
    MaxRetries = 1
    HasEnv = FALSE
    Faults = {"broker", "crash", "publish", "escape", "refresh"}
SYMMETRY Interchangeable
CHECK_DEADLOCK FALSE
INVARIANTS CountersExact CompletedMeansDrained DoneMatchesRow StrandedOnlyByLoss IInv
PROPERTIES TerminalIsFinal ImplementsLifecycle
