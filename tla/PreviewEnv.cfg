CONSTANTS
    Domains = {"d1", "d2"}
    NoDomain = "none"
    Calls = 2
    MaxEvents = 4
    Faults = {"call"}
SPECIFICATION Spec
INVARIANTS
    OneOfEach
    LeakedOnlyByLoss
PROPERTIES
    UpEndsWell
    DownLeavesNothing
CHECK_DEADLOCK FALSE
