CONSTANTS
    Runs = {"r1", "r2", "r3"}
    Limit = 2
    Uncovered = {3}
    MaxTime = 3
SPECIFICATION Spec
INVARIANTS
    ReportedOnce
    WatermarkCovers
CHECK_DEADLOCK FALSE
