CONSTANTS
    Runs = {"r1", "r2"}
    Limit = 2
    Uncovered = {4}
    MaxTime = 4
SPECIFICATION Spec
INVARIANT CountsAreRows
CHECK_DEADLOCK FALSE
