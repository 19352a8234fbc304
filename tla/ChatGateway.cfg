CONSTANTS
    Instances = {"a", "b"}
    Users <- MCUsers
    Messages <- MCMessages
    SenderOf <- MCSenderOf
    MaxSockets = 2
    MaxRequests = 2
    Faults = {"instance", "handler", "rest"}
SPECIFICATION Spec
INVARIANTS
    NewestIsRegistered
    StoredOnceThenHeard
    NothingMissed
CHECK_DEADLOCK FALSE
