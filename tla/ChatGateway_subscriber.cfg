CONSTANTS
    Instances = {"a", "b"}
    Users <- MCUsers
    Messages <- MCMessages
    SenderOf <- MCSenderOf
    MaxSockets = 2
    MaxRequests = 2
    Faults = {}
SPECIFICATION Spec
INVARIANT SubscriberRunsForLife
CHECK_DEADLOCK FALSE
