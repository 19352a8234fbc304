CONSTANTS
    MaxTurns = 3
    MaxCalls = 2
SPECIFICATION FairSpec
INVARIANTS
    CallsAnswered
    EffectsAnnounced
    StreamGrammar
PROPERTIES
    ResponseEnds
CHECK_DEADLOCK FALSE
