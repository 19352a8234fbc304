CONSTANTS
    Watched = {"api", "agent", "messaging"}
    Observed = {"DATABASE_URL", "SYSDESIGN_API_KEY", "LANGSMITH_API_KEY"}
    Values <- MCValues
    Versions = {1, 2}
    NonTxn = {2}
SPECIFICATION RSpec
CONSTRAINT BesideSync
INVARIANTS
    SharedAgree
    SchemaNeverClaimed
    CodeAfterSchema
CHECK_DEADLOCK FALSE
