SPECIFICATION FairSpec
CONSTANTS
    Handlers = {h1, h2}
    Kinds = {"user", "transcode", "video"}
    MaxCalls = 3
    MaxOutages = 1
INVARIANTS
    TypeOK
    CalmCallSucceeds
    LeakNeedsOverlap
    UserClientNeverPanics
PROPERTIES
    EveryCallReturns
CHECK_DEADLOCK FALSE
