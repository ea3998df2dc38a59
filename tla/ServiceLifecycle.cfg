SPECIFICATION FairSpec
CONSTANTS
    Handlers = {h1, h2}
    MaxRequests = 3
    Worlds <- MCWorlds
INVARIANTS
    TypeOK
    RequestsHaveResources
    CleanExitAnswersAll
    CleanExitClosesAll
    NoLineLost
PROPERTIES
    SignalEndsProcess
CHECK_DEADLOCK FALSE
