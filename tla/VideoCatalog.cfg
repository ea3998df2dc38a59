SPECIFICATION Spec
CONSTANTS
    Videos <- MCVideos
    Draft <- MCDraft
    Trim <- MCTrim
    Key <- MCKey
    Blank = ""
    MaxTags = 2
    DefaultSize = 1
    MaxSize = 2
    IntMax = 7
    Starts = {0, 6}
    AskedSizes = {0, 3}
    Filters = {"", "published", "Failed", "none"}
    Dates = {1, 2, 3}
    Tables <- MCTables
    MaxWrites = 2
INVARIANTS
    TypeOK
    WalkMissesNone
    PageMatchesTotal
    NoneShownTwice
    ListedIsVisible
    UploaderIsOwner
    TagsAsPublished
