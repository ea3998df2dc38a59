SPECIFICATION Spec
CONSTANTS
    TotalChunks = 2
    Sizes = {1, 2}
    Requests = {r1, r2}
    Mergers = {m1, m2}
    Lifetime = 3
    Margin = 1
    Slack = 1
    MaxMerges = 2
    Workloads <- MCWorkloads
SYMMETRY Symmetry
INVARIANTS
    TypeOK
    PromiseKept
    LinkLastsMargin
    MergedIsWhatWasChecked
    OrphanNeedsLostAbort
PROPERTIES
    DurableSpec
CHECK_DEADLOCK FALSE
