CONSTANTS
    Users = {ann}
    Files = {movie}
    MaxUploads = 1
    TotalChunks = 1
    Requests = {r1, r2}
    Operations = {"init", "complete", "merge", "publish"}
    Worker = worker
    Cleaner = cleaner
    Spawned = {g1}
    MergeQueueSize = 1
    CleanupQueueSize = 1
    CleanupBatchSize = 1
    Faults = {}
SPECIFICATION Spec
INVARIANTS SuccessIsMerged MergesHaveSources FailedIsSpurious
SYMMETRY RequestSymmetry
