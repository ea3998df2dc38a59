CONSTANTS
    Users = {ann}
    Files = {movie}
    MaxUploads = 1
    TotalChunks = 2
    Requests = {r1}
    Operations = {"init", "presign", "complete", "merge", "publish"}
    Worker = worker
    Cleaner = cleaner
    Spawned = {g1}
    MergeQueueSize = 1
    CleanupQueueSize = 1
    CleanupBatchSize = 2
    Faults = {"db", "storage", "crash"}
SPECIFICATION Spec
INVARIANTS TypeOK SuccessIsMerged CompletedIsStored CleanupIsSafe FailedIsSpurious
PROPERTIES DurableSpec
