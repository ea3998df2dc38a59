CONSTANTS
    Users = {ann}
    Files = {movie}
    MaxUploads = 1
    TotalChunks = 1
    Requests = {r1}
    Operations = {"init", "complete", "merge"}
    Worker = worker
    Cleaner = cleaner
    Spawned = {g1}
    MergeQueueSize = 1
    CleanupQueueSize = 1
    CleanupBatchSize = 2
    Faults = {}
SPECIFICATION FairSpec
PROPERTIES AutoMerge
