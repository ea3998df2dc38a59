CONSTANTS
    Users = {ann, bob}
    Files = {movie}
    MaxUploads = 2
    TotalChunks = 1
    Requests = {r1, r2}
    Operations = {"init", "presign", "complete"}
    Worker = worker
    Cleaner = cleaner
    Spawned = {g1}
    MergeQueueSize = 1
    CleanupQueueSize = 1
    CleanupBatchSize = 2
    Faults = {}
SPECIFICATION Spec
INVARIANTS TenantIsolation
SYMMETRY RequestSymmetry
