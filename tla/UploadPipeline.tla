--------------------------- MODULE UploadPipeline ---------------------------
(***************************************************************************)
(* The upload pipeline of the service: the HTTP handlers that create an    *)
(* upload, hand out URLs for its chunks, complete the chunks, ask for the  *)
(* merge and publish the video; the merge worker and the chunk cleanup     *)
(* worker behind their bounded channels; the rows in MySQL; the objects in *)
(* the S3 store (RustFS).                                                  *)
(*                                                                         *)
(* A handler is a process that makes one database or storage call per      *)
(* step, so that any two handlers, the two workers and the clients         *)
(* interleave between any two calls.  What a handler read (the entities of *)
(* the code) stays in its local variables and is used as it was read, even *)
(* when the row has changed since.                                         *)
(***************************************************************************)
EXTENDS Integers, Sequences, FiniteSets, Functions

CONSTANTS
    Users,              \* user UUIDs, all known to the user service
    Files,              \* the (name, size, hash) triples a client can upload
    MaxUploads,         \* bound: rows that fit in upload_video
    TotalChunks,        \* chunks of every upload
    Requests,           \* bound: HTTP requests in progress at a time
    Operations,         \* the handlers that clients call
    Worker,             \* the merge worker goroutine
    Cleaner,            \* the cleanup worker goroutine
    Spawned,            \* bound: goroutines started because cleanupChan was full
    MergeQueueSize,     \* capacity of mergeChan
    CleanupQueueSize,   \* capacity of cleanupChan
    CleanupBatchSize,   \* cleanup requests processed together
    Faults              \* which of "db", "storage" and "crash" can happen

ASSUME SizesAssumption ==
    /\ MaxUploads \in Nat
    /\ TotalChunks \in Nat \ {0}
    /\ MergeQueueSize \in Nat
    /\ CleanupQueueSize \in Nat
    /\ CleanupBatchSize \in Nat \ {0}

ASSUME ProcessesAssumption ==
    /\ Worker \notin Requests
    /\ Cleaner \notin Spawned

Uploads  == 1 .. MaxUploads            \* primary keys, in the order of creation
NoUpload == 0
Index    == 0 .. TotalChunks - 1       \* chunk_index
Procs    == Requests \cup {Worker}
Deleters == Spawned \cup {Cleaner}
NoUser   == "no user"
NoFile   == "no file"

\* "None" is an id that has no row yet; the others are the values of the column.
UploadStatus == {"None", "Init", "Uploading", "Merging", "Success", "Failed"}
\* The code also names a chunk status Failed, which it never writes.
ChunkStatus  == {"Initialized", "Uploading", "Completed"}

VARIABLES
    \* MySQL
    status,       \* upload_video.status
    owner,        \* upload_video.user_uuid
    file,         \* upload_video.file_name, file_size and file_hash
    chunk,        \* upload_chunk.status of each chunk of each upload
    videos,       \* the uploads that a row of video_publish refers to
    \* S3 store and its clients
    obj,          \* per upload, the chunks whose object is in the store
    merged,       \* the uploads whose merged object is in the store
    urls,         \* per upload, the chunks a client was given a PUT URL for
    \* handlers and merge worker: control point and local variables
    pc,
    user,         \* user of the request
    want,         \* file named by an init request
    at,           \* upload named by the request, or taken from mergeChan
    of,           \* upload that the chunk named by the request belongs to
    idx,          \* chunk index: of the request, or of MergeChunk's loop
    seen,         \* status in the upload entity that was read
    cdone,        \* chunks that were Completed in the chunk entities read
    \* channels, cleanup worker and the goroutines that delete chunks
    mergeChan, cleanupChan, batch, todo, delAt, delIdx

rows     == <<status, owner, file, chunk, videos>>
store    == <<obj, merged, urls>>
args     == <<user, want, at, of, idx>>
snapshot == <<seen, cdone>>
cleanup  == <<cleanupChan, batch, todo, delAt, delIdx>>
vars     == <<rows, store, pc, args, snapshot, mergeChan, cleanup>>

-----------------------------------------------------------------------------
(* Control points: the call that the process makes next.                   *)

InitPC     == {"init.chunks", "init.create", "init.refresh"}
PresignPC  == {"presign.chunk", "presign.uploading", "presign.mark"}
CompletePC == {"complete.chunk", "complete.head",
               "complete.mark", "complete.count", "complete.merging"}
MergePC    == {"merge.count", "merge.merging", "merge.enqueue"}
PublishPC  == {"publish.count", "publish.merging",
               "publish.success", "publish.failed", "publish.reread",
               "publish.create", "publish.cleanup"}
CopyPC     == {"copy", "assemble"}
RequestPC  == InitPC \cup PresignPC \cup CompletePC \cup MergePC \cup PublishPC
                \cup CopyPC \cup {"idle"}
WorkerPC   == {"idle", "copy", "assemble", "task.success",
               "task.failed", "task.cleanup"}

\* Calls whose error makes the handler return (or the worker take the next task).
ReturnsError == {"init.chunks", "init.create", "presign.chunk", "presign.mark",
                 "complete.chunk", "complete.mark", "complete.count",
                 "merge.count", "merge.merging", "publish.count",
                 "publish.success", "publish.reread", "publish.create",
                 "task.success"}

\* Status updates whose error the code drops: `_ = ...UpdateUploadVideoStatus(...)`.
IgnoresError == {"presign.uploading", "complete.merging", "publish.merging",
                 "publish.failed", "task.failed"}

\* The chunks have been counted, the merge has not begun.
MergingPC == {"complete.merging", "merge.merging", "merge.enqueue", "publish.merging"}

-----------------------------------------------------------------------------
(* Queries and updates of the database.                                    *)

Exists(u) == status[u] # "None"

\* Mutant: the lookup forgets the user.
QueryByUUIDOnly(u, x) == Exists(u) /\ x \in Users

\* The row of upload u, when it is a row of user x.
QueryByUserUUIDAndUUID(u, x) == Exists(u) /\ owner[u] = x

\* The rows of user x with this file; gorm's First takes the lowest primary key.
Matching(x, f) == {u \in Uploads : Exists(u) /\ owner[u] = x /\ file[u] = f}
QueryByUploadVideoHash(u, x, f) ==
    u \in Matching(x, f) /\ \A v \in Matching(x, f) : u <= v

\* The chunk row is looked up by its own UUID, its upload and its index: c is the
\* upload the chunk belongs to, u the one the request names.
QueryUploadVideoByUUID(c, u) == c = u /\ Exists(c)

CompletedChunks(u) == {i \in Index : chunk[u][i] = "Completed"}

\* Mutant: the count forgets the status.
CountAllChunks(u) == Cardinality({i \in Index : chunk[u][i] \in ChunkStatus})

CountChunk(u) == Cardinality(CompletedChunks(u))

UpdateStatusByUUID(u, s) == status' = [status EXCEPT ![u] = s]
UpdateChunkStatusByUUID(u, i, s) == chunk' = [chunk EXCEPT ![u] = [@ EXCEPT ![i] = s]]

\* The upload row and all its chunk rows, in one transaction, under the next id.
BatchCreate(u, x, f) ==
    /\ ~Exists(u)
    /\ \A v \in Uploads : v < u => Exists(v)
    /\ status' = [status EXCEPT ![u] = "Init"]
    /\ owner' = [owner EXCEPT ![u] = x]
    /\ file' = [file EXCEPT ![u] = f]
    /\ chunk' = [chunk EXCEPT ![u] = [i \in Index |-> "Initialized"]]

-----------------------------------------------------------------------------
(* Sending to the two channels never blocks the sender.                    *)

\* Mutant: the channel grows without bound.
EnqueueMergeTaskUnbounded(u) == mergeChan' = Append(mergeChan, u)

EnqueueMergeTask(u) ==
    mergeChan' = IF Len(mergeChan) < MergeQueueSize THEN Append(mergeChan, u)
                                                    ELSE mergeChan

EnqueueChunkCleanup(u) ==
    \/ /\ Len(cleanupChan) < CleanupQueueSize
       /\ cleanupChan' = Append(cleanupChan, u)
       /\ UNCHANGED delAt
    \/ /\ Len(cleanupChan) = CleanupQueueSize
       /\ \E d \in Spawned :
            /\ delAt[d] = NoUpload
            /\ delAt' = [delAt EXCEPT ![d] = u]
       /\ UNCHANGED cleanupChan

-----------------------------------------------------------------------------
(* Control.                                                                *)

Goto(p, l) == pc' = [pc EXCEPT ![p] = l]

\* The handler returns (the worker is ready for the next task).
Done(p) ==
    /\ Goto(p, "idle")
    /\ user'  = [user EXCEPT ![p] = NoUser]
    /\ want'  = [want EXCEPT ![p] = NoFile]
    /\ at'    = [at EXCEPT ![p] = NoUpload]
    /\ of'    = [of EXCEPT ![p] = NoUpload]
    /\ idx'   = [idx EXCEPT ![p] = 0]
    /\ seen'  = [seen EXCEPT ![p] = "None"]
    /\ cdone' = [cdone EXCEPT ![p] = {}]

\* A request for upload u (and chunk i of upload c) that passed validation, whose
\* user the user service knows, and whose lookup finds u among the rows of user x.
\* The entity that was read goes to seen.  A request refused before that, or by
\* the lookup itself, changes nothing and is not a step.
Accept(p, l, x, u, c, i) ==
    /\ pc[p] = "idle"
    /\ QueryByUserUUIDAndUUID(u, x)
    /\ Goto(p, l)
    /\ user' = [user EXCEPT ![p] = x]
    /\ at'   = [at EXCEPT ![p] = u]
    /\ of'   = [of EXCEPT ![p] = c]
    /\ idx'  = [idx EXCEPT ![p] = i]
    /\ seen' = [seen EXCEPT ![p] = status[u]]
    /\ UNCHANGED <<rows, store, want, cdone, mergeChan, cleanup>>

-----------------------------------------------------------------------------
(* POST init: find the upload of this file or create it, refresh its URLs. *)

InitFind(p) ==
    /\ "init" \in Operations
    /\ pc[p] = "idle"
    /\ \E x \in Users, f \in Files :
         /\ user' = [user EXCEPT ![p] = x]
         /\ want' = [want EXCEPT ![p] = f]
         /\ \/ \E u \in Uploads :
                 /\ QueryByUploadVideoHash(u, x, f)
                 /\ at' = [at EXCEPT ![p] = u]
                 /\ seen' = [seen EXCEPT ![p] = status[u]]
                 /\ Goto(p, "init.chunks")
            \/ /\ Matching(x, f) = {}
               /\ Goto(p, "init.create")
               /\ UNCHANGED <<at, seen>>
    /\ UNCHANGED <<rows, store, of, idx, cdone, mergeChan, cleanup>>

InitChunks(p) ==
    /\ pc[p] = "init.chunks"
    /\ Goto(p, "init.refresh")
    /\ cdone' = [cdone EXCEPT ![p] = CompletedChunks(at[p])]
    /\ UNCHANGED <<rows, store, args, seen, mergeChan, cleanup>>

\* When every id is used (MaxUploads) the insert fails like any other error.
InitCreate(p) ==
    /\ pc[p] = "init.create"
    /\ \/ \E u \in Uploads :
            /\ BatchCreate(u, user[p], want[p])
            /\ at' = [at EXCEPT ![p] = u]
            /\ seen' = [seen EXCEPT ![p] = "Init"]
            /\ Goto(p, "init.refresh")
            /\ UNCHANGED <<user, want, of, idx, cdone>>
       \/ /\ \A u \in Uploads : Exists(u)
          /\ Done(p)
          /\ UNCHANGED <<status, owner, file, chunk>>
    /\ UNCHANGED <<videos, store, mergeChan, cleanup>>

\* A URL whose row cannot be updated is left out of the response.
InitRefresh(p) ==
    /\ pc[p] = "init.refresh"
    /\ \E fresh \in SUBSET (Index \ cdone[p]) :
         /\ fresh = Index \ cdone[p] \/ "db" \in Faults
         /\ urls' = [urls EXCEPT ![at[p]] = @ \cup fresh]
    /\ Done(p)
    /\ UNCHANGED <<rows, obj, merged, mergeChan, cleanup>>

-----------------------------------------------------------------------------
(* POST presign: the chunk goes back to Uploading whatever it was, and the *)
(* response holds a URL unless the chunk was read as Completed.            *)

PresignFind(p) ==
    /\ "presign" \in Operations
    /\ \E x \in Users, u, c \in Uploads, i \in Index : Accept(p, "presign.chunk", x, u, c, i)

\* The chunk row as read, and where to go with it.
ReadChunk(p, to) ==
    /\ IF QueryUploadVideoByUUID(of[p], at[p])
         THEN /\ Goto(p, to)
              /\ cdone' = [cdone EXCEPT ![p] = CompletedChunks(of[p]) \cap {idx[p]}]
              /\ UNCHANGED <<args, seen>>
         ELSE Done(p)
    /\ UNCHANGED <<rows, store, mergeChan, cleanup>>

PresignChunk(p) ==
    /\ pc[p] = "presign.chunk"
    /\ ReadChunk(p, IF idx[p] = 0 /\ seen[p] = "Init" THEN "presign.uploading"
                                                      ELSE "presign.mark")

PresignUploading(p) ==
    /\ pc[p] = "presign.uploading"
    /\ UpdateStatusByUUID(at[p], "Uploading")
    /\ Goto(p, "presign.mark")
    /\ UNCHANGED <<owner, file, chunk, videos, store, args, snapshot, mergeChan, cleanup>>

PresignMark(p) ==
    /\ pc[p] = "presign.mark"
    /\ UpdateChunkStatusByUUID(of[p], idx[p], "Uploading")
    /\ urls' = [urls EXCEPT ![of[p]] = @ \cup ({idx[p]} \ cdone[p])]
    /\ Done(p)
    /\ UNCHANGED <<status, owner, file, videos, obj, merged, mergeChan, cleanup>>

-----------------------------------------------------------------------------
(* POST complete: the object must be in the store with the reported size;  *)
(* when all chunks are completed the upload becomes Merging.               *)

CompleteFind(p) ==
    /\ "complete" \in Operations
    /\ \E x \in Users, u, c \in Uploads, i \in Index : Accept(p, "complete.chunk", x, u, c, i)

CompleteChunk(p) ==
    /\ pc[p] = "complete.chunk"
    /\ ReadChunk(p, "complete.head")

\* Mutant: the client is believed, the object is not looked up.
CompleteHeadUnchecked(p) ==
    /\ pc[p] = "complete.head"
    /\ Goto(p, IF idx[p] \in cdone[p] THEN "complete.count" ELSE "complete.mark")
    /\ UNCHANGED <<rows, store, args, snapshot, mergeChan, cleanup>>

\* Refused: no object, a store error, or another size than the client reported.
CompleteHead(p) ==
    /\ pc[p] = "complete.head"
    /\ \/ /\ idx[p] \in obj[of[p]]
          /\ Goto(p, IF idx[p] \in cdone[p] THEN "complete.count" ELSE "complete.mark")
          /\ UNCHANGED <<args, snapshot>>
       \/ Done(p)
    /\ UNCHANGED <<rows, store, mergeChan, cleanup>>

CompleteMark(p) ==
    /\ pc[p] = "complete.mark"
    /\ UpdateChunkStatusByUUID(of[p], idx[p], "Completed")
    /\ Goto(p, "complete.count")
    /\ UNCHANGED <<status, owner, file, videos, store, args, snapshot, mergeChan, cleanup>>

CompleteCount(p) ==
    /\ pc[p] = "complete.count"
    /\ IF CountChunk(at[p]) = TotalChunks /\ seen[p] \notin {"Success", "Merging"}
         THEN Goto(p, "complete.merging") /\ UNCHANGED <<args, snapshot>>
         ELSE Done(p)
    /\ UNCHANGED <<rows, store, mergeChan, cleanup>>

CompleteMerging(p) ==
    /\ pc[p] = "complete.merging"
    /\ UpdateStatusByUUID(at[p], "Merging")
    /\ Done(p)
    /\ UNCHANGED <<owner, file, chunk, videos, store, mergeChan, cleanup>>

-----------------------------------------------------------------------------
(* POST merge: an upload read as neither Success nor Merging, with all its *)
(* chunks completed, becomes Merging and is queued for the merge worker.   *)

MergeFind(p) ==
    /\ "merge" \in Operations
    /\ \E x \in Users, u \in Uploads : Accept(p, "merge.count", x, u, NoUpload, 0)

MergeCount(p) ==
    /\ pc[p] = "merge.count"
    /\ IF CountChunk(at[p]) = TotalChunks /\ seen[p] \notin {"Success", "Merging"}
         THEN Goto(p, "merge.merging") /\ UNCHANGED <<args, snapshot>>
         ELSE Done(p)
    /\ UNCHANGED <<rows, store, mergeChan, cleanup>>

MergeMerging(p) ==
    /\ pc[p] = "merge.merging"
    /\ UpdateStatusByUUID(at[p], "Merging")
    /\ Goto(p, "merge.enqueue")
    /\ UNCHANGED <<owner, file, chunk, videos, store, args, snapshot, mergeChan, cleanup>>

\* Mutant: the cleanup is scheduled when the merge is accepted, not when it is done.
MergeEnqueueWithCleanup(p) ==
    /\ pc[p] = "merge.enqueue"
    /\ EnqueueMergeTask(at[p])
    /\ EnqueueChunkCleanup(at[p])
    /\ Done(p)
    /\ UNCHANGED <<rows, store, batch, todo, delIdx>>

MergeEnqueue(p) ==
    /\ pc[p] = "merge.enqueue"
    /\ EnqueueMergeTask(at[p])
    /\ Done(p)
    /\ UNCHANGED <<rows, store, cleanup>>

-----------------------------------------------------------------------------
(* MergeChunk of the store, called by the merge worker and by publish: a   *)
(* server-side copy of each chunk, then the completion of the multipart    *)
(* upload, which is what makes the merged object appear.                   *)

\* Mutant: the error of the merge is not looked at.
AfterMergeUnchecked(p, ok) ==
    IF p = Worker THEN "task.success" ELSE IF ok \in BOOLEAN THEN "publish.success" ELSE "idle"

AfterMerge(p, ok) == IF p = Worker THEN IF ok THEN "task.success" ELSE "task.failed"
                                   ELSE IF ok THEN "publish.success" ELSE "publish.failed"

UploadPartCopy(p) ==
    /\ pc[p] = "copy"
    /\ \/ /\ idx[p] \in obj[at[p]]
          /\ IF idx[p] + 1 < TotalChunks
               THEN idx' = [idx EXCEPT ![p] = @ + 1] /\ UNCHANGED pc
               ELSE idx' = [idx EXCEPT ![p] = 0] /\ Goto(p, "assemble")
       \/ /\ idx[p] \notin obj[at[p]] \/ "storage" \in Faults
          /\ idx' = [idx EXCEPT ![p] = 0]
          /\ Goto(p, AfterMerge(p, FALSE))
    /\ UNCHANGED <<rows, store, user, want, at, of, snapshot, mergeChan, cleanup>>

\* A call that fails may have taken effect: the answer was lost, or came too late.
CompleteMultipartUpload(p) ==
    /\ pc[p] = "assemble"
    /\ \/ /\ merged' = merged \cup {at[p]}
          /\ Goto(p, AfterMerge(p, TRUE))
       \/ /\ "storage" \in Faults
          /\ merged' \in {merged, merged \cup {at[p]}}
          /\ Goto(p, AfterMerge(p, FALSE))
    /\ UNCHANGED <<rows, obj, urls, args, snapshot, mergeChan, cleanup>>

-----------------------------------------------------------------------------
(* POST publish, up to the row in video_publish: an upload not yet Success *)
(* is merged by the handler itself.                                        *)

\* Mutant: an upload that is being merged is taken for ready.
PublishFindWhenMerging(p) ==
    /\ "publish" \in Operations
    /\ \E x \in Users, u \in Uploads :
         Accept(p, IF status[u] \in {"Merging", "Success"} THEN "publish.create"
                                                         ELSE "publish.count",
                x, u, NoUpload, 0)

PublishFind(p) ==
    /\ "publish" \in Operations
    /\ \E x \in Users, u \in Uploads :
         Accept(p, IF status[u] = "Success" THEN "publish.create" ELSE "publish.count",
                x, u, NoUpload, 0)

PublishCount(p) ==
    /\ pc[p] = "publish.count"
    /\ IF CountChunk(at[p]) = TotalChunks
         THEN /\ Goto(p, IF seen[p] = "Merging" THEN "copy" ELSE "publish.merging")
              /\ UNCHANGED <<args, snapshot>>
         ELSE Done(p)
    /\ UNCHANGED <<rows, store, mergeChan, cleanup>>

PublishMerging(p) ==
    /\ pc[p] = "publish.merging"
    /\ UpdateStatusByUUID(at[p], "Merging")
    /\ Goto(p, "copy")
    /\ UNCHANGED <<owner, file, chunk, videos, store, args, snapshot, mergeChan, cleanup>>

PublishFailed(p) ==
    /\ pc[p] = "publish.failed"
    /\ UpdateStatusByUUID(at[p], "Failed")
    /\ Done(p)
    /\ UNCHANGED <<owner, file, chunk, videos, store, mergeChan, cleanup>>

PublishSuccess(p) ==
    /\ pc[p] = "publish.success"
    /\ UpdateStatusByUUID(at[p], "Success")
    /\ Goto(p, "publish.reread")
    /\ UNCHANGED <<owner, file, chunk, videos, store, args, snapshot, mergeChan, cleanup>>

\* Another handler may have changed the status since: then the video is not ready.
PublishReread(p) ==
    /\ pc[p] = "publish.reread"
    /\ IF status[at[p]] = "Success"
         THEN Goto(p, "publish.create") /\ UNCHANGED <<args, snapshot>>
         ELSE Done(p)
    /\ UNCHANGED <<rows, store, mergeChan, cleanup>>

\* shouldCleanup holds when this handler merged, that is when it did not see Success.
PublishCreate(p) ==
    /\ pc[p] = "publish.create"
    /\ videos' = videos \cup {at[p]}
    /\ IF seen[p] = "Success" THEN Done(p)
                              ELSE Goto(p, "publish.cleanup") /\ UNCHANGED <<args, snapshot>>
    /\ UNCHANGED <<status, owner, file, chunk, store, mergeChan, cleanup>>

PublishCleanup(p) ==
    /\ pc[p] = "publish.cleanup"
    /\ EnqueueChunkCleanup(at[p])
    /\ Done(p)
    /\ UNCHANGED <<rows, store, mergeChan, batch, todo, delIdx>>

-----------------------------------------------------------------------------
(* The merge worker.                                                       *)

\* Mutant: the worker skips an upload that is being merged, as the handler does.
TaskReceiveUnlessMerging ==
    /\ pc[Worker] = "idle"
    /\ mergeChan # <<>>
    /\ mergeChan' = Tail(mergeChan)
    /\ IF status[Head(mergeChan)] # "Merging"
         THEN at' = [at EXCEPT ![Worker] = Head(mergeChan)] /\ Goto(Worker, "copy")
         ELSE UNCHANGED <<at, pc>>
    /\ UNCHANGED <<rows, store, user, want, of, idx, snapshot, cleanup>>

\* The status of the row is not looked at; a lookup that fails drops the task.
TaskReceive ==
    /\ pc[Worker] = "idle"
    /\ mergeChan # <<>>
    /\ mergeChan' = Tail(mergeChan)
    /\ \/ /\ Exists(Head(mergeChan))
          /\ at' = [at EXCEPT ![Worker] = Head(mergeChan)]
          /\ Goto(Worker, "copy")
       \/ /\ ~Exists(Head(mergeChan)) \/ "db" \in Faults
          /\ UNCHANGED <<at, pc>>
    /\ UNCHANGED <<rows, store, user, want, of, idx, snapshot, cleanup>>

\* Mutant: the chunks are cleaned up after a failed merge too.
TaskFailedWithCleanup ==
    /\ pc[Worker] = "task.failed"
    /\ UpdateStatusByUUID(at[Worker], "Failed")
    /\ Goto(Worker, "task.cleanup")
    /\ UNCHANGED <<owner, file, chunk, videos, store, args, snapshot, mergeChan, cleanup>>

TaskFailed ==
    /\ pc[Worker] = "task.failed"
    /\ UpdateStatusByUUID(at[Worker], "Failed")
    /\ Done(Worker)
    /\ UNCHANGED <<owner, file, chunk, videos, store, mergeChan, cleanup>>

TaskSuccess ==
    /\ pc[Worker] = "task.success"
    /\ UpdateStatusByUUID(at[Worker], "Success")
    /\ Goto(Worker, "task.cleanup")
    /\ UNCHANGED <<owner, file, chunk, videos, store, args, snapshot, mergeChan, cleanup>>

TaskCleanup ==
    /\ pc[Worker] = "task.cleanup"
    /\ EnqueueChunkCleanup(at[Worker])
    /\ Done(Worker)
    /\ UNCHANGED <<rows, store, mergeChan, batch, todo, delIdx>>

-----------------------------------------------------------------------------
(* The cleanup worker and the goroutines that delete chunks.               *)

CleanerIdle == todo = {} /\ delAt[Cleaner] = NoUpload

\* processBatch takes each chunk path of the batch once.
CleanupReceive ==
    /\ CleanerIdle
    /\ cleanupChan # <<>>
    /\ LET b == Append(batch, Head(cleanupChan))
           full == Len(b) >= CleanupBatchSize
       IN /\ batch' = IF full THEN <<>> ELSE b
          /\ todo' = IF full THEN Range(b) ELSE {}
    /\ cleanupChan' = Tail(cleanupChan)
    /\ UNCHANGED <<rows, store, pc, args, snapshot, mergeChan, delAt, delIdx>>

\* Mutant: the ticker flushes full batches only.
CleanupTickWhenFull ==
    /\ CleanerIdle
    /\ Len(batch) >= CleanupBatchSize
    /\ todo' = Range(batch)
    /\ batch' = <<>>
    /\ UNCHANGED <<rows, store, pc, args, snapshot, mergeChan, cleanupChan, delAt, delIdx>>

CleanupTick ==
    /\ CleanerIdle
    /\ batch # <<>>
    /\ todo' = Range(batch)
    /\ batch' = <<>>
    /\ UNCHANGED <<rows, store, pc, args, snapshot, mergeChan, cleanupChan, delAt, delIdx>>

ProcessNext ==
    /\ delAt[Cleaner] = NoUpload
    /\ \E u \in todo :
         /\ delAt' = [delAt EXCEPT ![Cleaner] = u]
         /\ todo' = todo \ {u}
    /\ UNCHANGED <<rows, store, pc, args, snapshot, mergeChan, cleanupChan, batch, delIdx>>

\* One DELETE; an error does not stop the loop.
DeleteChunk(d) ==
    /\ delAt[d] # NoUpload
    /\ \/ obj' = [obj EXCEPT ![delAt[d]] = @ \ {delIdx[d]}]
       \/ "storage" \in Faults /\ UNCHANGED obj
    /\ IF delIdx[d] + 1 < TotalChunks
         THEN delIdx' = [delIdx EXCEPT ![d] = @ + 1] /\ UNCHANGED delAt
         ELSE delIdx' = [delIdx EXCEPT ![d] = 0] /\ delAt' = [delAt EXCEPT ![d] = NoUpload]
    /\ UNCHANGED <<rows, merged, urls, pc, args, snapshot, mergeChan, cleanupChan, batch, todo>>

-----------------------------------------------------------------------------
(* What happens around the service.                                        *)

\* A client PUTs a chunk straight to the store, with a URL it was given.
PutChunk ==
    /\ \E u \in Uploads : \E i \in urls[u] : obj' = [obj EXCEPT ![u] = @ \cup {i}]
    /\ UNCHANGED <<rows, merged, urls, pc, args, snapshot, mergeChan, cleanup>>

\* The end of UpdateVideoTranscodeInfo: the outcome reported for a video (by the
\* transcoder, or by publish when Kafka refuses the task) becomes the status of
\* its upload.
TranscodeOutcome ==
    /\ \E u \in videos, s \in {"Success", "Failed"} : UpdateStatusByUUID(u, s)
    /\ UNCHANGED <<owner, file, chunk, videos, store, pc, args, snapshot, mergeChan, cleanup>>

\* A database call that fails and has written nothing.
DbError(p) ==
    /\ "db" \in Faults
    /\ pc[p] \in ReturnsError
    /\ Done(p)
    /\ UNCHANGED <<rows, store, mergeChan, cleanup>>

\* A database call that has written and whose answer is lost: the handler, or the
\* worker, goes no further although the row has changed.  The other writes are
\* followed by a call whose error leaves the same state.
DbAnswerLost(p) ==
    /\ "db" \in Faults
    /\ \/ /\ pc[p] = "presign.mark"
          /\ UpdateChunkStatusByUUID(of[p], idx[p], "Uploading")
          /\ UNCHANGED <<status, videos>>
       \/ /\ pc[p] = "merge.merging"
          /\ UpdateStatusByUUID(at[p], "Merging")
          /\ UNCHANGED <<chunk, videos>>
       \/ /\ pc[p] = "task.success"
          /\ UpdateStatusByUUID(at[p], "Success")
          /\ UNCHANGED <<chunk, videos>>
       \/ /\ pc[p] = "publish.create"
          /\ videos' = videos \cup {at[p]}
          /\ UNCHANGED <<status, chunk>>
    /\ Done(p)
    /\ UNCHANGED <<owner, file, store, mergeChan, cleanup>>

\* No write, where the code goes on as if the status had been written.
DbErrorIgnored(p) ==
    /\ "db" \in Faults
    /\ pc[p] \in IgnoresError
    /\ CASE pc[p] = "presign.uploading" ->
              Goto(p, "presign.mark") /\ UNCHANGED <<args, snapshot>>
         [] pc[p] = "publish.merging" ->
              Goto(p, "copy") /\ UNCHANGED <<args, snapshot>>
         [] OTHER -> Done(p)
    /\ UNCHANGED <<rows, store, mergeChan, cleanup>>

\* The process dies and starts again: rows and objects stay, memory is lost.
Crash ==
    /\ "crash" \in Faults
    /\ pc' = [p \in Procs |-> "idle"]
    /\ user' = [p \in Procs |-> NoUser]
    /\ want' = [p \in Procs |-> NoFile]
    /\ at' = [p \in Procs |-> NoUpload]
    /\ of' = [p \in Procs |-> NoUpload]
    /\ idx' = [p \in Procs |-> 0]
    /\ seen' = [p \in Procs |-> "None"]
    /\ cdone' = [p \in Procs |-> {}]
    /\ mergeChan' = <<>>
    /\ cleanupChan' = <<>>
    /\ batch' = <<>>
    /\ todo' = {}
    /\ delAt' = [d \in Deleters |-> NoUpload]
    /\ delIdx' = [d \in Deleters |-> 0]
    /\ UNCHANGED <<rows, store>>

-----------------------------------------------------------------------------
Init ==
    /\ status = [u \in Uploads |-> "None"]
    /\ owner = [u \in Uploads |-> NoUser]
    /\ file = [u \in Uploads |-> NoFile]
    /\ chunk = [u \in Uploads |-> [i \in Index |-> "Initialized"]]
    /\ videos = {}
    /\ obj = [u \in Uploads |-> {}]
    /\ merged = {}
    /\ urls = [u \in Uploads |-> {}]
    /\ pc = [p \in Procs |-> "idle"]
    /\ user = [p \in Procs |-> NoUser]
    /\ want = [p \in Procs |-> NoFile]
    /\ at = [p \in Procs |-> NoUpload]
    /\ of = [p \in Procs |-> NoUpload]
    /\ idx = [p \in Procs |-> 0]
    /\ seen = [p \in Procs |-> "None"]
    /\ cdone = [p \in Procs |-> {}]
    /\ mergeChan = <<>>
    /\ cleanupChan = <<>>
    /\ batch = <<>>
    /\ todo = {}
    /\ delAt = [d \in Deleters |-> NoUpload]
    /\ delIdx = [d \in Deleters |-> 0]

AcceptRequest(p) ==
    InitFind(p) \/ PresignFind(p) \/ CompleteFind(p) \/ MergeFind(p) \/ PublishFind(p)

\* The next step of a request in progress.
RequestStep(p) ==
    \/ InitChunks(p) \/ InitCreate(p) \/ InitRefresh(p)
    \/ PresignChunk(p) \/ PresignUploading(p) \/ PresignMark(p)
    \/ CompleteChunk(p) \/ CompleteHead(p)
    \/ CompleteMark(p) \/ CompleteCount(p) \/ CompleteMerging(p)
    \/ MergeCount(p) \/ MergeMerging(p) \/ MergeEnqueue(p)
    \/ PublishCount(p) \/ PublishMerging(p) \/ PublishFailed(p)
    \/ PublishSuccess(p) \/ PublishReread(p) \/ PublishCreate(p) \/ PublishCleanup(p)
    \/ UploadPartCopy(p) \/ CompleteMultipartUpload(p)
    \/ DbError(p) \/ DbAnswerLost(p) \/ DbErrorIgnored(p)

WorkerStep ==
    \/ TaskReceive \/ TaskFailed \/ TaskSuccess \/ TaskCleanup
    \/ UploadPartCopy(Worker) \/ CompleteMultipartUpload(Worker)
    \/ DbError(Worker) \/ DbAnswerLost(Worker) \/ DbErrorIgnored(Worker)

CleanerStep ==
    CleanupReceive \/ CleanupTick \/ ProcessNext \/ DeleteChunk(Cleaner)

Next ==
    \/ \E p \in Requests : AcceptRequest(p) \/ RequestStep(p)
    \/ WorkerStep
    \/ CleanerStep
    \/ \E d \in Spawned : DeleteChunk(d)
    \/ PutChunk
    \/ TranscodeOutcome
    \/ Crash

\* Goroutines that can run do run.  Nothing is assumed of clients, of the
\* transcoder or of faults.
Fairness ==
    /\ \A p \in Requests : WF_vars(RequestStep(p))
    /\ WF_vars(WorkerStep)
    /\ WF_vars(CleanerStep)
    /\ \A d \in Spawned : WF_vars(DeleteChunk(d))

Spec == Init /\ [][Next]_vars

FairSpec == Spec /\ Fairness

-----------------------------------------------------------------------------
(* Properties.                                                             *)

\* Every variable keeps its type, and the two channels and the batch never hold
\* more than mergeQueueSize, cleanupQueueSize and cleanupBatchSize - 1 entries
\* (merge_task.go, chunk_cleanup_task.go).
RowsTypeOK ==
    /\ status \in [Uploads -> UploadStatus]
    /\ owner \in [Uploads -> Users \cup {NoUser}]
    /\ file \in [Uploads -> Files \cup {NoFile}]
    /\ chunk \in [Uploads -> [Index -> ChunkStatus]]
    /\ videos \in SUBSET Uploads
StoreTypeOK ==
    /\ obj \in [Uploads -> SUBSET Index]
    /\ merged \in SUBSET Uploads
    /\ urls \in [Uploads -> SUBSET Index]
PcTypeOK ==
    /\ pc \in [Procs -> RequestPC \cup WorkerPC]
    /\ \A p \in Requests : pc[p] \in RequestPC
    /\ pc[Worker] \in WorkerPC
ArgsTypeOK ==
    /\ user \in [Procs -> Users \cup {NoUser}]
    /\ want \in [Procs -> Files \cup {NoFile}]
    /\ at \in [Procs -> Uploads \cup {NoUpload}]
    /\ of \in [Procs -> Uploads \cup {NoUpload}]
    /\ idx \in [Procs -> Index]
    /\ seen \in [Procs -> UploadStatus]
    /\ cdone \in [Procs -> SUBSET Index]
QueuesTypeOK ==
    /\ mergeChan \in Seq(Uploads) /\ Len(mergeChan) <= MergeQueueSize
    /\ cleanupChan \in Seq(Uploads) /\ Len(cleanupChan) <= CleanupQueueSize
    /\ batch \in Seq(Uploads) /\ Len(batch) < CleanupBatchSize
    /\ todo \in SUBSET Uploads
    /\ delAt \in [Deleters -> Uploads \cup {NoUpload}]
    /\ delIdx \in [Deleters -> Index]
\* A process past its lookup holds the upload it found, and a presign or complete
\* request the upload its chunk belongs to.
ArgsMatchPc ==
    \A p \in Procs :
        /\ pc[p] \notin {"idle", "init.create"} => at[p] \in Uploads
        /\ pc[p] \in PresignPC \cup CompletePC => of[p] \in Uploads
        /\ pc[p] = "init.create" => user[p] \in Users /\ want[p] \in Files
TypeOK ==
    /\ RowsTypeOK
    /\ StoreTypeOK
    /\ PcTypeOK
    /\ ArgsTypeOK
    /\ QueuesTypeOK
    /\ ArgsMatchPc

\* An upload that reads Success, or that a video was published from, has its
\* merged object in the store: the publisher hands the path of that object to
\* the transcoder.  Stale handlers, duplicate merges, faults and crashes
\* included (MergeChunk, mergeUploadVideo and UpdateVideoTranscodeInfo).
SuccessIsMerged ==
    \A u \in Uploads : status[u] = "Success" \/ u \in videos => u \in merged

\* The bytes of a chunk that the table calls Completed are never lost: its
\* object is in the store, or the merged object is (CompleteChunk, which trusts
\* a HeadObject made before the row is written, against the cleanup worker).
CompletedIsStored ==
    \A u \in Uploads : \A i \in CompletedChunks(u) : i \in obj[u] \/ u \in merged

HasSources(u) == u \in merged \/ obj[u] = Index

\* No merge is started, or announced, on an upload that misses chunks: an upload
\* that reads Merging, that a handler is about to make Merging, that is queued for
\* the worker, or being merged by it or by a publish request, has all its chunk
\* objects or its merged object already.  The chunks are counted by another
\* goroutine, at another time, than they are copied (MergeChunk of the service,
\* CompleteChunk, mergeUploadVideo, mergeWorker).
MergesHaveSources ==
    /\ \A u \in Uploads : status[u] = "Merging" => HasSources(u)
    /\ \A u \in Range(mergeChan) : HasSources(u)
    /\ \A p \in Procs : pc[p] \in CopyPC \cup MergingPC => HasSources(at[p])

\* Chunks are only handed to the cleanup after the merged object exists: neither
\* the queue, the batch, nor a deletion in progress names an upload without it
\* (EnqueueChunkCleanup is called by the worker and by publish).
CleanupIsSafe ==
    \A u \in Range(cleanupChan) \cup Range(batch) \cup todo
              \cup ({delAt[d] : d \in Deleters} \ {NoUpload}) : u \in merged

\* A request past its lookups works on an upload, and on a chunk, of its own
\* user: the chunk query does not look at the user and relies on the upload
\* having been checked (QueryUploadVideoByUUID of the chunk DAO).
WorksOnOwnUpload(p) == at[p] \in Uploads /\ Exists(at[p]) /\ owner[at[p]] = user[p]
WorksOnOwnChunk(p)  == of[p] \in Uploads /\ Exists(of[p]) /\ owner[of[p]] = user[p]
TenantIsolation ==
    \A p \in Requests :
        /\ pc[p] \notin {"idle", "init.create"} => WorksOnOwnUpload(p)
        /\ pc[p] \in {"presign.uploading", "presign.mark", "complete.head", "complete.mark"}
             => WorksOnOwnChunk(p)

\* What makes the invariants above inductive: a request about to mark a chunk
\* Completed has seen its object, and a process that passed MergeChunk has its
\* merged object until it returns.
MergedPC == {"task.success", "task.cleanup", "publish.success", "publish.reread",
             "publish.create", "publish.cleanup"}
RowsSafe ==
    /\ SuccessIsMerged
    /\ CompletedIsStored
    /\ \A u \in Uploads : status[u] = "Merging" => HasSources(u)
PcSafe ==
    \A p \in Procs :
        /\ pc[p] = "complete.mark" => idx[p] \in obj[of[p]] \/ of[p] \in merged
        /\ pc[p] \in CopyPC \cup MergingPC => HasSources(at[p])
        /\ pc[p] \in MergedPC => at[p] \in merged
QueuesSafe ==
    /\ \A u \in Range(mergeChan) : HasSources(u)
    /\ CleanupIsSafe
SafetyInv == TypeOK /\ RowsSafe /\ PcSafe /\ QueuesSafe

\* What is left of an upload whose merge is reported as failed: its merged object or,
\* where the store can fail, all of its chunks.
Spared(u) == u \in merged \/ ("storage" \in Faults /\ obj[u] = Index)

\* An upload that reads Failed has lost nothing, whatever failed: its merged
\* object exists, or all of its chunks do, so that it can be merged again.  Only an
\* error of the store leaves it unmerged: any other failure that is reported is a
\* second merge that found its chunks cleaned up, or a failed transcoding
\* (merge_task.go:61-66, video_publish_service.go:97-100 and 140-147).
FailedIsSpurious == \A u \in Uploads : status[u] = "Failed" => Spared(u)

\* A task that is in mergeChan ends with the merged object in the store.
QueuedMergeCompletes ==
    \A u \in Uploads : u \in Range(mergeChan) ~> u \in merged

\* A cleanup request that was queued reaches DeleteChunks, although the worker
\* batches them and flushes short batches only on its ticker.
PendingCleanup(u) == u \in Range(cleanupChan) \cup Range(batch) \cup todo
CleanupDrains ==
    \A u \in Uploads : PendingCleanup(u) ~> \E d \in Deleters : delAt[d] = u

\* "After all chunks are completed, the merge starts automatically": an upload
\* that completing its last chunk made Merging gets its merged object
\* (CompleteChunk).
AutoMerge ==
    \A u \in Uploads :
        status[u] = "Merging" /\ CountChunk(u) = TotalChunks ~> u \in merged

-----------------------------------------------------------------------------
\* The pipeline keeps what DurableUpload promises, whatever happens to it.
Durable == INSTANCE DurableUpload
             WITH Uploads <- Uploads, Index <- Index,
                  stored <- obj, merged <- merged, published <- videos
DurableSpec == Durable!Spec
=============================================================================
