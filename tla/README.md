# Verification of the upload service

TLA+ models of `go-video-upload-service`, their TLC runs, and TLAPS proofs about
them. The service takes videos in chunks (the bytes go straight from the client
to an S3 store, RustFS), merges the chunks, publishes the video, orders its
transcoding through Kafka and records what the transcoder reports. The models
are about what is hard to test there: handlers and workers that interleave on
rows they read some calls ago, failures between two writes, crashes, bounded
queues and duplicated work, links that expire, connections that are shared
without a lock, and the way the process starts and stops.

## The system

| Component | State | Operations | Where it gets hard |
|---|---|---|---|
| Upload service, `ddd/domain/service/upload_service.go` with `ddd/application/app/upload_app.go` and the HTTP controller | rows of `upload_video`, `upload_chunk` | init, presign, complete, merge | every handler decides on entities it read before other calls; no row lock, no transaction but the one of `BatchCreate` |
| Merge worker, `ddd/infrastructure/task/merge_task.go` | `mergeChan` (128, in memory) | enqueue, take, merge, write the status | a full channel drops the task; one upload can be queued twice; a restart forgets the queue |
| Cleanup worker, `ddd/infrastructure/task/chunk_cleanup_task.go` | `cleanupChan` (128), a batch (16), a ticker (3 s) | enqueue, batch, flush, delete | a full channel spawns goroutines that delete at the same time; deletes without retry |
| RustFS client, `ddd/infrastructure/rustfs/rustfs_service_impl.go` | objects of chunks, merged objects | presign, HEAD, multipart merge by server-side copy, delete | chunks are deleted while another merge copies them; a call that fails may have taken effect |
| Publishing, `ddd/application/app/video_app.go`, `ddd/domain/service/video_publish_service.go` | rows of `video_publish` | publish: merge if need be, create the row, schedule the cleanup, precreate, produce, update the row | a chain of six calls to four systems, without compensation; two publish requests for one upload |
| Transcode callback, `ddd/adapter/grpc/upload_grpc_server.go` | (both tables) | `UpdateTranscodeStatus` | races with the end of the publish handler; writes two tables without a transaction |
| Kafka producer, `pkg/kafka/client.go` | topic `transcode.tasks`, one writer per topic in a `sync.Map` | `Produce`, `Close` | an error does not mean that nothing happened; two requests make a writer for one topic |
| gRPC clients, `ddd/infrastructure/grpc` | one struct per service with a connection and a stub | `ValidateUser`, `GetUsersByUUIDs`, `Precreate`; connect, reconnect, second attempt | shared fields written without a lock, while other requests use them |
| Lifecycle, `app/app.go`, `pkg/manager`, `internal/resource` | plug-ins in maps, two servers | startup, shutdown | gRPC serves while the rest starts; the order of closing; workers that nothing stops |
| Logger, `pkg/logger` | the log file | write, close | closed under a worker that logs |
| Listings, `ddd/application/cqe/video_cqe.go`, `ddd/infrastructure/database/dao/video_dao.go` | (reads `video_publish`) | `ListVideos`, `ListOpenVideos` | two queries beside writers, ties in the order, pages read one after the other, names from another service |
| Tags list, image upload, auth, config, tracing | | read-only or stateless | |
| Registry and discovery, MinIO client, Redis, token middleware | | not used by this version | |

How they interact: handlers and workers share MySQL and the store, and nothing
else but the two channels. `MergeChunks` (app) sends to `mergeChan`; the merge
worker and the publish handler send to `cleanupChan`; publish merges in its own
goroutine when the upload does not read Success. The transcoder calls back over
gRPC into the same `UpdateVideoTranscodeInfo` that publish calls. Every
upload request asks the user service first and every listing asks it for names,
through one shared client. `app.Run` starts resources, gRPC, workers and HTTP in
this order, and a signal stops gRPC, then HTTP, then the log and the resources;
the workers run to the end of the process.

What makes each part correct: bytes a client completed are never lost (upload
service, cleanup worker); no merge is announced or started without its sources
(upload service, merge worker); what reads Success, and what is published, has
its merged object (all of them); chunks are only deleted once merged (cleanup);
requests stay within their user (DAO); queued work gets done (workers); a video
is announced before it is ordered and ordered before it is released, and what
the transcoder said is kept (publishing, callback); a link works as long as
it is said to, and the merged object holds the bytes that were checked (links,
store); a call of a remote service that nothing disturbs is answered, whatever
happened before it (clients); requests find what they need open and a clean exit
cuts none of them off (lifecycle); a client that reads a list to its end has seen
what was in it, with the right names and tags (listings).

## Modules

| Module | What it is |
|---|---|
| `UploadPipeline` | The core: the five handlers, the two workers, the spawned goroutines, the rows, the store, clients, faults |
| `DurableUpload` | What `UploadPipeline` and `ChunkTransfer` promise about bytes: Put, Merge (of a complete set), Reclaim (of a merged upload), Publish |
| `UploadPipelineTypes` | Proof that `Spec => []TypeOK` |
| `UploadPipelineProofs` | Proofs of its six safety invariants and that `UploadPipeline` implements `DurableUpload` |
| `VideoPublish` | Publishing from the row on, the transcoder's reports, `UpdateVideoTranscodeInfo` |
| `VideoRelease` | What publishing promises about a video: Create, Announce, Order, Publish |
| `VideoPublishProofs` | Proofs of the type invariant and that `VideoPublish` implements `VideoRelease` |
| `ChunkTransfer` | Links and their expiry, sizes and contents of chunks, the multipart upload behind a merge |
| `ChunkTransferProofs` | Proofs of its type invariant, of its four safety invariants and that it implements `DurableUpload` |
| `RemoteClient` | The three gRPC clients: connect, reconnect and the second attempt on unlocked fields |
| `RemoteClientProofs` | Proofs of its type invariant and of its three safety invariants |
| `ServiceLifecycle` | `app.Run` from the configuration to the exit, both servers, the Kafka writers, the log |
| `ServiceLifecycleProofs` | Proofs of its type invariant and of its four safety invariants |
| `VideoCatalog` | The listings beside writers, page after page; normalisation of pages, filters and tags |
| `VideoCatalogTags` | Proof of what `sanitizeTags` returns for every list of tags |
| `VideoCatalogProofs` | Proofs of its type invariant and of its six safety invariants |
| `MCUploadPipeline`, `MCVideoPublish`, `MCChunkTransfer`, `MCRemoteClient`, `MCServiceLifecycle`, `MCVideoCatalog` | Symmetry sets and structured constants of the runs; the other constants are in the `.cfg` files |

How they fit together. `UploadPipeline` and `VideoPublish` are the program's own
state; `DurableUpload` and `VideoRelease` are what they promise. Four modules
each take one thing those two abstract from and open it: `ChunkTransfer` the
bytes, the clock and the store's multipart uploads behind `InitRefresh`,
`PutChunk`, `UploadPartCopy` and `CompleteMultipartUpload` (and implements `DurableUpload` as well); `RemoteClient` the
call behind "a request that the user service refuses" and behind `Precreate`;
`ServiceLifecycle` what comes before and after, of which those modules know a
stop at any point; `VideoCatalog` the readers of the rows that `VideoPublish`
writes, with any order of its writes.

### UploadPipeline

A handler is a process `p` with a control point `pc[p]`, named for the call it
makes next (`"complete.head"` is the `HeadObject` of `CompleteChunk`), the
arguments of its request (`user`, `want`, `at`, `of`, `idx`) and what it read:
`seen` is the status in the upload entity, `cdone` the chunks whose entity said
Completed. Every database or storage call is one step. The merge worker is one
more such process; it has no snapshot because the code looks at nothing of the
row but its paths. The cleanup worker has `batch` (its slice), `todo` (the paths
that `processBatch` still has to do), and `delAt`, `delIdx` (the loop of
`DeleteChunks`), which the spawned goroutines have too.

| Code | Actions |
|---|---|
| `UploadVideoInit` | `InitFind`, `InitChunks`, `InitCreate`, `InitRefresh` |
| `PresignChunk` | `PresignFind`, `PresignChunk`, `PresignUploading`, `PresignMark` |
| `CompleteChunk` | `CompleteFind`, `CompleteChunk`, `CompleteHead`, `CompleteMark`, `CompleteCount`, `CompleteMerging` |
| `MergeChunks`, `MergeChunk` of the service | `MergeFind`, `MergeCount`, `MergeMerging`, `MergeEnqueue` |
| `PublishVideo`, `mergeUploadVideo` | `PublishFind`, `PublishCount`, `PublishMerging`, `PublishFailed`, `PublishSuccess`, `PublishReread`, `PublishCreate`, `PublishCleanup` |
| `MergeChunk` of the store (worker and publish) | `UploadPartCopy`, `CompleteMultipartUpload` |
| `mergeWorker` | `TaskReceive`, `TaskFailed`, `TaskSuccess`, `TaskCleanup` |
| `cleanupWorker`, `processBatch`, `DeleteChunks` | `CleanupReceive`, `CleanupTick`, `ProcessNext`, `DeleteChunk` |
| `UpdateVideoTranscodeInfo`, its last write | `TranscodeOutcome` |
| outside the service | `PutChunk`, `Crash`, `DbError`, `DbAnswerLost`, `DbErrorIgnored` |

Abstractions, and why they are sound for the properties:

- A request that validation, the user service or its own lookup refuses changes
  nothing; it is not a step. The chunk a request names may belong to any upload
  (`of`), because the chunk query does not look at the user.
- A database call that fails has written nothing (`DbError`, `DbErrorIgnored`), or
  has written and its answer is lost (`DbAnswerLost`). A handler either returns
  (`ReturnsError`) or goes on as if it had written (`IgnoresError`, the places
  where the code drops the error). `DbAnswerLost` is about the four writes whose
  loss shows in a state of its own: after the other writes the code makes a call
  that can fail as well, or does nothing more. A completion of a multipart upload
  that fails may have taken effect. One that is answered with a 2xx is taken as done,
  by the code and by the model: the code reads no error out of the body of such an
  answer, and the store is assumed to put none there.
- A file is the triple (name, size, hash). Sizes and hashes of chunks are left
  out: a size mismatch is a refusal of `CompleteHead`. A chunk that is sent again
  with other bytes is not told apart here; `ChunkTransfer` does.
- URLs do not expire (`urls` only grows): a client can always send a chunk it was
  once given a URL for, the worst case for the cleanup. The columns `put_url` and
  `presign_expired_at` are in `ChunkTransfer`.
- An upload id beyond `MaxUploads` is an insert that fails.
- The number of chunks is one constant, `TotalChunks`.
- A crash empties channels, batch and local variables and keeps rows and objects.
- `TranscodeOutcome` allows any outcome for any upload that has a video at any
  time, more than the transcoder does.

### VideoPublish

Starts from uploads that were merged once, which is where the interesting part
of publishing begins. The merge that publish does on an upload that does not
read Success is one step with all the outcomes its detail has in `UploadPipeline`
(`PublishMerge`). `video` is the table `video_publish`, reduced to the upload,
the status, whether a task id is recorded and whether there is a publication
date; `precreated` and `topic` are what the video service and Kafka know. A gRPC
call of the transcoder is a process of its own (`Calls`) and reports any valid
status, any number of times, on any video whose task is in the topic.
`UpdateFind`, `UpdateRow` and `UpdateUpload` are the three calls of
`UpdateVideoTranscodeInfo`, run by handlers and by gRPC calls.

### ChunkTransfer

One upload whose rows exist. `row` is `upload_chunk`, with the time at which
`put_url` was signed beside the expiry that is kept for it; `ent[h]` is what a
handler read, which is what its answer is made from. `until` is how long the
links last that clients hold. The store counts a lifetime from the signature,
the service from the moment after the signature: `PresignPutURL` and
`UpdateUploadChunkPresign` are two steps, and `Tick` may come between them.

| Code | Actions |
|---|---|
| `UploadVideoInit` on an upload that exists, `refreshChunkPresign`, `attachPresignForChunks` | `UploadVideoInit`, `RefreshSkip`, `PresignPutURL`, `UpdateUploadChunkPresign`, `AttachPresign` |
| `PresignChunk`, `CompleteChunk` | `PresignChunk`, `PresignChunkMark`, `CompleteChunk`, `HeadObject`, `MarkChunkCompleted` |
| `MergeChunk` of the store, then `DeleteChunks` | `MergeRequested`, `InitiateMultipartUpload`, `UploadPartCopy`, `CompleteMultipartUpload`, `AbortMultipartUpload`, `DeleteChunks` |
| contexts, clients, the process | `ContextExpires`, `Put`, `Tick`, `Crash` |

Contents are told apart by their size only, which is all that the code looks at.
Who may merge is left to `UploadPipeline`: here anyone may once all rows read
Completed, more than the code allows. The deletion after a merge removes any
subset of the chunks. Every store and database call may fail; calls that change
the store may take effect and fail.

### RemoteClient

`conn`, `typed` and `stub` are the two fields of the struct; `c.client` is an
interface value, whose two words are read and written separately, as a data race
allows. A handler is at the check for nil, at one of the writes of `connect`, or
waiting for an answer on the connection its stub was made from (`target`).
`kind` picks the client: the user client is published connected (the process
ends otherwise) and reconnects, the transcode client is made unconnected and
reconnects, the video client is made unconnected and does not. `broken` are the
connections an outage took down: gRPC repairs them in its own time, so a call on
one may fail or succeed after the service is back. A connection that was
dialled and a reference to it that was overwritten are what leaks.

### ServiceLifecycle

`main` is the phase of `app.Run`; `world` are the circumstances it meets (no
configuration, a port taken, a database that leaves between two connections).
`handler` are goroutines of requests: `rpc`, a plain HTTP request, or an HTTP
request that produces to Kafka and looks for the writer of its topic. A phase
that fails ends the process the way the code does: `Fatal` (no deferred call
runs), a panic (those that exist run), the default action of a signal before
`Notify`. `manager.Shutdown` stops the components, of which this version has
none. The merge worker is here only because nothing stops it and it logs.

### VideoCatalog

`row` is `video_publish` as `VideoPublish` writes it, with users, tags and
dates; `PublishVideo` and `UpdateVideoTranscodeInfo` are its writers, any time
and in any order. A listing is `Begin`, `Count`, `Find`, `GetUsersForVideos`,
each one query or call, and a report may write any status, Draft included; a client then asks for the next page until the number of
pages it was told is reached. Rows of one date come in any order, in each query
another. `moved` records what happened to the list during the walk: a row left it
(`"left"`), entered it (`"entered"`; between a count and its query also
`"raced"`), had its date changed (`"redated"`), or shared a date with another
when a page was found (`"tied"`). They are the excuses of `WalkMissesNone` and `NoneShownTwice`,
which name the ones each needs: a row that enters in front pushes those behind
it to a page that is yet to come, which shows them again and hides none. `drift`
counts the rows that entered or left between the count and the query of the
present page: `PageMatchesTotal` says that a page is as long as its total
demands, where the total may be off by `drift` and by nothing else. What
happened on earlier pages, or after the page was found, excuses nothing. Tags are
members of `DOMAIN Key`; `Trim` takes the blanks around a tag away and `Key` is
its lower case, which is what tags are compared by; numbers wrap around at
`IntMax`.

## Runs

| Run | Instance | What it shows |
|---|---|---|
| `pipeline_faults` (`PipelineFaults.cfg`) | one upload, two chunks, one request at a time beside both workers and a spawned goroutine; database, storage and crash faults; queues of one, batch of two. 1.4 million states | types and bounds; Success and published imply merged; Completed chunks are not lost; only merged uploads are cleaned up; an upload that reads Failed lost nothing; `DurableUpload` is implemented |
| `pipeline_races` | one upload, one chunk, two requests at a time, no faults. 1.8 million states | Success implies merged with stale handlers; merges have their sources; Failed is spurious |
| `pipeline_tenants` | two users, two uploads, two requests. 200 thousand states | handlers work on rows of their own user |
| `pipeline_live` | two requests, two chunks, fairness, no faults | queued merges complete; queued cleanups are processed |
| `pipeline_auto_merge` | one request, fairness; expected to fail | completing the last chunk does not start the merge |
| `video_faults` (`VideoFaults.cfg`) | one upload, two videos, two publish requests, one gRPC call at a time, all faults. 530 thousand states | types and order; `VideoRelease` is implemented |
| `video_live` | the same, fairness, no faults | a video that has a row is ordered |
| `video_result` | one publish request; expected to fail | the handler overwrites the transcoder's report |
| `remote_clients` (`RemoteClients.cfg`) | two handlers, three calls, one outage, each of the three clients; fairness. 330 thousand states | undisturbed calls are answered; leaks need overlap; no torn read of the user client; every call returns |
| `chunk_transfer` (`ChunkTransfer.cfg`) | two chunks of two sizes, two requests, two mergers, one workload with a clock and one with merges. 1.3 million states | what links promise; what the merged object holds; what an abort leaves behind; `DurableUpload` is implemented |
| `lifecycle` (`ServiceLifecycle.cfg`) | seventeen worlds, two requests at a time, three in all; fairness. 29 thousand states | requests find their resources; a clean exit has answered, closed and logged everything; a signal ends the process |
| `catalog` (`VideoCatalog.cfg`) | five videos, two users, two writes during a walk, pages of one or two. 136 thousand states | what a walk may miss and what it may show twice; pages agree with filters, uploaders and tags, and with totals up to the rows that came or went between the two queries |

Why the bounds are enough. Two requests are the least with a stale snapshot that
another handler outdates, and with a duplicate merge. Two chunks are the least
with a merge or a cleanup that stops half way and with a count that is not all
or nothing. Capacities of one make both full-channel cases happen, a batch of
two separates the flush by size from the flush by the ticker. Two uploads are
needed only to mix up users, two videos to publish one upload twice. The
combinations that would multiply the states (two requests with faults and two
chunks) are what the proofs are for: they hold for all of them.

In the four other runs: a lost connection takes two handlers that connect at
once, and a third call shows what they leave to the next one; one outage breaks
every connection there is. In `ChunkTransfer` a link lasts three ticks with a
margin of one, so that within four ticks it is fresh, at the margin, expired and
signed again; the two workloads (`Workloads`) keep the clock apart from the
merges: with the clock stopped every link lasts, which is the worst case for the
contents, and links know nothing of merges. The proofs hold for both at once.
Two upload ids are a merge and its duplicate. `Slack` is not a bound of the run but
an assumption: the code takes the time a second time after the signature, and
what it promises is off by what lies between. The worlds of `ServiceLifecycle`
hold each circumstance alone, and those pairs that reach a phase together. Two
writes during a walk are one row that leaves and one that comes; `Tables` starts
with no rows or with three, so that a list has more pages than one; pages start
at 0 and at 6, where the offset does not fit an int of 7 any more.

One client that works in order never uses the merge queue: `CompleteChunk` of
the last chunk has made the upload Merging before it can ask for the merge. A
task gets queued when the entity of `/merge` was read before, which takes two
requests; `pipeline_live` has two for that reason.

Fairness (`Fairness` in `UploadPipeline` and `VideoPublish`): a goroutine that
can take a step takes one, which the Go scheduler and the timeouts of the calls
give. It covers each handler that has accepted a request, the merge worker, the cleanup worker and
its ticker, and the spawned goroutines. It does not cover clients (no request,
no PUT is ever promised), the transcoder, or faults. The liveness runs have no
faults: with a failing database the code drops tasks for good, and nothing in it
retries.

`RemoteClient!FairSpec` has weak fairness of every handler's step, which includes
the timeout of a dial and of a call; nothing makes the service come back.
`ServiceLifecycle!FairSpec` has weak fairness of the main goroutine, of the
worker's write and of gRPC calls in progress, and strong fairness of the close
of the log, which needs the logger's mutex: a Go mutex goes over to starvation
mode and is handed to the goroutine that has waited, so a worker that logs for
ever cannot keep it. Nothing is assumed of HTTP requests, which is why the
deadline of the shutdown matters. `ChunkTransfer` and `VideoCatalog` state no
liveness.

Three runs switch the deadlock check off (`remote_clients`, `chunk_transfer`,
`lifecycle`): the calls, the requests and the ticks of a behaviour are used up,
or the process has ended. The others never stop.

## Findings

- `AutoMerge`, run `pipeline_auto_merge`. `CompleteChunk` writes Merging under
  the comment "所有分片完成后自动进入合并" (`upload_service.go:303`), but only
  `/merge` queues a task, and `/merge` answers "processing" to an upload that
  reads Merging. The upload stays in Merging until somebody publishes it.
- `TranscodeResultKept`, run `video_result`. The transcoder may report as soon as
  the message is delivered; the publish handler then writes Processing with an
  empty URL and task over it (`video_app.go:138`).

What the runs also show about behaviours that are not promised otherwise: an
upload whose merge succeeded can read Failed, Merging or Uploading afterwards
(stale handlers, a second merge after the cleanup, a failed transcoding). The
data is then safe, under faults as well (`FailedIsSpurious`, `CompletedIsStored`);
the status is not reliable. That is why no property says that Success is final.

## Proofs

All theorems hold for every value of the constants that satisfies the named
assumptions of the module they are about:

| Module | Assumptions |
|---|---|
| `UploadPipeline` | `SizesAssumption`, `ProcessesAssumption`: sizes are naturals, there is at least one chunk and a batch of at least one, the workers are not requests |
| `VideoPublish` | `VideosAssumption`, `CallersAssumption`: a request is not a gRPC call |
| `ChunkTransfer` | `TransferAssumption`: the margin is less than the lifetime, sizes are positive |
| `RemoteClient` | `HandlersAssumption`, `KindsAssumption`, `BoundsAssumption` |
| `ServiceLifecycle` | `LifecycleAssumption`: bounds are naturals, the worlds are made of circumstances |
| `VideoCatalog` | `SizesAssumption`: page sizes and starts are ints; `VideosAssumption`: finitely many videos, no more than an int counts; `TrimAssumption`: to trim twice is to trim once; `TablesAssumption`: the first table holds what the same code stored |

Faults are a constant too, and no theorem assumes anything about it: each holds
for every set of faults. One property looks at the set: in `FailedIsSpurious` an
upload may read Failed without a merged object only where `Faults` has
`"storage"`, and then all its chunks must be there.

- `UploadPipelineTypes!TypeCorrect`: `Spec => []TypeOK`. `TypeOK` is inductive
  because `ArgsMatchPc` is part of it: a process past its lookup holds an upload.
- `UploadPipelineProofs`: `SafetyInv` is the inductive invariant. The three
  statements about rows (Success implies merged, Completed implies stored,
  Merging implies sources) are not inductive alone, because a handler acts on
  them several steps after it established what it needs. `PcSafe` says what a
  process carries from one step to the next: before `complete.mark` it has seen
  the object; from the count on the merge has its sources; after `MergeChunk` the
  merged object is there. `QueuesSafe` says the same of what waits in the
  channels. The arguments that make it work: if as many chunks are Completed as
  there are, all are (`CountIsComplete`, from the cardinality of an interval), so
  the count gives sources; the merged object is never removed; chunks are removed
  only under `CleanupIsSafe`, that is when it exists. From `SafetyInvHolds` follow
  `SuccessAlwaysMerged`, `CompletedAlwaysStored`, `MergesAlwaysHaveSources`,
  `CleanupAlwaysSafe`.
- `TenantsAreIsolated`: `TypeOK /\ TenantIsolation` is inductive. An upload
  never changes its owner (`OwnersKept`); the lookup, or the row that init
  creates, establishes it for the handler, and a handler that moves on keeps its
  user and its rows. Nothing else of the model is needed, faults included.
- `FailedAlwaysSpurious`: an upload that reads Failed is `Spared`: it has its
  merged object or, where the store can fail, all its chunks, so that it can be
  merged again. A merge fails because a call of the store failed, and then its
  chunks are there unless another merge has cleaned them up after it was done, or
  because it found a chunk gone, which only such a cleanup explains. `FailureInv`
  remembers this between the failure and the write of the status, beside a
  second merge, cleanups and errors of the database, and is inductive together
  with `SafetyInv`. That nothing an upload was spared is taken away later is
  `SparesStep`, from the step of `DurableUpload`.
- `ImplementsDurableUpload`: every step of the pipeline changes `obj`, `merged`
  and `videos` as `DurableUpload` allows, or not at all. `SafetyInv` is needed at
  the three places where the abstract action has a guard: a merge that completes
  again after its chunks were deleted, a deletion, and a publication.
- `ChunkTransferProofs!ImplementsDurableUpload`: the same promise for the calls
  of the store one by one, with contexts that expire and answers that are lost.
  `SourceInv` is what it needs: until there is a merged object, a part that was
  copied has its chunk, so a completion merges a complete set; a merger deletes
  only after it.
- `VideoPublishProofs!TypeCorrect` and `ImplementsVideoRelease`: `TypeOK` holds
  what is needed for the order (`OrderOK`, `LocalsMatchPc`): the task is sent by a
  handler that has announced the video, and only a call that found the task in
  the topic dates the row.
- `RemoteClientProofs`: `StubInv` says that no write of the stub is of an empty
  one and that a typed, empty stub has a handler about to write it; the user
  client starts with both words set, so it never panics. `ConnInv` relates `conn`, `stub`
  and what handlers hold to the open connections as long as no two connects
  overlapped. `CalmInv` follows the one undisturbed call through both attempts:
  after the second dial its connection is open, whole and its own.
- `ServiceLifecycleProofs`: `Phases` says, per phase of `Run`, what is open
  (`OpenInv`), which servers serve (`ServeInv`) and which requests can be there
  (`HandlerInv`), which gives `ResourcesOutliveRequests` and `CleanExitIsDrained`.
  `WriterInv` says that a writer with connections is the cached one (what
  `LoadOrStore` gives), `CloseInv` and `LogInv` carry the rest to the exit.
- `ChunkTransferProofs`: `LinkInv` bounds each expiry by the signature beside it,
  in rows and entities; `TurnInv` adds when a handler looked at it. `OrphanInv`
  gives every multipart upload an owner or a loss, which needs that an id is given
  up by the completion before its merger goes on to the deletion. `CheckInv` and
  `ContentInv` follow the content of a chunk nobody PUT again from the check over
  the row and the copied part to the merged object.

- `VideoCatalogTags`: `SanitizeKeepsFirstSpellings` says of every list of
  tags that `sanitizeTags` keeps the first spelling of each, in their order, up to
  `MaxTags`, and `NormalizeKeepsSanitized` that the listing gives them back
  unchanged. The loop is a function of the number of tags read; its invariant
  `LoopInv` holds for each number by `NatSetInduction`, an induction over a set,
  which the prover can use, from the well-foundedness of `<`.
- `VideoCatalogProofs`: `CatalogInv` is inductive. `RowsStored` and `FoundInv`
  give what is shown (`ListedIsVisible`, `UploaderIsOwner` with `NamesInv`,
  `TagsAsPublished`). `CountInv` counts: until the page is found, the
  rows of the list are within `drift` of the total, and then the page has the
  length that one of the totals so `Near` demands; nothing drifts unless `moved`
  takes note of it.
  `WalkInv` says that every row of the list that was not shown is `Ahead` of the
  walk: as many rows come before it as were passed; `ShownInv` that a row that
  was shown is `Behind`. The two rest on one fact about orders (`OrderingPlace`):
  where dates do not tie, every answer of the database puts a row at the place
  given by the number of rows before it, so two queries agree.

Model-checked only: the liveness properties (`QueuedMergeCompletes`,
`CleanupDrains`, `CreatedIsOrdered`, `EveryCallReturns`, `SignalEndsProcess`),
because liveness under fairness is beyond the prover; and the two findings
(`AutoMerge`, `TranscodeResultKept`), which do not hold. Every invariant and
every refinement that a run checks is proved.

## Not modelled

- Code that nothing in this version runs: `pkg/registry`, the MinIO client and
  its resource, the token middleware with `pkg/utils/jwt.go`,
  `checkUploadChunk`, `CreateWithTags`, `FindByUploadVideoUUID`. A model of it
  would have no use of it to be faithful to.
- Image endpoints, `QueryUploadStatus`, `QueryStoragePath`, `ListTags`: one
  object passed to the store or one query, with no state that a second step uses.
- The text of signatures, paths, URLs and log lines; spans and counters;
  generated code under `proto`.
- Redis, which is opened and closed (in `ServiceLifecycle`) and not used.

PROJECT.json lists each part with the reason.

## Plan

Done: the core and publishing with their abstract specifications; links and
contents (`ChunkTransfer`), the shared clients (`RemoteClient`), startup and
shutdown (`ServiceLifecycle`), the listings (`VideoCatalog`); the proofs above.

Next, in this order:

1. Action properties of `UploadPipeline` and `VideoPublish` that no refinement
   states yet, where there are any worth a run, with their proofs.
2. Lemmas shared by the two proofs of `DurableUpload`, where the steps agree.
