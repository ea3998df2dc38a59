----------------------------- MODULE ChunkTransfer -----------------------------
(***************************************************************************)
(* What moves the bytes of one upload: the presigned PUT links of its      *)
(* chunks, which expire, are kept in the chunk rows and are handed out     *)
(* again while they last; the PUTs of clients; the size check of a         *)
(* completed chunk; the S3 multipart upload that copies the chunks into    *)
(* the merged object and is aborted when a call fails.  The state of the   *)
(* upload row and the channels are in UploadPipeline; here are the clock,  *)
(* the contents and the store's multipart uploads, which that module       *)
(* abstracts from.                                                         *)
(***************************************************************************)
EXTENDS Integers, Sequences

CONSTANTS
    TotalChunks,   \* chunks of the upload
    Sizes,         \* what a client can PUT; contents are told apart by size
    Requests,      \* bound: requests in progress
    Mergers,       \* the merge worker and the publish requests that merge
    Lifetime,      \* 15 minutes: how long a signed link is accepted
    Margin,        \* 1 minute: a link that expires sooner is signed again
    Slack,         \* assumed bound on the time between signing and stamping
    MaxMerges,     \* multipart upload ids
    Workloads      \* bounds of a behaviour: handlers called, ticks, ...

ASSUME TransferAssumption ==
    /\ TotalChunks \in Nat \ {0}
    /\ Sizes \subseteq Nat \ {0}
    /\ Lifetime \in Nat /\ Margin \in Nat /\ Slack \in Nat
    /\ Margin < Lifetime
    /\ MaxMerges \in Nat
    /\ Workloads \subseteq [handlers : SUBSET {"init", "presign", "complete"}, links : BOOLEAN,
                       ticks : Nat, requests : Nat, puts : Nat, merges : Nat]

Index == 0 .. TotalChunks - 1
None  == -1                       \* NULL column, missing object, no link

VARIABLES
    load,       \* the workload of this behaviour
    now,        \* the clock
    row,        \* upload_chunk: completed, chunk_size, sign time and expiry of put_url
    object,     \* content of each chunk's object
    until,      \* when the last link that a client holds for a chunk expires
    merged,     \* content of the merged object: its parts
    multipart,  \* multipart uploads the store keeps
    pc, idx,    \* requests: control point, chunk
    ent,        \*   entities read: the rows as they were
    sig,        \*   sign time of the link just signed
    size,       \*   size the client reports
    turn,       \*   when the link of a chunk was refreshed or found valid
    mpc, mid, parts, live,  \* mergers: control point, upload id, copied parts, context
    served, puts, begun,    \* requests, PUTs and merges so far
    checked,    \* history: content of a chunk that passed the size check
    stirred,    \* history: chunks PUT again after that
    lost        \* history: upload ids whose owner died or whose abort was lost

request == <<pc, idx, ent, sig, size, turn>>
merger  == <<mpc, mid, parts, live>>
store   == <<object, merged, multipart>>
counts  == <<load, served, puts, begun>>
ghosts  == <<checked, stirred, lost>>
vars    == <<now, row, until, store, request, merger, counts, ghosts>>

\* put_url and presign_expired_at are both NULL or both set.
Row == [done : BOOLEAN, size : Sizes \cup {0}, signed : Int, expires : Int]
NewRow == [done |-> FALSE, size |-> 0, signed |-> None, expires |-> None]
LinkedRow == [done |-> FALSE, size |-> 0, signed |-> 0, expires |-> Lifetime]

RequestPC == {"idle", "refresh", "stamp", "respond", "presign", "head", "mark"}
MergePC   == {"idle", "queued", "copy", "complete", "abort", "delete"}

TypeOK ==
    /\ load \in Workloads /\ now \in 0 .. load.ticks
    /\ row \in [Index -> Row]
    /\ object \in [Index -> Sizes \cup {None}]
    /\ until \in [Index -> Int]
    /\ merged \in {<<>>} \cup [1 .. TotalChunks -> Sizes]
    /\ multipart \subseteq 1 .. MaxMerges /\ lost \subseteq 1 .. MaxMerges
    /\ pc \in [Requests -> RequestPC] /\ idx \in [Requests -> 0 .. TotalChunks]
    /\ ent \in [Requests -> [Index -> Row]]
    /\ sig \in [Requests -> Int] /\ size \in [Requests -> Sizes \cup {0}]
    /\ turn \in [Requests -> [Index -> Int]]
    /\ mpc \in [Mergers -> MergePC] /\ mid \in [Mergers -> 0 .. MaxMerges]
    /\ parts \in [Mergers -> Seq(Sizes)] /\ live \in [Mergers -> BOOLEAN]
    /\ served \in 0 .. load.requests /\ puts \in 0 .. load.puts /\ begun \in 0 .. load.merges
    /\ checked \in [Index -> Sizes \cup {None}] /\ stirred \subseteq Index

NoTurn == [i \in Index |-> None]

\* The upload has just been created; in a workload with links its client has
\* been given one for each chunk.
Init ==
    /\ load \in Workloads /\ now = 0
    /\ row = [i \in Index |-> IF load.links THEN LinkedRow ELSE NewRow]
    /\ until = [i \in Index |-> IF load.links THEN Lifetime ELSE None]
    /\ object = [i \in Index |-> None]
    /\ merged = <<>> /\ multipart = {}
    /\ pc = [h \in Requests |-> "idle"] /\ idx = [h \in Requests |-> 0]
    /\ ent = [h \in Requests |-> [i \in Index |-> NewRow]]
    /\ sig = [h \in Requests |-> None] /\ size = [h \in Requests |-> 0]
    /\ turn = [h \in Requests |-> NoTurn]
    /\ mpc = [m \in Mergers |-> "idle"] /\ mid = [m \in Mergers |-> 0]
    /\ parts = [m \in Mergers |-> <<>>] /\ live = [m \in Mergers |-> TRUE]
    /\ served = 0 /\ puts = 0 /\ begun = 0
    /\ checked = [i \in Index |-> None] /\ stirred = {} /\ lost = {}

-----------------------------------------------------------------------------
Later(s, t) == IF s >= t THEN s ELSE t

\* Time passes; a request that signed a link stamps it within Slack.
Tick ==
    /\ now < load.ticks
    /\ \A h \in Requests : pc[h] = "stamp" => now < sig[h] + Slack
    /\ now' = now + 1
    /\ UNCHANGED <<row, until, store, request, merger, counts, ghosts>>

\* A request that passed validation reads the chunk rows it is about.
Read(h, op, l, i, s) ==
    /\ op \in load.handlers
    /\ pc[h] = "idle" /\ served < load.requests
    /\ pc' = [pc EXCEPT ![h] = l]
    /\ idx' = [idx EXCEPT ![h] = i]
    /\ size' = [size EXCEPT ![h] = s]
    /\ ent' = [ent EXCEPT ![h] = row]
    /\ served' = served + 1
    /\ UNCHANGED <<now, row, until, store, sig, turn, merger, load, puts, begun, ghosts>>

\* The request has been answered.
Answered(h) ==
    /\ pc' = [pc EXCEPT ![h] = "idle"]
    /\ idx' = [idx EXCEPT ![h] = 0]
    /\ size' = [size EXCEPT ![h] = 0]
    /\ sig' = [sig EXCEPT ![h] = None]
    /\ ent' = [ent EXCEPT ![h] = [i \in Index |-> NewRow]]
    /\ turn' = [turn EXCEPT ![h] = NoTurn]

-----------------------------------------------------------------------------
(* POST init: refreshChunkPresign goes through the chunks.                 *)

UploadVideoInit(h) == Read(h, "init", "refresh", 0, 0)

\* Mutant: a link is kept until it expires.
StillValidWithoutMargin(e) == e.signed # None /\ e.expires > now

\* The link in the entity lasts longer than the margin.
StillValid(e) == e.signed # None /\ e.expires > now + Margin

\* The next chunk, or the response after the last one.
NextChunk(h) ==
    /\ idx' = [idx EXCEPT ![h] = idx[h] + 1]
    /\ pc' = [pc EXCEPT ![h] = IF idx[h] + 1 = TotalChunks THEN "respond" ELSE "refresh"]

\* A completed chunk gets no link, one with a valid link keeps it.
RefreshSkip(h) ==
    /\ pc[h] = "refresh"
    /\ \E i \in Index :
         /\ i = idx[h]
         /\ \/ ent[h][i].done /\ UNCHANGED turn
            \/ /\ ~ent[h][i].done /\ StillValid(ent[h][i])
               /\ turn' = [turn EXCEPT ![h] = [turn[h] EXCEPT ![i] = now]]
    /\ NextChunk(h)
    /\ UNCHANGED <<now, row, until, store, ent, sig, size, merger, counts, ghosts>>

\* PresignPutURL: the store counts the lifetime from X-Amz-Date, the time of
\* signing.
PresignPutURL(h) ==
    /\ pc[h] = "refresh"
    /\ ~ent[h][idx[h]].done /\ ~StillValid(ent[h][idx[h]])
    /\ sig' = [sig EXCEPT ![h] = now]
    /\ pc' = [pc EXCEPT ![h] = "stamp"]
    /\ UNCHANGED <<now, row, until, store, idx, ent, size, turn, merger, counts, ghosts>>

Stamped(e, s) == [e EXCEPT !.signed = s, !.expires = now + Lifetime]

\* Mutant: when the update fails the entity gets the new expiry all the same.
UpdateUploadChunkPresignEarly(h) ==
    /\ pc[h] = "stamp"
    /\ \E i \in Index :
         /\ i = idx[h]
         /\ \/ /\ row' = [row EXCEPT ![i] = Stamped(row[i], sig[h])]
               /\ ent' = [ent EXCEPT ![h] = [ent[h] EXCEPT ![i] = Stamped(ent[h][i], sig[h])]]
               /\ turn' = [turn EXCEPT ![h] = [turn[h] EXCEPT ![i] = now]]
            \/ /\ ent' = [ent EXCEPT ![h] =
                            [ent[h] EXCEPT ![i] = Stamped(ent[h][i], ent[h][i].signed)]]
               /\ UNCHANGED <<row, turn>>
    /\ NextChunk(h)
    /\ UNCHANGED <<now, until, store, sig, size, merger, counts, ghosts>>

\* The expiry is stamped after the link was signed; both columns are written
\* in one update, whose failure leaves row and entity as they were.
UpdateUploadChunkPresign(h) ==
    /\ pc[h] = "stamp"
    /\ \E i \in Index :
         /\ i = idx[h]
         /\ \/ /\ row' = [row EXCEPT ![i] = Stamped(row[i], sig[h])]
               /\ ent' = [ent EXCEPT ![h] = [ent[h] EXCEPT ![i] = Stamped(ent[h][i], sig[h])]]
               /\ turn' = [turn EXCEPT ![h] = [turn[h] EXCEPT ![i] = now]]
            \/ UNCHANGED <<row, ent, turn>>
    /\ NextChunk(h)
    /\ UNCHANGED <<now, until, store, sig, size, merger, counts, ghosts>>

\* attachPresignForChunks: the response holds the link of every chunk that was
\* read as not completed, even one that has expired since.
AttachPresign(h) ==
    /\ pc[h] = "respond"
    /\ until' = [i \in Index |->
         IF ~ent[h][i].done /\ ent[h][i].signed # None
           THEN Later(until[i], ent[h][i].signed + Lifetime) ELSE until[i]]
    /\ Answered(h)
    /\ UNCHANGED <<now, row, store, merger, counts, ghosts>>

-----------------------------------------------------------------------------
(* POST presign and POST complete.                                         *)

PresignChunk(h) == \E i \in Index : Read(h, "presign", "presign", i, 0)

\* The chunk becomes Uploading whatever it was; the link, which is not kept in
\* the row, is signed when the chunk was read as not completed.
PresignChunkMark(h) ==
    /\ pc[h] = "presign"
    /\ \E i \in Index :
         /\ i = idx[h]
         /\ row' = [row EXCEPT ![i] = [row[i] EXCEPT !.done = FALSE]]
         /\ until' = IF ent[h][i].done THEN until
                     ELSE [until EXCEPT ![i] = Later(until[i], now + Lifetime)]
    /\ Answered(h)
    /\ UNCHANGED <<now, store, merger, counts, ghosts>>

CompleteChunk(h) == \E i \in Index, s \in Sizes : Read(h, "complete", "head", i, s)

\* Mutant: any object will do.
HeadObjectAnySize(h) ==
    /\ pc[h] = "head"
    /\ \/ /\ object[idx[h]] # None
          /\ pc' = [pc EXCEPT ![h] = "mark"]
          /\ checked' = [checked EXCEPT ![idx[h]] = object[idx[h]]]
          /\ UNCHANGED <<idx, ent, sig, size, turn>>
       \/ Answered(h) /\ UNCHANGED checked
    /\ UNCHANGED <<now, row, until, store, merger, counts, stirred, lost>>

\* Refused: a store error, no object, or another size than the client reports.
HeadObject(h) ==
    /\ pc[h] = "head"
    /\ \/ /\ object[idx[h]] = size[h] /\ ~ent[h][idx[h]].done
          /\ pc' = [pc EXCEPT ![h] = "mark"]
          /\ checked' = [checked EXCEPT ![idx[h]] = object[idx[h]]]
          /\ UNCHANGED <<idx, ent, sig, size, turn>>
       \/ Answered(h) /\ UNCHANGED checked
    /\ UNCHANGED <<now, row, until, store, merger, counts, stirred, lost>>

\* A database error leaves the row as it was.
MarkChunkCompleted(h) ==
    /\ pc[h] = "mark"
    /\ \E i \in Index :
         /\ i = idx[h]
         /\ \/ row' = [row EXCEPT ![i] = [row[i] EXCEPT !.done = TRUE, !.size = size[h]]]
            \/ UNCHANGED row
    /\ Answered(h)
    /\ UNCHANGED <<now, until, store, merger, counts, ghosts>>

\* A client PUTs a chunk with a link it holds; the store looks at the link only.
Put(i, s) ==
    /\ now <= until[i] /\ puts < load.puts
    /\ object' = [object EXCEPT ![i] = s]
    /\ puts' = puts + 1
    /\ stirred' = IF checked[i] # None THEN stirred \cup {i} ELSE stirred
    /\ UNCHANGED <<now, row, until, merged, multipart, request, merger, load, served, begun, checked, lost>>

-----------------------------------------------------------------------------
(* MergeChunk: a multipart upload whose parts are copies of the chunks.    *)

MergeGoto(m, l) == mpc' = [mpc EXCEPT ![m] = l]

MergeReturns(m) ==
    /\ MergeGoto(m, "idle")
    /\ mid' = [mid EXCEPT ![m] = 0]
    /\ parts' = [parts EXCEPT ![m] = <<>>]
    /\ live' = [live EXCEPT ![m] = TRUE]

\* The chunks were counted as completed and the merge was asked for.
MergeRequested(m) ==
    /\ mpc[m] = "idle"
    /\ \A i \in Index : row[i].done
    /\ begun < load.merges
    /\ begun' = begun + 1
    /\ MergeGoto(m, "queued")
    /\ UNCHANGED <<now, row, until, store, request, mid, parts, live, load, served, puts, ghosts>>

\* The upload id is not known to the merger when the answer is lost.
InitiateMultipartUpload(m) ==
    /\ mpc[m] = "queued"
    /\ \/ \E u \in 1 .. MaxMerges :
            /\ live[m]
            /\ u \notin multipart \cup lost \cup {mid[n] : n \in Mergers}
            /\ multipart' = multipart \cup {u}
            /\ \/ /\ MergeGoto(m, "copy")
                  /\ mid' = [mid EXCEPT ![m] = u]
                  /\ UNCHANGED <<parts, live, lost>>
               \/ MergeReturns(m) /\ lost' = lost \cup {u}
       \/ MergeReturns(m) /\ UNCHANGED <<multipart, lost>>
    /\ UNCHANGED <<now, row, until, object, merged, request, counts, checked, stirred>>

\* Mutant: a chunk that cannot be copied ends the merge without an abort.
UploadPartCopyNoAbort(m) ==
    /\ mpc[m] = "copy"
    /\ \/ \E i \in Index :
            /\ i = Len(parts[m]) /\ live[m] /\ object[i] # None
            /\ parts' = [parts EXCEPT ![m] = Append(parts[m], object[i])]
            /\ MergeGoto(m, IF i + 1 = TotalChunks THEN "complete" ELSE "copy")
            /\ UNCHANGED <<mid, live>>
       \/ MergeReturns(m)
    /\ UNCHANGED <<now, row, until, store, request, counts, ghosts>>

\* Mutant: the last chunk is left out.
UploadPartCopyShort(m) ==
    /\ mpc[m] = "copy"
    /\ \/ \E i \in Index :
            /\ i = Len(parts[m]) /\ live[m] /\ object[i] # None
            /\ parts' = [parts EXCEPT ![m] = Append(parts[m], object[i])]
            /\ MergeGoto(m, IF i + 2 >= TotalChunks THEN "complete" ELSE "copy")
       \/ MergeGoto(m, "abort") /\ UNCHANGED parts
    /\ UNCHANGED <<now, row, until, store, request, mid, live, counts, ghosts>>

\* Part i + 1 is a copy of chunk i as it is now; any error leads to the abort.
UploadPartCopy(m) ==
    /\ mpc[m] = "copy"
    /\ \/ \E i \in Index :
            /\ i = Len(parts[m]) /\ live[m] /\ object[i] # None
            /\ parts' = [parts EXCEPT ![m] = Append(parts[m], object[i])]
            /\ MergeGoto(m, IF i + 1 = TotalChunks THEN "complete" ELSE "copy")
       \/ MergeGoto(m, "abort") /\ UNCHANGED parts
    /\ UNCHANGED <<now, row, until, store, request, mid, live, counts, ghosts>>

\* Mutant: the error of the completion is not looked at.
CompleteMultipartUploadUnchecked(m) ==
    /\ mpc[m] = "complete"
    /\ \/ /\ live[m]
          /\ merged' = parts[m]
          /\ multipart' = multipart \ {mid[m]}
       \/ UNCHANGED <<merged, multipart>>
    /\ MergeGoto(m, "delete")
    /\ UNCHANGED <<now, row, until, object, request, mid, parts, live, counts, ghosts>>

\* The store may have assembled the object although the merger sees an error.
CompleteMultipartUpload(m) ==
    /\ mpc[m] = "complete"
    /\ \/ /\ live[m]
          /\ merged' = parts[m]
          /\ multipart' = multipart \ {mid[m]}
          /\ MergeGoto(m, "delete") \/ MergeGoto(m, "abort")
       \/ MergeGoto(m, "abort") /\ UNCHANGED <<merged, multipart>>
    /\ UNCHANGED <<now, row, until, object, request, mid, parts, live, counts, ghosts>>

\* The abort is sent with the context of the merge, and neither its error nor
\* its status is looked at: it does nothing once the context has expired.
AbortMultipartUpload(m) ==
    /\ mpc[m] = "abort"
    /\ \/ live[m] /\ multipart' = multipart \ {mid[m]} /\ UNCHANGED lost
       \/ lost' = lost \cup {mid[m]} /\ UNCHANGED multipart
    /\ MergeReturns(m)
    /\ UNCHANGED <<now, row, until, object, merged, request, counts, checked, stirred>>

\* After a merge the chunks are deleted, those that can be.
DeleteChunks(m) ==
    /\ mpc[m] = "delete"
    /\ \E D \in SUBSET Index : object' = [i \in Index |-> IF i \in D THEN None ELSE object[i]]
    /\ MergeReturns(m)
    /\ UNCHANGED <<now, row, until, merged, multipart, request, counts, ghosts>>

\* The hour of the job, or the request's context, is over.
ContextExpires(m) ==
    /\ mpc[m] \in {"queued", "copy", "complete", "abort"} /\ live[m]
    /\ live' = [live EXCEPT ![m] = FALSE]
    /\ UNCHANGED <<now, row, until, store, request, mpc, mid, parts, counts, ghosts>>

\* The process dies: requests and mergers with it, rows and objects stay.
Crash ==
    /\ \E m \in Mergers : mpc[m] # "idle"
    /\ lost' = lost \cup ({mid[m] : m \in Mergers} \ {0})
    /\ pc' = [h \in Requests |-> "idle"] /\ idx' = [h \in Requests |-> 0]
    /\ ent' = [h \in Requests |-> [i \in Index |-> NewRow]]
    /\ sig' = [h \in Requests |-> None] /\ size' = [h \in Requests |-> 0]
    /\ turn' = [h \in Requests |-> NoTurn]
    /\ mpc' = [m \in Mergers |-> "idle"] /\ mid' = [m \in Mergers |-> 0]
    /\ parts' = [m \in Mergers |-> <<>>] /\ live' = [m \in Mergers |-> TRUE]
    /\ UNCHANGED <<now, row, until, store, counts, checked, stirred>>

-----------------------------------------------------------------------------
RequestStep(h) ==
    \/ UploadVideoInit(h) \/ RefreshSkip(h) \/ PresignPutURL(h)
    \/ UpdateUploadChunkPresign(h) \/ AttachPresign(h)
    \/ PresignChunk(h) \/ PresignChunkMark(h)
    \/ CompleteChunk(h) \/ HeadObject(h) \/ MarkChunkCompleted(h)

MergeStep(m) ==
    \/ MergeRequested(m) \/ InitiateMultipartUpload(m) \/ UploadPartCopy(m)
    \/ CompleteMultipartUpload(m) \/ AbortMultipartUpload(m) \/ DeleteChunks(m)
    \/ ContextExpires(m)

Next ==
    \/ \E h \in Requests : RequestStep(h)
    \/ \E m \in Mergers : MergeStep(m)
    \/ \E i \in Index, s \in Sizes : Put(i, s)
    \/ Tick \/ Crash

Spec == Init /\ [][Next]_vars

-----------------------------------------------------------------------------
\* The expiry that a client is told with a link, and the one kept in the row,
\* is the expiry of that very link, up to the time between signing and
\* stamping, whichever requests refreshed the link at the same time and
\* whichever of their updates failed (upload_service.go:119-131,
\* upload_helpers.go:37-45).
PromiseKept ==
    /\ \A h \in Requests, i \in Index :
         ent[h][i].expires <= ent[h][i].signed + Lifetime + Slack
    /\ \A i \in Index : row[i].expires <= row[i].signed + Lifetime + Slack

\* A link that init found good enough or signed is accepted by the store for
\* more than the margin after that, up to the same time
\* (upload_service.go:114-118).
LinkLastsMargin ==
    \A h \in Requests, i \in Index :
        turn[h][i] # None => ent[h][i].signed + Lifetime + Slack > turn[h][i] + Margin

\* A chunk that no client PUT again after its size was checked has in its row
\* the size of its content, and that content is its part of the merged object,
\* whoever merged, however often, with whatever failures
\* (upload_service.go:290-301, rustfs_service_impl.go:112-135).
MergedIsWhatWasChecked ==
    \A i \in Index \ stirred :
        /\ row[i].done => row[i].size = checked[i]
        /\ merged # <<>> => merged[i + 1] = checked[i]

\* A multipart upload stays behind in the store only when its merger died, its
\* id never arrived, or its abort was lost, which an expired context makes
\* certain; an error of a copy or of the completion alone leaves nothing
\* (rustfs_service_impl.go:117-133).
OrphanNeedsLostAbort == multipart \subseteq lost \cup {mid[m] : m \in Mergers}

\* With links, contents, multipart uploads and their expiring contexts in view, the
\* bytes of the upload are handled as DurableUpload promises and UploadPipeline
\* keeps: merged from a complete set, and deleted only once they are merged, by
\* mergers that copy while others delete (rustfs_service_impl.go:112-135,
\* merge_task.go:59-70).
Durable == INSTANCE DurableUpload WITH
    Uploads   <- {"upload"},
    stored    <- [u \in {"upload"} |-> {i \in Index : object[i] # None}],
    merged    <- IF merged = <<>> THEN {} ELSE {"upload"},
    published <- {}

DurableSpec == Durable!Spec
=============================================================================
