------------------------ MODULE UploadPipelineProofs ------------------------
(***************************************************************************)
(* Proofs of the safety of UploadPipeline, for every value of its          *)
(* constants, and that it implements DurableUpload.  The inductive         *)
(* invariant of what is stored and merged is SafetyInv; each action has    *)
(* one lemma that says why it keeps it.  TenantIsolation is inductive with *)
(* the types alone, and FailureInv is with SafetyInv.                      *)
(***************************************************************************)
EXTENDS UploadPipelineTypes

-----------------------------------------------------------------------------
(* Safety: what is counted is complete, what is deleted has been merged.   *)

\* If as many chunks are Completed as the upload has, all of them are: the test
\* that MergeChunk, CompleteChunk and mergeUploadVideo make on CountChunk.
LEMMA CountIsComplete ==
    ASSUME NEW u \in Uploads, CountChunk(u) = TotalChunks
    PROVE  CompletedChunks(u) = Index
<1>1. IsFiniteSet(Index) /\ Cardinality(Index) = TotalChunks
  BY FS_Interval, SizesAssumption DEF Index
<1>2. CompletedChunks(u) \in SUBSET Index
  BY DEF CompletedChunks
<1> QED
  BY <1>1, <1>2, FS_Subset DEF CountChunk

\* So the merge has its sources, as long as Completed chunks are stored.
LEMMA CountGivesSources ==
    ASSUME TypeOK, CompletedIsStored, NEW u \in Uploads, CountChunk(u) = TotalChunks
    PROVE  HasSources(u)
<1>1. \A i \in Index : i \in obj[u] \/ u \in merged
  BY CountIsComplete DEF CompletedIsStored
<1>2. obj[u] \subseteq Index
  BY DEF TypeOK, StoreTypeOK
<1> QED
  BY <1>1, <1>2 DEF HasSources

\* No step takes a merged object away, or a chunk whose upload is not merged.
StoreKept ==
    \A u \in Uploads :
        /\ u \in merged => u \in merged'
        /\ \A i \in Index : i \in obj[u] => i \in obj'[u] \/ u \in merged'

\* A step that leaves the store alone takes nothing from it.
LEMMA StoreFrame == ASSUME UNCHANGED <<obj, merged>> PROVE StoreKept
BY DEF StoreKept

\* An upload that can be merged can still be merged: a deletion of its chunks only
\* follows its merge.
LEMMA SourcesKept ==
    ASSUME TypeOK, TypeOK', StoreKept, NEW u \in Uploads, HasSources(u)
    PROVE  HasSources(u)'
BY DEF HasSources, StoreKept, TypeOK, StoreTypeOK

\* A step that writes no row cannot break what the rows say of the store.
LEMMA RowsFrame ==
    ASSUME SafetyInv, TypeOK', StoreKept, UNCHANGED <<status, chunk, videos>>
    PROVE  RowsSafe'
<1>1. \A u \in Uploads : HasSources(u) => HasSources(u)'
  BY SourcesKept DEF SafetyInv
<1> QED
  BY <1>1 DEF SafetyInv, RowsSafe, SuccessIsMerged, CompletedIsStored, CompletedChunks,
              StoreKept, TypeOK, RowsTypeOK

\* A status that is written where it is true leaves the rows safe.
LEMMA StatusSafe ==
    ASSUME SafetyInv, TypeOK', StoreKept, NEW u \in Uploads, NEW s \in UploadStatus,
           UpdateStatusByUUID(u, s), UNCHANGED <<chunk, videos>>,
           s = "Success" => u \in merged, s = "Merging" => HasSources(u)
    PROVE  RowsSafe'
<1>1. \A v \in Uploads : HasSources(v) => HasSources(v)'
  BY SourcesKept DEF SafetyInv
<1>2. \A v \in Uploads : status'[v] = IF v = u THEN s ELSE status[v]
  BY DEF UpdateStatusByUUID, SafetyInv, TypeOK, RowsTypeOK
<1>3. SuccessIsMerged'
  BY <1>2 DEF SafetyInv, RowsSafe, SuccessIsMerged, StoreKept, TypeOK, RowsTypeOK
<1>4. CompletedIsStored'
  BY DEF SafetyInv, RowsSafe, CompletedIsStored, CompletedChunks, StoreKept
<1>5. \A v \in Uploads : status'[v] = "Merging" => HasSources(v)'
  BY <1>1, <1>2 DEF SafetyInv, RowsSafe
<1> QED
  BY <1>3, <1>4, <1>5 DEF RowsSafe

\* A step that moves no process cannot break what the control points say of it.
LEMMA PcFrame ==
    ASSUME SafetyInv, TypeOK', StoreKept, UNCHANGED <<pc, args>>
    PROVE  PcSafe'
<1>1. ASSUME NEW p \in Procs, pc[p] \in CopyPC \cup MergingPC PROVE HasSources(at[p])'
  <2>1. at[p] \in Uploads
    BY <1>1 DEF SafetyInv, TypeOK, ArgsMatchPc, CopyPC, MergingPC
  <2> QED
    BY <1>1, <2>1, SourcesKept DEF SafetyInv, PcSafe, args, HasSources
<1>2. ASSUME NEW p \in Procs, pc[p] = "complete.mark"
      PROVE  idx[p] \in obj'[of[p]] \/ of[p] \in merged'
  <2>1. of[p] \in Uploads /\ idx[p] \in Index
    BY <1>2 DEF SafetyInv, TypeOK, ArgsMatchPc, ArgsTypeOK, CompletePC
  <2> QED
    BY <1>2, <2>1 DEF SafetyInv, PcSafe, StoreKept
<1>3. ASSUME NEW p \in Procs, pc[p] \in MergedPC PROVE at[p] \in merged'
  BY <1>3 DEF SafetyInv, TypeOK, StoreTypeOK, PcSafe, StoreKept
<1> QED
  BY <1>1, <1>2, <1>3 DEF PcSafe, args

\* Only process p moves, to a control point it has a right to be at.
LEMMA MoveSafe ==
    ASSUME SafetyInv, TypeOK', StoreKept, NEW p \in Procs,
           \A q \in Procs \ {p} : /\ pc'[q] = pc[q] /\ at'[q] = at[q]
                                  /\ of'[q] = of[q] /\ idx'[q] = idx[q],
           pc'[p] = "complete.mark" => idx'[p] \in obj'[of'[p]] \/ of'[p] \in merged',
           pc'[p] \in CopyPC \cup MergingPC => HasSources(at[p])' ,
           pc'[p] \in MergedPC => at'[p] \in merged'
    PROVE  PcSafe'
<1>1. ASSUME NEW q \in Procs \ {p}, pc[q] \in CopyPC \cup MergingPC
      PROVE  HasSources(at[q])'
  <2>1. at[q] \in Uploads
    BY <1>1 DEF SafetyInv, TypeOK, ArgsMatchPc, CopyPC, MergingPC
  <2> QED
    BY <1>1, <2>1, SourcesKept DEF SafetyInv, PcSafe, HasSources
<1>2. ASSUME NEW q \in Procs \ {p}, pc[q] = "complete.mark"
      PROVE  idx[q] \in obj'[of[q]] \/ of[q] \in merged'
  <2>1. of[q] \in Uploads /\ idx[q] \in Index
    BY <1>2 DEF SafetyInv, TypeOK, ArgsMatchPc, ArgsTypeOK, CompletePC
  <2> QED
    BY <1>2, <2>1 DEF SafetyInv, PcSafe, StoreKept
<1>3. ASSUME NEW q \in Procs \ {p}, pc[q] \in MergedPC PROVE at[q] \in merged'
  BY <1>3 DEF SafetyInv, TypeOK, StoreTypeOK, PcSafe, StoreKept
<1> QED
  BY <1>1, <1>2, <1>3 DEF PcSafe, HasSources

\* A process that returns has no obligations.
LEMMA DoneSafe ==
    ASSUME SafetyInv, TypeOK', StoreKept, NEW p \in Procs, Done(p)
    PROVE  PcSafe'
<1>1. pc'[p] = "idle"
  BY DEF Done, Goto, SafetyInv, TypeOK, PcTypeOK
<1>2. \A q \in Procs \ {p} : /\ pc'[q] = pc[q] /\ at'[q] = at[q]
                             /\ of'[q] = of[q] /\ idx'[q] = idx[q]
  BY DEF Done, Goto, SafetyInv, TypeOK, PcTypeOK, ArgsTypeOK
<1> QED
  BY <1>1, <1>2, MoveSafe DEF CopyPC, MergingPC, MergedPC

\* A process that moves on must have what its new control point claims.
LEMMA GotoSafe ==
    ASSUME SafetyInv, TypeOK', StoreKept, NEW p \in Procs, NEW l, Goto(p, l),
           UNCHANGED <<at, of, idx>>,
           l = "complete.mark" => idx[p] \in obj'[of[p]] \/ of[p] \in merged',
           l \in CopyPC \cup MergingPC => at[p] \in Uploads /\ HasSources(at[p]),
           l \in MergedPC => at[p] \in merged'
    PROVE  PcSafe'
<1>1. pc'[p] = l
  BY DEF Goto, SafetyInv, TypeOK, PcTypeOK
<1>2. \A q \in Procs \ {p} : /\ pc'[q] = pc[q] /\ at'[q] = at[q]
                             /\ of'[q] = of[q] /\ idx'[q] = idx[q]
  BY DEF Goto, SafetyInv, TypeOK, PcTypeOK
<1>3. l \in CopyPC \cup MergingPC => HasSources(at[p])'
  BY SourcesKept DEF SafetyInv, HasSources
<1> QED
  BY <1>1, <1>2, <1>3, MoveSafe

\* A step that queues nothing cannot break what the queues claim.
LEMMA QueuesFrame ==
    ASSUME SafetyInv, TypeOK', StoreKept, UNCHANGED <<mergeChan, cleanup>>
    PROVE  QueuesSafe'
<1>1. Range(mergeChan) \subseteq Uploads
  BY SeqRange DEF SafetyInv, TypeOK, QueuesTypeOK
<1>2. \A u \in Range(mergeChan) : HasSources(u)'
  BY <1>1, SourcesKept DEF SafetyInv, QueuesSafe
<1>3. CleanupIsSafe'
  BY DEF SafetyInv, TypeOK, StoreTypeOK, QueuesSafe, CleanupIsSafe, StoreKept, cleanup
<1> QED
  BY <1>2, <1>3 DEF QueuesSafe

\* A cleanup request is safe when the upload is merged.
LEMMA EnqueueCleanupSafe ==
    ASSUME SafetyInv, TypeOK', StoreKept, NEW u \in merged, EnqueueChunkCleanup(u),
           UNCHANGED <<mergeChan, batch, todo, delIdx>>
    PROVE  QueuesSafe'
<1>1. Range(mergeChan) \subseteq Uploads /\ u \in Uploads
  BY SeqRange DEF SafetyInv, TypeOK, QueuesTypeOK, StoreTypeOK
<1>2. \A v \in Range(mergeChan) : HasSources(v)'
  BY <1>1, SourcesKept DEF SafetyInv, QueuesSafe
<1>3. /\ Range(cleanupChan') \subseteq Range(cleanupChan) \cup {u}
      /\ \A d \in Deleters : delAt'[d] \in {delAt[d], u}
  BY <1>1, EnqueueCleanup DEF SafetyInv
<1>4. \A v \in merged : v \in merged'
  BY DEF StoreKept, SafetyInv, TypeOK, StoreTypeOK
<1>5. CleanupIsSafe'
  BY <1>3, <1>4 DEF SafetyInv, QueuesSafe, CleanupIsSafe
<1> QED
  BY <1>2, <1>5 DEF QueuesSafe

-----------------------------------------------------------------------------
(* SafetyInv is kept by every action.                                      *)

\* InitFind reads rows and claims nothing of the store.
LEMMA InitFindSafe == ASSUME SafetyInv, NEW p \in Requests, InitFind(p) PROVE SafetyInv'
<1>1. TypeOK'
  BY InitFindType DEF SafetyInv
<1>2. StoreKept
  BY StoreFrame DEF InitFind, Accept, rows, store
<1>3. RowsSafe'
  BY <1>1, <1>2, RowsFrame DEF InitFind, Accept, rows
<1>4. PcSafe'
  <2>1. p \in Procs
    BY DEF Procs
  <2>2. ASSUME NEW q \in Procs \ {p}
        PROVE  pc'[q] = pc[q] /\ at'[q] = at[q] /\ of'[q] = of[q] /\ idx'[q] = idx[q]
    BY <2>2 DEF InitFind, Accept, Goto, SafetyInv, TypeOK, PcTypeOK, ArgsTypeOK
  <2>3. pc'[p] \in {"init.chunks", "init.create"}
    BY <2>1 DEF InitFind, Goto, SafetyInv, TypeOK, PcTypeOK
  <2> QED
    BY <1>1, <1>2, <2>1, <2>2, <2>3, MoveSafe DEF CopyPC, MergingPC, MergedPC
<1>5. QueuesSafe'
  BY <1>1, <1>2, QueuesFrame DEF InitFind, Accept
<1> QED
  BY <1>1, <1>3, <1>4, <1>5 DEF SafetyInv

\* PresignFind reads rows and claims nothing of the store.
LEMMA PresignFindSafe == ASSUME SafetyInv, NEW p \in Requests, PresignFind(p) PROVE SafetyInv'
<1>1. TypeOK'
  BY PresignFindType DEF SafetyInv
<1>2. StoreKept
  BY StoreFrame DEF PresignFind, Accept, rows, store
<1>3. RowsSafe'
  BY <1>1, <1>2, RowsFrame DEF PresignFind, Accept, rows
<1>4. PcSafe'
  <2>1. p \in Procs
    BY DEF Procs
  <2>2. ASSUME NEW q \in Procs \ {p}
        PROVE  pc'[q] = pc[q] /\ at'[q] = at[q] /\ of'[q] = of[q] /\ idx'[q] = idx[q]
    BY <2>2 DEF PresignFind, Accept, Goto, SafetyInv, TypeOK, PcTypeOK, ArgsTypeOK
  <2>3. pc'[p] \in {"presign.chunk"}
    BY <2>1 DEF PresignFind, Accept, Goto, SafetyInv, TypeOK, PcTypeOK
  <2> QED
    BY <1>1, <1>2, <2>1, <2>2, <2>3, MoveSafe DEF CopyPC, MergingPC, MergedPC
<1>5. QueuesSafe'
  BY <1>1, <1>2, QueuesFrame DEF PresignFind, Accept
<1> QED
  BY <1>1, <1>3, <1>4, <1>5 DEF SafetyInv

\* CompleteFind reads rows and claims nothing of the store.
LEMMA CompleteFindSafe == ASSUME SafetyInv, NEW p \in Requests, CompleteFind(p) PROVE SafetyInv'
<1>1. TypeOK'
  BY CompleteFindType DEF SafetyInv
<1>2. StoreKept
  BY StoreFrame DEF CompleteFind, Accept, rows, store
<1>3. RowsSafe'
  BY <1>1, <1>2, RowsFrame DEF CompleteFind, Accept, rows
<1>4. PcSafe'
  <2>1. p \in Procs
    BY DEF Procs
  <2>2. ASSUME NEW q \in Procs \ {p}
        PROVE  pc'[q] = pc[q] /\ at'[q] = at[q] /\ of'[q] = of[q] /\ idx'[q] = idx[q]
    BY <2>2 DEF CompleteFind, Accept, Goto, SafetyInv, TypeOK, PcTypeOK, ArgsTypeOK
  <2>3. pc'[p] \in {"complete.chunk"}
    BY <2>1 DEF CompleteFind, Accept, Goto, SafetyInv, TypeOK, PcTypeOK
  <2> QED
    BY <1>1, <1>2, <2>1, <2>2, <2>3, MoveSafe DEF CopyPC, MergingPC, MergedPC
<1>5. QueuesSafe'
  BY <1>1, <1>2, QueuesFrame DEF CompleteFind, Accept
<1> QED
  BY <1>1, <1>3, <1>4, <1>5 DEF SafetyInv

\* MergeFind reads rows and claims nothing of the store.
LEMMA MergeFindSafe == ASSUME SafetyInv, NEW p \in Requests, MergeFind(p) PROVE SafetyInv'
<1>1. TypeOK'
  BY MergeFindType DEF SafetyInv
<1>2. StoreKept
  BY StoreFrame DEF MergeFind, Accept, rows, store
<1>3. RowsSafe'
  BY <1>1, <1>2, RowsFrame DEF MergeFind, Accept, rows
<1>4. PcSafe'
  <2>1. p \in Procs
    BY DEF Procs
  <2>2. ASSUME NEW q \in Procs \ {p}
        PROVE  pc'[q] = pc[q] /\ at'[q] = at[q] /\ of'[q] = of[q] /\ idx'[q] = idx[q]
    BY <2>2 DEF MergeFind, Accept, Goto, SafetyInv, TypeOK, PcTypeOK, ArgsTypeOK
  <2>3. pc'[p] \in {"merge.count"}
    BY <2>1 DEF MergeFind, Accept, Goto, SafetyInv, TypeOK, PcTypeOK
  <2> QED
    BY <1>1, <1>2, <2>1, <2>2, <2>3, MoveSafe DEF CopyPC, MergingPC, MergedPC
<1>5. QueuesSafe'
  BY <1>1, <1>2, QueuesFrame DEF MergeFind, Accept
<1> QED
  BY <1>1, <1>3, <1>4, <1>5 DEF SafetyInv

\* An upload read as Success is merged, so publish may skip the merge.
LEMMA PublishFindSafe == ASSUME SafetyInv, NEW p \in Requests, PublishFind(p) PROVE SafetyInv'
<1>1. TypeOK'
  BY PublishFindType DEF SafetyInv
<1>2. StoreKept
  BY StoreFrame DEF PublishFind, Accept, rows, store
<1>3. RowsSafe'
  BY <1>1, <1>2, RowsFrame DEF PublishFind, Accept, rows
<1>4. PcSafe'
  <2>1. PICK u \in Uploads, l \in {"publish.create", "publish.count"} :
           /\ pc' = [pc EXCEPT ![p] = l]
           /\ at' = [at EXCEPT ![p] = u]
           /\ l = "publish.create" => status[u] = "Success"
    BY DEF PublishFind, Accept, Goto
  <2>2. p \in Procs /\ pc'[p] = l /\ at'[p] = u
    BY <2>1 DEF Procs, SafetyInv, TypeOK, PcTypeOK, ArgsTypeOK
  <2>3. ASSUME NEW q \in Procs \ {p}
        PROVE  pc'[q] = pc[q] /\ at'[q] = at[q] /\ of'[q] = of[q] /\ idx'[q] = idx[q]
    BY <2>3 DEF PublishFind, Accept, Goto, SafetyInv, TypeOK, PcTypeOK, ArgsTypeOK
  <2>4. l = "publish.create" => u \in merged'
    BY <1>2, <2>1 DEF SafetyInv, RowsSafe, SuccessIsMerged, StoreKept
  <2> QED
    BY <1>1, <1>2, <2>2, <2>3, <2>4, MoveSafe DEF CopyPC, MergingPC, MergedPC
<1>5. QueuesSafe'
  BY <1>1, <1>2, QueuesFrame DEF PublishFind, Accept
<1> QED
  BY <1>1, <1>3, <1>4, <1>5 DEF SafetyInv

\* InitChunks reads rows and claims nothing of the store.
LEMMA InitChunksSafe == ASSUME SafetyInv, NEW p \in Requests, InitChunks(p) PROVE SafetyInv'
<1>1. TypeOK'
  BY InitChunksType DEF SafetyInv
<1>2. StoreKept
  BY StoreFrame DEF InitChunks, rows, store
<1>3. RowsSafe'
  BY <1>1, <1>2, RowsFrame DEF InitChunks, rows
<1>4. PcSafe'
  <2>1. "init.refresh" \notin CopyPC \cup MergingPC \cup MergedPC
    BY DEF CopyPC, MergingPC, MergedPC
  <2> QED
    BY <1>1, <1>2, <2>1, GotoSafe DEF InitChunks, Procs, args
<1>5. QueuesSafe'
  BY <1>1, <1>2, QueuesFrame DEF InitChunks
<1> QED
  BY <1>1, <1>3, <1>4, <1>5 DEF SafetyInv

\* A new upload has no Completed chunk.
LEMMA InitCreateSafe == ASSUME SafetyInv, NEW p \in Requests, InitCreate(p) PROVE SafetyInv'
<1>1. TypeOK'
  BY InitCreateType DEF SafetyInv
<1>2. StoreKept
  BY StoreFrame DEF InitCreate, store
<1>3. RowsSafe'
  <2>1. CASE UNCHANGED rows
    BY <1>1, <1>2, <2>1, RowsFrame DEF rows
  <2>2. ASSUME NEW u \in Uploads, BatchCreate(u, user[p], want[p]) PROVE RowsSafe'
    <3>1. /\ \A v \in Uploads : status'[v] = IF v = u THEN "Init" ELSE status[v]
          /\ \A v \in Uploads : chunk'[v] =
               IF v = u THEN [i \in Index |-> "Initialized"] ELSE chunk[v]
      BY <2>2 DEF BatchCreate, SafetyInv, TypeOK, RowsTypeOK
    <3>2. SuccessIsMerged'
      BY <3>1 DEF InitCreate, store, SafetyInv, RowsSafe, SuccessIsMerged, TypeOK, RowsTypeOK
    <3>3. CompletedIsStored'
      BY <3>1 DEF InitCreate, store, SafetyInv, RowsSafe, CompletedIsStored, CompletedChunks
    <3>4. \A v \in Uploads : status'[v] = "Merging" => HasSources(v)'
      BY <3>1 DEF InitCreate, store, SafetyInv, RowsSafe, HasSources
    <3> QED
      BY <3>2, <3>3, <3>4 DEF RowsSafe
  <2> QED
    BY <2>1, <2>2 DEF InitCreate, rows
<1>4. PcSafe'
  <2>1. p \in Procs
    BY DEF Procs
  <2>2. ASSUME NEW q \in Procs \ {p}
        PROVE  pc'[q] = pc[q] /\ at'[q] = at[q] /\ of'[q] = of[q] /\ idx'[q] = idx[q]
    BY <2>2 DEF InitCreate, Done, Goto, SafetyInv, TypeOK, PcTypeOK, ArgsTypeOK
  <2>3. pc'[p] \in {"init.refresh", "idle"}
    BY <2>1 DEF InitCreate, Done, Goto, SafetyInv, TypeOK, PcTypeOK
  <2> QED
    BY <1>1, <1>2, <2>1, <2>2, <2>3, MoveSafe DEF CopyPC, MergingPC, MergedPC
<1>5. QueuesSafe'
  BY <1>1, <1>2, QueuesFrame DEF InitCreate
<1> QED
  BY <1>1, <1>3, <1>4, <1>5 DEF SafetyInv

\* InitRefresh reads rows and claims nothing of the store.
LEMMA InitRefreshSafe == ASSUME SafetyInv, NEW p \in Requests, InitRefresh(p) PROVE SafetyInv'
<1>1. TypeOK'
  BY InitRefreshType DEF SafetyInv
<1>2. StoreKept
  BY StoreFrame DEF InitRefresh
<1>3. RowsSafe'
  BY <1>1, <1>2, RowsFrame DEF InitRefresh, rows
<1>4. PcSafe'
  BY <1>1, <1>2, DoneSafe DEF InitRefresh, Procs
<1>5. QueuesSafe'
  BY <1>1, <1>2, QueuesFrame DEF InitRefresh
<1> QED
  BY <1>1, <1>3, <1>4, <1>5 DEF SafetyInv

\* PresignChunk reads rows and claims nothing of the store.
LEMMA PresignChunkSafe == ASSUME SafetyInv, NEW p \in Requests, PresignChunk(p) PROVE SafetyInv'
<1>1. TypeOK'
  BY PresignChunkType DEF SafetyInv
<1>2. StoreKept
  BY StoreFrame DEF PresignChunk, ReadChunk, store
<1>3. RowsSafe'
  BY <1>1, <1>2, RowsFrame DEF PresignChunk, ReadChunk, rows
<1>4. PcSafe'
  <2>1. CASE Done(p)
    BY <1>1, <1>2, <2>1, DoneSafe DEF Procs
  <2>2. ASSUME NEW l \in {"presign.uploading", "presign.mark"}, Goto(p, l), UNCHANGED args
        PROVE  PcSafe'
    <3>1. l \notin CopyPC \cup MergingPC \cup MergedPC /\ l # "complete.mark"
      BY DEF CopyPC, MergingPC, MergedPC
    <3> QED
      BY <1>1, <1>2, <2>2, <3>1, GotoSafe DEF Procs, args
  <2> QED
    BY <2>1, <2>2 DEF PresignChunk, ReadChunk
<1>5. QueuesSafe'
  BY <1>1, <1>2, QueuesFrame DEF PresignChunk, ReadChunk
<1> QED
  BY <1>1, <1>3, <1>4, <1>5 DEF SafetyInv

\* CompleteChunk reads rows and claims nothing of the store.
LEMMA CompleteChunkSafe == ASSUME SafetyInv, NEW p \in Requests, CompleteChunk(p) PROVE SafetyInv'
<1>1. TypeOK'
  BY CompleteChunkType DEF SafetyInv
<1>2. StoreKept
  BY StoreFrame DEF CompleteChunk, ReadChunk, store
<1>3. RowsSafe'
  BY <1>1, <1>2, RowsFrame DEF CompleteChunk, ReadChunk, rows
<1>4. PcSafe'
  <2>1. CASE Done(p)
    BY <1>1, <1>2, <2>1, DoneSafe DEF Procs
  <2>2. ASSUME NEW l \in {"complete.head"}, Goto(p, l), UNCHANGED args
        PROVE  PcSafe'
    <3>1. l \notin CopyPC \cup MergingPC \cup MergedPC /\ l # "complete.mark"
      BY DEF CopyPC, MergingPC, MergedPC
    <3> QED
      BY <1>1, <1>2, <2>2, <3>1, GotoSafe DEF Procs, args
  <2> QED
    BY <2>1, <2>2 DEF CompleteChunk, ReadChunk
<1>5. QueuesSafe'
  BY <1>1, <1>2, QueuesFrame DEF CompleteChunk, ReadChunk
<1> QED
  BY <1>1, <1>3, <1>4, <1>5 DEF SafetyInv

\* Uploading claims nothing of the store.
LEMMA PresignUploadingSafe == ASSUME SafetyInv, NEW p \in Requests, PresignUploading(p) PROVE SafetyInv'
<1>1. TypeOK'
  BY PresignUploadingType DEF SafetyInv
<1>2. StoreKept
  BY StoreFrame DEF PresignUploading, rows, store
<1>3. RowsSafe'
  BY <1>1, <1>2, StatusSafe DEF PresignUploading, SafetyInv, TypeOK, ArgsMatchPc, Procs, UploadStatus
<1>4. PcSafe'
  <2>1. "presign.mark" \notin CopyPC \cup MergingPC \cup MergedPC
    BY DEF CopyPC, MergingPC, MergedPC
  <2> QED
    BY <1>1, <1>2, <2>1, GotoSafe DEF PresignUploading, Procs, args
<1>5. QueuesSafe'
  BY <1>1, <1>2, QueuesFrame DEF PresignUploading
<1> QED
  BY <1>1, <1>3, <1>4, <1>5 DEF SafetyInv

\* A chunk that goes back to Uploading makes no claim.
LEMMA PresignMarkSafe == ASSUME SafetyInv, NEW p \in Requests, PresignMark(p) PROVE SafetyInv'
<1>1. TypeOK'
  BY PresignMarkType DEF SafetyInv
<1>2. StoreKept
  BY StoreFrame DEF PresignMark
<1>3. RowsSafe'
  <2>1. of[p] \in Uploads /\ idx[p] \in Index
    BY DEF PresignMark, SafetyInv, TypeOK, ArgsTypeOK, ArgsMatchPc, Procs, PresignPC, CompletePC
  <2>2. \A u \in Uploads, i \in Index :
           chunk'[u][i] = IF u = of[p] /\ i = idx[p] THEN "Uploading" ELSE chunk[u][i]
    BY <2>1 DEF PresignMark, UpdateChunkStatusByUUID, SafetyInv, TypeOK, RowsTypeOK
  <2>3. CompletedIsStored'
    BY <2>2 DEF PresignMark, store, SafetyInv, RowsSafe, PcSafe, CompletedIsStored, CompletedChunks, Procs
  <2>4. SuccessIsMerged' /\ \A u \in Uploads : status'[u] = "Merging" => HasSources(u)'
    BY DEF PresignMark, store, SafetyInv, RowsSafe, SuccessIsMerged, HasSources
  <2> QED
    BY <2>3, <2>4 DEF RowsSafe
<1>4. PcSafe'
  BY <1>1, <1>2, DoneSafe DEF PresignMark, Procs
<1>5. QueuesSafe'
  BY <1>1, <1>2, QueuesFrame DEF PresignMark
<1> QED
  BY <1>1, <1>3, <1>4, <1>5 DEF SafetyInv

\* The object is seen before the chunk is marked.
LEMMA CompleteHeadSafe == ASSUME SafetyInv, NEW p \in Requests, CompleteHead(p) PROVE SafetyInv'
<1>1. TypeOK'
  BY CompleteHeadType DEF SafetyInv
<1>2. StoreKept
  BY StoreFrame DEF CompleteHead, rows, store
<1>3. RowsSafe'
  BY <1>1, <1>2, RowsFrame DEF CompleteHead, rows
<1>4. PcSafe'
  <2>1. CASE Done(p)
    BY <1>1, <1>2, <2>1, DoneSafe DEF Procs
  <2>2. ASSUME NEW l \in {"complete.count", "complete.mark"}, Goto(p, l), UNCHANGED args,
               idx[p] \in obj[of[p]]
        PROVE  PcSafe'
    <3>1. l \notin CopyPC \cup MergingPC \cup MergedPC
      BY DEF CopyPC, MergingPC, MergedPC
    <3>2. idx[p] \in obj'[of[p]]
      BY <2>2 DEF CompleteHead, store
    <3> QED
      BY <1>1, <1>2, <2>2, <3>1, <3>2, GotoSafe DEF Procs, args
  <2> QED
    BY <2>1, <2>2 DEF CompleteHead
<1>5. QueuesSafe'
  BY <1>1, <1>2, QueuesFrame DEF CompleteHead
<1> QED
  BY <1>1, <1>3, <1>4, <1>5 DEF SafetyInv

\* The chunk marked Completed was seen in the store; it may have been reclaimed since,
\* but only because its upload was merged.
LEMMA CompleteMarkSafe == ASSUME SafetyInv, NEW p \in Requests, CompleteMark(p) PROVE SafetyInv'
<1>1. TypeOK'
  BY CompleteMarkType DEF SafetyInv
<1>2. StoreKept
  BY StoreFrame DEF CompleteMark, rows, store
<1>3. RowsSafe'
  <2>1. of[p] \in Uploads /\ idx[p] \in Index
    BY DEF CompleteMark, SafetyInv, TypeOK, ArgsTypeOK, ArgsMatchPc, Procs, PresignPC, CompletePC
  <2>2. \A u \in Uploads, i \in Index :
           chunk'[u][i] = IF u = of[p] /\ i = idx[p] THEN "Completed" ELSE chunk[u][i]
    BY <2>1 DEF CompleteMark, UpdateChunkStatusByUUID, SafetyInv, TypeOK, RowsTypeOK
  <2>3. CompletedIsStored'
    BY <2>2 DEF CompleteMark, store, SafetyInv, RowsSafe, PcSafe, CompletedIsStored, CompletedChunks, Procs
  <2>4. SuccessIsMerged' /\ \A u \in Uploads : status'[u] = "Merging" => HasSources(u)'
    BY DEF CompleteMark, store, SafetyInv, RowsSafe, SuccessIsMerged, HasSources
  <2> QED
    BY <2>3, <2>4 DEF RowsSafe
<1>4. PcSafe'
  <2>1. "complete.count" \notin CopyPC \cup MergingPC \cup MergedPC
    BY DEF CopyPC, MergingPC, MergedPC
  <2> QED
    BY <1>1, <1>2, <2>1, GotoSafe DEF CompleteMark, Procs, args
<1>5. QueuesSafe'
  BY <1>1, <1>2, QueuesFrame DEF CompleteMark
<1> QED
  BY <1>1, <1>3, <1>4, <1>5 DEF SafetyInv

\* The count finds all chunks Completed, so the merge has its sources.
LEMMA CompleteCountSafe == ASSUME SafetyInv, NEW p \in Requests, CompleteCount(p) PROVE SafetyInv'
<1>1. TypeOK'
  BY CompleteCountType DEF SafetyInv
<1>2. StoreKept
  BY StoreFrame DEF CompleteCount, rows, store
<1>3. RowsSafe'
  BY <1>1, <1>2, RowsFrame DEF CompleteCount, rows
<1>4. PcSafe'
  <2>1. CASE Done(p)
    BY <1>1, <1>2, <2>1, DoneSafe DEF Procs
  <2>2. ASSUME NEW l \in {"complete.merging"}, Goto(p, l), UNCHANGED args,
               CountChunk(at[p]) = TotalChunks
        PROVE  PcSafe'
    <3>1. at[p] \in Uploads
      BY DEF CompleteCount, SafetyInv, TypeOK, ArgsMatchPc, Procs
    <3>2. HasSources(at[p])
      BY <2>2, <3>1, CountGivesSources DEF SafetyInv, RowsSafe
    <3>3. l \notin MergedPC /\ l # "complete.mark"
      BY DEF MergedPC
    <3> QED
      BY <1>1, <1>2, <2>2, <3>1, <3>2, <3>3, GotoSafe DEF Procs, args
  <2> QED
    BY <2>1, <2>2 DEF CompleteCount
<1>5. QueuesSafe'
  BY <1>1, <1>2, QueuesFrame DEF CompleteCount
<1> QED
  BY <1>1, <1>3, <1>4, <1>5 DEF SafetyInv

\* Merging is written by a request that counted all chunks.
LEMMA CompleteMergingSafe == ASSUME SafetyInv, NEW p \in Requests, CompleteMerging(p) PROVE SafetyInv'
<1>1. TypeOK'
  BY CompleteMergingType DEF SafetyInv
<1>2. StoreKept
  BY StoreFrame DEF CompleteMerging, rows, store
<1>3. RowsSafe'
  <2>1. at[p] \in Uploads /\ HasSources(at[p])
    BY DEF CompleteMerging, SafetyInv, TypeOK, ArgsMatchPc, PcSafe, MergingPC, Procs
  <2> QED
    BY <1>1, <1>2, <2>1, StatusSafe DEF CompleteMerging, UploadStatus
<1>4. PcSafe'
  BY <1>1, <1>2, DoneSafe DEF CompleteMerging, Procs
<1>5. QueuesSafe'
  BY <1>1, <1>2, QueuesFrame DEF CompleteMerging
<1> QED
  BY <1>1, <1>3, <1>4, <1>5 DEF SafetyInv

\* The count finds all chunks Completed, so the merge has its sources.
LEMMA MergeCountSafe == ASSUME SafetyInv, NEW p \in Requests, MergeCount(p) PROVE SafetyInv'
<1>1. TypeOK'
  BY MergeCountType DEF SafetyInv
<1>2. StoreKept
  BY StoreFrame DEF MergeCount, rows, store
<1>3. RowsSafe'
  BY <1>1, <1>2, RowsFrame DEF MergeCount, rows
<1>4. PcSafe'
  <2>1. CASE Done(p)
    BY <1>1, <1>2, <2>1, DoneSafe DEF Procs
  <2>2. ASSUME NEW l \in {"merge.merging"}, Goto(p, l), UNCHANGED args,
               CountChunk(at[p]) = TotalChunks
        PROVE  PcSafe'
    <3>1. at[p] \in Uploads
      BY DEF MergeCount, SafetyInv, TypeOK, ArgsMatchPc, Procs
    <3>2. HasSources(at[p])
      BY <2>2, <3>1, CountGivesSources DEF SafetyInv, RowsSafe
    <3>3. l \notin MergedPC /\ l # "complete.mark"
      BY DEF MergedPC
    <3> QED
      BY <1>1, <1>2, <2>2, <3>1, <3>2, <3>3, GotoSafe DEF Procs, args
  <2> QED
    BY <2>1, <2>2 DEF MergeCount
<1>5. QueuesSafe'
  BY <1>1, <1>2, QueuesFrame DEF MergeCount
<1> QED
  BY <1>1, <1>3, <1>4, <1>5 DEF SafetyInv

\* Merging is written by a request that counted all chunks.
LEMMA MergeMergingSafe == ASSUME SafetyInv, NEW p \in Requests, MergeMerging(p) PROVE SafetyInv'
<1>1. TypeOK'
  BY MergeMergingType DEF SafetyInv
<1>2. StoreKept
  BY StoreFrame DEF MergeMerging, rows, store
<1>3. RowsSafe'
  <2>1. at[p] \in Uploads /\ HasSources(at[p])
    BY DEF MergeMerging, SafetyInv, TypeOK, ArgsMatchPc, PcSafe, MergingPC, Procs
  <2> QED
    BY <1>1, <1>2, <2>1, StatusSafe DEF MergeMerging, UploadStatus
<1>4. PcSafe'
  <2>1. p \in Procs /\ at[p] \in Uploads /\ HasSources(at[p])
    BY DEF MergeMerging, SafetyInv, TypeOK, ArgsMatchPc, PcSafe, MergingPC, Procs
  <2>2. "merge.enqueue" \notin MergedPC
    BY DEF MergedPC
  <2> QED
    BY <1>1, <1>2, <2>1, <2>2, GotoSafe DEF MergeMerging, args
<1>5. QueuesSafe'
  BY <1>1, <1>2, QueuesFrame DEF MergeMerging
<1> QED
  BY <1>1, <1>3, <1>4, <1>5 DEF SafetyInv

\* The queued task comes from a request that counted all chunks.
LEMMA MergeEnqueueSafe == ASSUME SafetyInv, NEW p \in Requests, MergeEnqueue(p) PROVE SafetyInv'
<1>1. TypeOK'
  BY MergeEnqueueType DEF SafetyInv
<1>2. StoreKept
  BY StoreFrame DEF MergeEnqueue, rows, store
<1>3. RowsSafe'
  BY <1>1, <1>2, RowsFrame DEF MergeEnqueue, rows
<1>4. PcSafe'
  BY <1>1, <1>2, DoneSafe DEF MergeEnqueue, Procs
<1>5. QueuesSafe'
  <2>1. at[p] \in Uploads /\ HasSources(at[p])
    BY DEF MergeEnqueue, SafetyInv, TypeOK, ArgsMatchPc, PcSafe, MergingPC, Procs
  <2>2. Range(mergeChan') \subseteq Range(mergeChan) \cup {at[p]}
    BY <2>1, EnqueueMerge DEF MergeEnqueue, SafetyInv
  <2>3. UNCHANGED <<obj, merged, cleanup>>
    BY DEF MergeEnqueue, store
  <2> QED
    BY <2>1, <2>2, <2>3 DEF SafetyInv, QueuesSafe, CleanupIsSafe, HasSources, cleanup
<1> QED
  BY <1>1, <1>3, <1>4, <1>5 DEF SafetyInv

\* The count finds all chunks Completed, so the merge has its sources.
LEMMA PublishCountSafe == ASSUME SafetyInv, NEW p \in Requests, PublishCount(p) PROVE SafetyInv'
<1>1. TypeOK'
  BY PublishCountType DEF SafetyInv
<1>2. StoreKept
  BY StoreFrame DEF PublishCount, rows, store
<1>3. RowsSafe'
  BY <1>1, <1>2, RowsFrame DEF PublishCount, rows
<1>4. PcSafe'
  <2>1. CASE Done(p)
    BY <1>1, <1>2, <2>1, DoneSafe DEF Procs
  <2>2. ASSUME NEW l \in {"copy", "publish.merging"}, Goto(p, l), UNCHANGED args,
               CountChunk(at[p]) = TotalChunks
        PROVE  PcSafe'
    <3>1. at[p] \in Uploads
      BY DEF PublishCount, SafetyInv, TypeOK, ArgsMatchPc, Procs
    <3>2. HasSources(at[p])
      BY <2>2, <3>1, CountGivesSources DEF SafetyInv, RowsSafe
    <3>3. l \notin MergedPC /\ l # "complete.mark"
      BY DEF MergedPC
    <3> QED
      BY <1>1, <1>2, <2>2, <3>1, <3>2, <3>3, GotoSafe DEF Procs, args
  <2> QED
    BY <2>1, <2>2 DEF PublishCount
<1>5. QueuesSafe'
  BY <1>1, <1>2, QueuesFrame DEF PublishCount
<1> QED
  BY <1>1, <1>3, <1>4, <1>5 DEF SafetyInv

\* Merging is written by a request that counted all chunks.
LEMMA PublishMergingSafe == ASSUME SafetyInv, NEW p \in Requests, PublishMerging(p) PROVE SafetyInv'
<1>1. TypeOK'
  BY PublishMergingType DEF SafetyInv
<1>2. StoreKept
  BY StoreFrame DEF PublishMerging, rows, store
<1>3. RowsSafe'
  <2>1. at[p] \in Uploads /\ HasSources(at[p])
    BY DEF PublishMerging, SafetyInv, TypeOK, ArgsMatchPc, PcSafe, MergingPC, Procs
  <2> QED
    BY <1>1, <1>2, <2>1, StatusSafe DEF PublishMerging, UploadStatus
<1>4. PcSafe'
  <2>1. p \in Procs /\ at[p] \in Uploads /\ HasSources(at[p])
    BY DEF PublishMerging, SafetyInv, TypeOK, ArgsMatchPc, PcSafe, MergingPC, Procs
  <2>2. "copy" \notin MergedPC
    BY DEF MergedPC
  <2> QED
    BY <1>1, <1>2, <2>1, <2>2, GotoSafe DEF PublishMerging, args
<1>5. QueuesSafe'
  BY <1>1, <1>2, QueuesFrame DEF PublishMerging
<1> QED
  BY <1>1, <1>3, <1>4, <1>5 DEF SafetyInv

\* Failed claims nothing of the store.
LEMMA PublishFailedSafe == ASSUME SafetyInv, NEW p \in Requests, PublishFailed(p) PROVE SafetyInv'
<1>1. TypeOK'
  BY PublishFailedType DEF SafetyInv
<1>2. StoreKept
  BY StoreFrame DEF PublishFailed, rows, store
<1>3. RowsSafe'
  BY <1>1, <1>2, StatusSafe DEF PublishFailed, SafetyInv, TypeOK, ArgsMatchPc, Procs, UploadStatus
<1>4. PcSafe'
  BY <1>1, <1>2, DoneSafe DEF PublishFailed, Procs
<1>5. QueuesSafe'
  BY <1>1, <1>2, QueuesFrame DEF PublishFailed
<1> QED
  BY <1>1, <1>3, <1>4, <1>5 DEF SafetyInv

\* Success is written after MergeChunk returned without error.
LEMMA PublishSuccessSafe == ASSUME SafetyInv, NEW p \in Requests, PublishSuccess(p) PROVE SafetyInv'
<1>1. TypeOK'
  BY PublishSuccessType DEF SafetyInv
<1>2. StoreKept
  BY StoreFrame DEF PublishSuccess, rows, store
<1>3. RowsSafe'
  <2>1. at[p] \in Uploads /\ at[p] \in merged
    BY DEF PublishSuccess, SafetyInv, TypeOK, ArgsMatchPc, PcSafe, MergedPC, Procs
  <2> QED
    BY <1>1, <1>2, <2>1, StatusSafe DEF PublishSuccess, UploadStatus
<1>4. PcSafe'
  <2>1. at[p] \in Uploads /\ at[p] \in merged
    BY DEF PublishSuccess, SafetyInv, TypeOK, ArgsMatchPc, PcSafe, MergedPC, Procs
  <2>2. "publish.reread" \notin CopyPC \cup MergingPC
    BY DEF CopyPC, MergingPC
  <2> QED
    BY <1>1, <1>2, <2>1, <2>2, GotoSafe DEF PublishSuccess, args, Procs, StoreKept
<1>5. QueuesSafe'
  BY <1>1, <1>2, QueuesFrame DEF PublishSuccess
<1> QED
  BY <1>1, <1>3, <1>4, <1>5 DEF SafetyInv

\* An upload read again as Success is merged.
LEMMA PublishRereadSafe == ASSUME SafetyInv, NEW p \in Requests, PublishReread(p) PROVE SafetyInv'
<1>1. TypeOK'
  BY PublishRereadType DEF SafetyInv
<1>2. StoreKept
  BY StoreFrame DEF PublishReread, rows, store
<1>3. RowsSafe'
  BY <1>1, <1>2, RowsFrame DEF PublishReread, rows
<1>4. PcSafe'
  <2>1. at[p] \in Uploads /\ at[p] \in merged
    BY DEF PublishReread, SafetyInv, TypeOK, ArgsMatchPc, PcSafe, MergedPC, Procs
  <2>2. "publish.create" \notin CopyPC \cup MergingPC
    BY DEF CopyPC, MergingPC
  <2>3. CASE Done(p)
    BY <1>1, <1>2, <2>3, DoneSafe DEF Procs
  <2>4. CASE Goto(p, "publish.create") /\ UNCHANGED args
    BY <1>1, <1>2, <2>1, <2>2, <2>4, GotoSafe DEF args, Procs, StoreKept
  <2> QED
    BY <2>3, <2>4 DEF PublishReread
<1>5. QueuesSafe'
  BY <1>1, <1>2, QueuesFrame DEF PublishReread
<1> QED
  BY <1>1, <1>3, <1>4, <1>5 DEF SafetyInv

\* The video row is created for a merged upload.
LEMMA PublishCreateSafe == ASSUME SafetyInv, NEW p \in Requests, PublishCreate(p) PROVE SafetyInv'
<1>1. TypeOK'
  BY PublishCreateType DEF SafetyInv
<1>2. StoreKept
  BY StoreFrame DEF PublishCreate, rows, store
<1>3. RowsSafe'
  <2>1. at[p] \in Uploads /\ at[p] \in merged
    BY DEF PublishCreate, SafetyInv, TypeOK, ArgsMatchPc, PcSafe, MergedPC, Procs
  <2> QED
    BY <2>1 DEF PublishCreate, store, SafetyInv, RowsSafe, SuccessIsMerged,
                CompletedIsStored, CompletedChunks, HasSources
<1>4. PcSafe'
  <2>1. at[p] \in Uploads /\ at[p] \in merged
    BY DEF PublishCreate, SafetyInv, TypeOK, ArgsMatchPc, PcSafe, MergedPC, Procs
  <2>2. "publish.cleanup" \notin CopyPC \cup MergingPC
    BY DEF CopyPC, MergingPC
  <2>3. CASE Done(p)
    BY <1>1, <1>2, <2>3, DoneSafe DEF Procs
  <2>4. CASE Goto(p, "publish.cleanup") /\ UNCHANGED args
    BY <1>1, <1>2, <2>1, <2>2, <2>4, GotoSafe DEF args, Procs, StoreKept
  <2> QED
    BY <2>3, <2>4 DEF PublishCreate
<1>5. QueuesSafe'
  BY <1>1, <1>2, QueuesFrame DEF PublishCreate
<1> QED
  BY <1>1, <1>3, <1>4, <1>5 DEF SafetyInv

\* Publish hands over the chunks of the upload it merged.
LEMMA PublishCleanupSafe == ASSUME SafetyInv, NEW p \in Requests, PublishCleanup(p) PROVE SafetyInv'
<1>1. TypeOK'
  BY PublishCleanupType DEF SafetyInv
<1>2. StoreKept
  BY StoreFrame DEF PublishCleanup, rows, store
<1>3. RowsSafe'
  BY <1>1, <1>2, RowsFrame DEF PublishCleanup, rows
<1>4. PcSafe'
  BY <1>1, <1>2, DoneSafe DEF PublishCleanup, Procs
<1>5. QueuesSafe'
  <2>1. at[p] \in Uploads /\ at[p] \in merged
    BY DEF PublishCleanup, SafetyInv, TypeOK, ArgsMatchPc, PcSafe, MergedPC, Procs
  <2> QED
    BY <1>1, <1>2, <2>1, EnqueueCleanupSafe DEF PublishCleanup
<1> QED
  BY <1>1, <1>3, <1>4, <1>5 DEF SafetyInv

\* The parts are copied before the merged object is claimed.
LEMMA UploadPartCopySafe == ASSUME SafetyInv, NEW p \in Procs, UploadPartCopy(p) PROVE SafetyInv'
<1>1. TypeOK'
  BY UploadPartCopyType DEF SafetyInv
<1>2. StoreKept
  BY StoreFrame DEF UploadPartCopy, rows, store
<1>3. RowsSafe'
  BY <1>1, <1>2, RowsFrame DEF UploadPartCopy, rows
<1>4. PcSafe'
  <2>1. at[p] \in Uploads /\ HasSources(at[p])
    BY DEF UploadPartCopy, SafetyInv, TypeOK, ArgsMatchPc, PcSafe, CopyPC
  <2>2. HasSources(at[p])' /\ UNCHANGED at
    BY <1>1, <1>2, <2>1, SourcesKept DEF UploadPartCopy, SafetyInv, HasSources
  <2>3. ASSUME NEW q \in Procs \ {p}
        PROVE  pc'[q] = pc[q] /\ at'[q] = at[q] /\ of'[q] = of[q] /\ idx'[q] = idx[q]
    BY <2>3 DEF UploadPartCopy, Goto, SafetyInv, TypeOK, PcTypeOK, ArgsTypeOK
  <2>4. pc'[p] \in {"copy", "assemble", "task.failed", "publish.failed"}
    BY DEF UploadPartCopy, Goto, AfterMerge, SafetyInv, TypeOK, PcTypeOK
  <2> QED
    BY <1>1, <1>2, <2>2, <2>3, <2>4, MoveSafe DEF MergedPC
<1>5. QueuesSafe'
  BY <1>1, <1>2, QueuesFrame DEF UploadPartCopy
<1> QED
  BY <1>1, <1>3, <1>4, <1>5 DEF SafetyInv

\* The merged object exists when the call succeeds.
LEMMA CompleteMultipartUploadSafe == ASSUME SafetyInv, NEW p \in Procs, CompleteMultipartUpload(p) PROVE SafetyInv'
<1>1. TypeOK'
  BY CompleteMultipartUploadType DEF SafetyInv
<1>2. StoreKept
  BY DEF CompleteMultipartUpload, StoreKept
<1>3. RowsSafe'
  BY <1>1, <1>2, RowsFrame DEF CompleteMultipartUpload, rows
<1>4. PcSafe'
  <2>1. at[p] \in Uploads
    BY DEF CompleteMultipartUpload, SafetyInv, TypeOK, ArgsMatchPc
  <2>2. CASE /\ merged' = merged \cup {at[p]}
             /\ Goto(p, AfterMerge(p, TRUE))
    <3>1. AfterMerge(p, TRUE) \notin CopyPC \cup MergingPC \cup {"complete.mark"}
      BY DEF AfterMerge, CopyPC, MergingPC
    <3> QED
      BY <1>1, <1>2, <2>2, <3>1, GotoSafe DEF CompleteMultipartUpload, args
  <2>3. CASE Goto(p, AfterMerge(p, FALSE))
    <3>1. AfterMerge(p, FALSE) \notin CopyPC \cup MergingPC \cup MergedPC \cup {"complete.mark"}
      BY DEF AfterMerge, CopyPC, MergingPC, MergedPC
    <3> QED
      BY <1>1, <1>2, <2>3, <3>1, GotoSafe DEF CompleteMultipartUpload, args
  <2> QED
    BY <2>2, <2>3 DEF CompleteMultipartUpload
<1>5. QueuesSafe'
  BY <1>1, <1>2, QueuesFrame DEF CompleteMultipartUpload
<1> QED
  BY <1>1, <1>3, <1>4, <1>5 DEF SafetyInv

\* An error that returns moves one process to idle.
LEMMA DbErrorSafe == ASSUME SafetyInv, NEW p \in Procs, DbError(p) PROVE SafetyInv'
<1>1. TypeOK'
  BY DbErrorType DEF SafetyInv
<1>2. StoreKept
  BY StoreFrame DEF DbError, rows, store
<1>3. RowsSafe'
  BY <1>1, <1>2, RowsFrame DEF DbError, rows
<1>4. PcSafe'
  BY <1>1, <1>2, DoneSafe DEF DbError
<1>5. QueuesSafe'
  BY <1>1, <1>2, QueuesFrame DEF DbError
<1> QED
  BY <1>1, <1>3, <1>4, <1>5 DEF SafetyInv

\* A write whose answer is lost is as true as one that is answered.
LEMMA DbAnswerLostSafe == ASSUME SafetyInv, NEW p \in Procs, DbAnswerLost(p) PROVE SafetyInv'
<1>1. TypeOK'
  BY DbAnswerLostType DEF SafetyInv
<1>2. StoreKept
  BY StoreFrame DEF DbAnswerLost, store
<1>3. RowsSafe'
  <2>1. CASE pc[p] = "presign.mark"
    <3>1. of[p] \in Uploads /\ idx[p] \in Index
      BY <2>1 DEF SafetyInv, TypeOK, ArgsTypeOK, ArgsMatchPc, PresignPC
    <3>2. /\ chunk' = [chunk EXCEPT ![of[p]][idx[p]] = "Uploading"]
          /\ UNCHANGED <<status, videos, obj, merged>>
      BY <2>1 DEF DbAnswerLost, UpdateChunkStatusByUUID, store
    <3>3. \A u \in Uploads, i \in Index :
             chunk'[u][i] = IF u = of[p] /\ i = idx[p] THEN "Uploading" ELSE chunk[u][i]
      BY <3>1, <3>2 DEF SafetyInv, TypeOK, RowsTypeOK
    <3>4. CompletedIsStored'
      BY <3>2, <3>3 DEF SafetyInv, RowsSafe, CompletedIsStored, CompletedChunks
    <3>5. SuccessIsMerged' /\ \A u \in Uploads : status'[u] = "Merging" => HasSources(u)'
      BY <3>2 DEF SafetyInv, RowsSafe, SuccessIsMerged, HasSources
    <3> QED
      BY <3>4, <3>5 DEF RowsSafe
  <2>2. CASE pc[p] = "merge.merging"
    <3>1. at[p] \in Uploads /\ HasSources(at[p])
      BY <2>2 DEF SafetyInv, TypeOK, ArgsMatchPc, PcSafe, MergingPC
    <3>2. UpdateStatusByUUID(at[p], "Merging") /\ UNCHANGED <<chunk, videos>>
      BY <2>2 DEF DbAnswerLost
    <3> QED
      BY <1>1, <1>2, <3>1, <3>2, StatusSafe DEF UploadStatus
  <2>3. CASE pc[p] = "task.success"
    <3>1. at[p] \in Uploads /\ at[p] \in merged
      BY <2>3 DEF SafetyInv, TypeOK, ArgsMatchPc, PcSafe, MergedPC
    <3>2. UpdateStatusByUUID(at[p], "Success") /\ UNCHANGED <<chunk, videos>>
      BY <2>3 DEF DbAnswerLost
    <3> QED
      BY <1>1, <1>2, <3>1, <3>2, StatusSafe DEF UploadStatus
  <2>4. CASE pc[p] = "publish.create"
    <3>1. at[p] \in Uploads /\ at[p] \in merged
      BY <2>4 DEF SafetyInv, TypeOK, ArgsMatchPc, PcSafe, MergedPC
    <3>2. videos' = videos \cup {at[p]} /\ UNCHANGED <<status, chunk, obj, merged>>
      BY <2>4 DEF DbAnswerLost, store
    <3> QED
      BY <3>1, <3>2 DEF SafetyInv, RowsSafe, SuccessIsMerged, CompletedIsStored,
                        CompletedChunks, HasSources
  <2> QED
    BY <2>1, <2>2, <2>3, <2>4 DEF DbAnswerLost
<1>4. PcSafe'
  BY <1>1, <1>2, DoneSafe DEF DbAnswerLost
<1>5. QueuesSafe'
  BY <1>1, <1>2, QueuesFrame DEF DbAnswerLost
<1> QED
  BY <1>1, <1>3, <1>4, <1>5 DEF SafetyInv

\* A dropped error leaves the row as it was; the process goes on with what it has.
LEMMA DbErrorIgnoredSafe == ASSUME SafetyInv, NEW p \in Procs, DbErrorIgnored(p) PROVE SafetyInv'
<1>1. TypeOK'
  BY DbErrorIgnoredType DEF SafetyInv
<1>2. StoreKept
  BY StoreFrame DEF DbErrorIgnored, rows, store
<1>3. RowsSafe'
  BY <1>1, <1>2, RowsFrame DEF DbErrorIgnored, rows
<1>4. PcSafe'
  <2>1. CASE Done(p)
    BY <1>1, <1>2, <2>1, DoneSafe
  <2>2. CASE pc[p] = "presign.uploading" /\ Goto(p, "presign.mark") /\ UNCHANGED args
    BY <1>1, <1>2, <2>2, GotoSafe DEF args, CopyPC, MergingPC, MergedPC
  <2>3. CASE pc[p] = "publish.merging" /\ Goto(p, "copy") /\ UNCHANGED args
    <3>1. at[p] \in Uploads /\ HasSources(at[p])
      BY <2>3 DEF SafetyInv, TypeOK, ArgsMatchPc, PcSafe, MergingPC
    <3> QED
      BY <1>1, <1>2, <2>3, <3>1, GotoSafe DEF args, MergedPC
  <2> QED
    BY <2>1, <2>2, <2>3 DEF DbErrorIgnored
<1>5. QueuesSafe'
  BY <1>1, <1>2, QueuesFrame DEF DbErrorIgnored
<1> QED
  BY <1>1, <1>3, <1>4, <1>5 DEF SafetyInv

\* A queued task brings its sources with it.
LEMMA TaskReceiveSafe == ASSUME SafetyInv, TaskReceive PROVE SafetyInv'
<1>1. TypeOK'
  BY TaskReceiveType DEF SafetyInv
<1>2. StoreKept
  BY StoreFrame DEF TaskReceive, rows, store
<1>3. RowsSafe'
  BY <1>1, <1>2, RowsFrame DEF TaskReceive, rows
<1>4. PcSafe'
  <2>1. Worker \in Procs
    BY DEF Procs
  <2>2. ASSUME NEW q \in Procs \ {Worker}
        PROVE  pc'[q] = pc[q] /\ at'[q] = at[q] /\ of'[q] = of[q] /\ idx'[q] = idx[q]
    BY <2>2 DEF TaskReceive, Goto, SafetyInv, TypeOK, PcTypeOK, ArgsTypeOK
  <2>3. Head(mergeChan) \in Uploads /\ HasSources(Head(mergeChan))
    BY TailRange DEF TaskReceive, SafetyInv, TypeOK, QueuesTypeOK, QueuesSafe
  <2>4. \/ pc'[Worker] = "idle"
        \/ pc'[Worker] = "copy" /\ at'[Worker] = Head(mergeChan)
    BY <2>1 DEF TaskReceive, Goto, SafetyInv, TypeOK, PcTypeOK, ArgsTypeOK
  <2>5. pc'[Worker] = "copy" => HasSources(at[Worker])'
    BY <2>3, <2>4 DEF TaskReceive, HasSources, store
  <2> QED
    BY <1>1, <1>2, <2>1, <2>2, <2>4, <2>5, MoveSafe DEF MergingPC, CopyPC, MergedPC
<1>5. QueuesSafe'
  <2>1. Range(mergeChan') \subseteq Range(mergeChan)
    BY TailRange DEF TaskReceive, SafetyInv, TypeOK, QueuesTypeOK
  <2> QED
    BY <2>1 DEF TaskReceive, store, SafetyInv, QueuesSafe, CleanupIsSafe, HasSources, cleanup
<1> QED
  BY <1>1, <1>3, <1>4, <1>5 DEF SafetyInv

\* Failed claims nothing of the store.
LEMMA TaskFailedSafe == ASSUME SafetyInv, TaskFailed PROVE SafetyInv'
<1>1. TypeOK'
  BY TaskFailedType DEF SafetyInv
<1>2. StoreKept
  BY StoreFrame DEF TaskFailed, rows, store
<1>3. RowsSafe'
  BY <1>1, <1>2, StatusSafe DEF TaskFailed, SafetyInv, TypeOK, ArgsMatchPc, Procs, UploadStatus
<1>4. PcSafe'
  BY <1>1, <1>2, DoneSafe DEF TaskFailed, Procs
<1>5. QueuesSafe'
  BY <1>1, <1>2, QueuesFrame DEF TaskFailed
<1> QED
  BY <1>1, <1>3, <1>4, <1>5 DEF SafetyInv

\* Success is written after MergeChunk returned without error.
LEMMA TaskSuccessSafe == ASSUME SafetyInv, TaskSuccess PROVE SafetyInv'
<1>1. TypeOK'
  BY TaskSuccessType DEF SafetyInv
<1>2. StoreKept
  BY StoreFrame DEF TaskSuccess, rows, store
<1>3. RowsSafe'
  <2>1. at[Worker] \in Uploads /\ at[Worker] \in merged
    BY DEF TaskSuccess, SafetyInv, TypeOK, ArgsMatchPc, PcSafe, MergedPC, Procs
  <2> QED
    BY <1>1, <1>2, <2>1, StatusSafe DEF TaskSuccess, UploadStatus
<1>4. PcSafe'
  <2>1. at[Worker] \in Uploads /\ at[Worker] \in merged
    BY DEF TaskSuccess, SafetyInv, TypeOK, ArgsMatchPc, PcSafe, MergedPC, Procs
  <2>2. "task.cleanup" \notin CopyPC \cup MergingPC
    BY DEF CopyPC, MergingPC
  <2> QED
    BY <1>1, <1>2, <2>1, <2>2, GotoSafe DEF TaskSuccess, args, Procs, StoreKept
<1>5. QueuesSafe'
  BY <1>1, <1>2, QueuesFrame DEF TaskSuccess
<1> QED
  BY <1>1, <1>3, <1>4, <1>5 DEF SafetyInv

\* The worker hands over the chunks of the upload it merged.
LEMMA TaskCleanupSafe == ASSUME SafetyInv, TaskCleanup PROVE SafetyInv'
<1>1. TypeOK'
  BY TaskCleanupType DEF SafetyInv
<1>2. StoreKept
  BY StoreFrame DEF TaskCleanup, rows, store
<1>3. RowsSafe'
  BY <1>1, <1>2, RowsFrame DEF TaskCleanup, rows
<1>4. PcSafe'
  BY <1>1, <1>2, DoneSafe DEF TaskCleanup, Procs
<1>5. QueuesSafe'
  <2>1. at[Worker] \in Uploads /\ at[Worker] \in merged
    BY DEF TaskCleanup, SafetyInv, TypeOK, ArgsMatchPc, PcSafe, MergedPC, Procs
  <2> QED
    BY <1>1, <1>2, <2>1, EnqueueCleanupSafe DEF TaskCleanup
<1> QED
  BY <1>1, <1>3, <1>4, <1>5 DEF SafetyInv

\* The batch and the paths to delete come from the cleanup queue.
LEMMA CleanupReceiveSafe == ASSUME SafetyInv, CleanupReceive PROVE SafetyInv'
<1>1. TypeOK'
  BY CleanupReceiveType DEF SafetyInv
<1>2. StoreKept
  BY StoreFrame DEF CleanupReceive, rows, store
<1>3. RowsSafe'
  BY <1>1, <1>2, RowsFrame DEF CleanupReceive, rows
<1>4. PcSafe'
  BY <1>1, <1>2, PcFrame DEF CleanupReceive
<1>5. QueuesSafe'
  <2> DEFINE b == Append(batch, Head(cleanupChan))
  <2>1. /\ Range(cleanupChan) = Range(Tail(cleanupChan)) \cup {Head(cleanupChan)}
        /\ Head(cleanupChan) \in Uploads
    BY TailRange DEF CleanupReceive, SafetyInv, TypeOK, QueuesTypeOK
  <2>2. Range(b) = Range(batch) \cup {Head(cleanupChan)}
    BY <2>1, AppendRange DEF SafetyInv, TypeOK, QueuesTypeOK
  <2>3. Range(batch') \subseteq Range(b) /\ todo' \subseteq Range(b)
    BY EmptyRange DEF CleanupReceive
  <2>4. UNCHANGED <<obj, merged, mergeChan, delAt>> /\ cleanupChan' = Tail(cleanupChan)
    BY DEF CleanupReceive, store
  <2> QED
    BY <2>1, <2>2, <2>3, <2>4 DEF SafetyInv, QueuesSafe, CleanupIsSafe, HasSources
<1> QED
  BY <1>1, <1>3, <1>4, <1>5 DEF SafetyInv

\* The ticker flushes what the batch holds.
LEMMA CleanupTickSafe == ASSUME SafetyInv, CleanupTick PROVE SafetyInv'
<1>1. TypeOK'
  BY CleanupTickType DEF SafetyInv
<1>2. StoreKept
  BY StoreFrame DEF CleanupTick, rows, store
<1>3. RowsSafe'
  BY <1>1, <1>2, RowsFrame DEF CleanupTick, rows
<1>4. PcSafe'
  BY <1>1, <1>2, PcFrame DEF CleanupTick
<1>5. QueuesSafe'
  BY EmptyRange DEF CleanupTick, store, SafetyInv, QueuesSafe, CleanupIsSafe, HasSources
<1> QED
  BY <1>1, <1>3, <1>4, <1>5 DEF SafetyInv

\* The deletion under way comes from the batch that was flushed.
LEMMA ProcessNextSafe == ASSUME SafetyInv, ProcessNext PROVE SafetyInv'
<1>1. TypeOK'
  BY ProcessNextType DEF SafetyInv
<1>2. StoreKept
  BY StoreFrame DEF ProcessNext, rows, store
<1>3. RowsSafe'
  BY <1>1, <1>2, RowsFrame DEF ProcessNext, rows
<1>4. PcSafe'
  BY <1>1, <1>2, PcFrame DEF ProcessNext
<1>5. QueuesSafe'
  <2>1. PICK u \in todo : delAt' = [delAt EXCEPT ![Cleaner] = u] /\ todo' = todo \ {u}
    BY DEF ProcessNext
  <2>2. \A d \in Deleters : delAt'[d] \in {delAt[d], u}
    BY <2>1 DEF SafetyInv, TypeOK, QueuesTypeOK
  <2> QED
    BY <2>1, <2>2 DEF ProcessNext, store, SafetyInv, QueuesSafe, CleanupIsSafe, HasSources
<1> QED
  BY <1>1, <1>3, <1>4, <1>5 DEF SafetyInv

\* A chunk is deleted of a merged upload only.
LEMMA DeleteChunkSafe == ASSUME SafetyInv, NEW d \in Deleters, DeleteChunk(d) PROVE SafetyInv'
<1>1. TypeOK'
  BY DeleteChunkType DEF SafetyInv
<1>2. StoreKept
  <2>1. delAt[d] \in merged
    BY DEF DeleteChunk, SafetyInv, QueuesSafe, CleanupIsSafe
  <2> QED
    BY <2>1 DEF DeleteChunk, SafetyInv, TypeOK, StoreTypeOK, StoreKept
<1>3. RowsSafe'
  BY <1>1, <1>2, RowsFrame DEF DeleteChunk, rows
<1>4. PcSafe'
  BY <1>1, <1>2, PcFrame DEF DeleteChunk
<1>5. QueuesSafe'
  <2>1. \A e \in Deleters : delAt'[e] \in {delAt[e], NoUpload}
    BY DEF DeleteChunk, SafetyInv, TypeOK, QueuesTypeOK
  <2>2. CleanupIsSafe'
    BY <2>1 DEF DeleteChunk, SafetyInv, QueuesSafe, CleanupIsSafe
  <2>3. Range(mergeChan) \subseteq Uploads
    BY SeqRange DEF SafetyInv, TypeOK, QueuesTypeOK
  <2>4. \A u \in Range(mergeChan') : HasSources(u)'
    BY <1>1, <1>2, <2>3, SourcesKept DEF DeleteChunk, SafetyInv, QueuesSafe
  <2> QED
    BY <2>2, <2>4 DEF QueuesSafe
<1> QED
  BY <1>1, <1>3, <1>4, <1>5 DEF SafetyInv

\* A PUT only adds an object.
LEMMA PutChunkSafe == ASSUME SafetyInv, PutChunk PROVE SafetyInv'
<1>1. TypeOK'
  BY PutChunkType DEF SafetyInv
<1>2. StoreKept
  BY DEF PutChunk, StoreKept, SafetyInv, TypeOK, StoreTypeOK
<1>3. RowsSafe'
  BY <1>1, <1>2, RowsFrame DEF PutChunk, rows
<1>4. PcSafe'
  BY <1>1, <1>2, PcFrame DEF PutChunk
<1>5. QueuesSafe'
  BY <1>1, <1>2, QueuesFrame DEF PutChunk
<1> QED
  BY <1>1, <1>3, <1>4, <1>5 DEF SafetyInv

\* Only a published upload, hence a merged one, is called Success.
LEMMA TranscodeOutcomeSafe == ASSUME SafetyInv, TranscodeOutcome PROVE SafetyInv'
<1>1. TypeOK'
  BY TranscodeOutcomeType DEF SafetyInv
<1>2. StoreKept
  BY StoreFrame DEF TranscodeOutcome, rows, store
<1>3. RowsSafe'
  <2>1. PICK u \in videos, s \in {"Success", "Failed"} : UpdateStatusByUUID(u, s)
    BY DEF TranscodeOutcome
  <2>2. u \in Uploads /\ u \in merged
    BY DEF SafetyInv, TypeOK, RowsTypeOK, RowsSafe, SuccessIsMerged
  <2> QED
    BY <1>1, <1>2, <2>1, <2>2, StatusSafe DEF TranscodeOutcome, UploadStatus
<1>4. PcSafe'
  BY <1>1, <1>2, PcFrame DEF TranscodeOutcome
<1>5. QueuesSafe'
  BY <1>1, <1>2, QueuesFrame DEF TranscodeOutcome
<1> QED
  BY <1>1, <1>3, <1>4, <1>5 DEF SafetyInv

\* Memory is lost; rows and objects stay.
LEMMA CrashSafe == ASSUME SafetyInv, Crash PROVE SafetyInv'
<1>1. TypeOK'
  BY CrashType DEF SafetyInv
<1>2. StoreKept
  BY StoreFrame DEF Crash, rows, store
<1>3. RowsSafe'
  BY <1>1, <1>2, RowsFrame DEF Crash, rows
<1>4. PcSafe'
  BY DEF Crash, PcSafe, CopyPC, MergingPC, MergedPC
<1>5. QueuesSafe'
  BY EmptyRange DEF Crash, QueuesSafe, CleanupIsSafe
<1> QED
  BY <1>1, <1>3, <1>4, <1>5 DEF SafetyInv

\* Nothing is stored, merged, counted or queued at first.
LEMMA InitSafe == Init => SafetyInv
<1> SUFFICES ASSUME Init PROVE SafetyInv
  OBVIOUS
<1>1. TypeOK
  BY InitType
<1>2. RowsSafe
  BY DEF Init, RowsSafe, SuccessIsMerged, CompletedIsStored, CompletedChunks
<1>3. PcSafe
  BY DEF Init, PcSafe, CopyPC, MergingPC, MergedPC
<1>4. QueuesSafe
  BY EmptyRange DEF Init, QueuesSafe, CleanupIsSafe
<1> QED
  BY <1>1, <1>2, <1>3, <1>4 DEF SafetyInv

\* Every step keeps the inductive invariant.
LEMMA SafetyStep == SafetyInv /\ [Next]_vars => SafetyInv'
<1> SUFFICES ASSUME SafetyInv, [Next]_vars PROVE SafetyInv'
  OBVIOUS
<1>1. ASSUME NEW p \in Requests, AcceptRequest(p)
      PROVE  SafetyInv'
  BY <1>1, InitFindSafe, PresignFindSafe, CompleteFindSafe, MergeFindSafe,
           PublishFindSafe DEF AcceptRequest
<1>2. ASSUME NEW p \in Requests, RequestStep(p)
      PROVE  SafetyInv'
  <2>1. p \in Procs
    BY DEF Procs
  <2> QED
    BY <1>2, <2>1, InitChunksSafe, InitCreateSafe, InitRefreshSafe, PresignChunkSafe,
       PresignUploadingSafe, PresignMarkSafe, CompleteChunkSafe, CompleteHeadSafe,
       CompleteMarkSafe, CompleteCountSafe, CompleteMergingSafe, MergeCountSafe,
       MergeMergingSafe, MergeEnqueueSafe, PublishCountSafe, PublishMergingSafe,
       PublishFailedSafe, PublishSuccessSafe, PublishRereadSafe, PublishCreateSafe,
       PublishCleanupSafe, UploadPartCopySafe, CompleteMultipartUploadSafe, DbErrorSafe,
       DbAnswerLostSafe, DbErrorIgnoredSafe
    DEF RequestStep
<1>3. CASE WorkerStep
  <2>1. Worker \in Procs
    BY DEF Procs
  <2> QED
    BY <1>3, <2>1, TaskReceiveSafe, TaskFailedSafe, TaskSuccessSafe, TaskCleanupSafe,
       UploadPartCopySafe, CompleteMultipartUploadSafe, DbErrorSafe, DbAnswerLostSafe,
       DbErrorIgnoredSafe
    DEF WorkerStep
<1>4. CASE CleanerStep \/ \E d \in Spawned : DeleteChunk(d)
  BY <1>4, CleanupReceiveSafe, CleanupTickSafe, ProcessNextSafe, DeleteChunkSafe
  DEF CleanerStep, Deleters
<1>5. CASE PutChunk \/ TranscodeOutcome \/ Crash
  BY <1>5, PutChunkSafe, TranscodeOutcomeSafe, CrashSafe
<1>6. CASE UNCHANGED vars
  <2>1. TypeOK' /\ UNCHANGED <<pc, args, mergeChan, cleanup, obj, merged, status, chunk, videos>>
    BY <1>6, TypeStep DEF SafetyInv, vars, rows, store
  <2>2. StoreKept
    BY <2>1, StoreFrame
  <2> QED
    BY <2>1, <2>2, RowsFrame, PcFrame, QueuesFrame DEF SafetyInv
<1> QED
  BY <1>1, <1>2, <1>3, <1>4, <1>5, <1>6 DEF Next

\* The inductive invariant of the pipeline.
THEOREM SafetyInvHolds == Spec => []SafetyInv
<1>1. Init => SafetyInv
  BY InitSafe
<1>2. SafetyInv /\ [Next]_vars => SafetyInv'
  BY SafetyStep
<1> QED
  BY <1>1, <1>2, PTL DEF Spec

\* Success, and a published video, mean a merged object.
THEOREM SuccessAlwaysMerged == Spec => []SuccessIsMerged
<1>1. SafetyInv => SuccessIsMerged
  BY DEF SafetyInv, RowsSafe
<1> QED
  BY <1>1, SafetyInvHolds, PTL

\* A Completed chunk is never lost.
THEOREM CompletedAlwaysStored == Spec => []CompletedIsStored
<1>1. SafetyInv => CompletedIsStored
  BY DEF SafetyInv, RowsSafe
<1> QED
  BY <1>1, SafetyInvHolds, PTL

\* No merge is started or announced without its sources.
THEOREM MergesAlwaysHaveSources == Spec => []MergesHaveSources
<1>1. SafetyInv => MergesHaveSources
  BY DEF SafetyInv, RowsSafe, PcSafe, QueuesSafe, MergesHaveSources
<1> QED
  BY <1>1, SafetyInvHolds, PTL

\* Only chunks of merged uploads are ever handed to the cleanup.
THEOREM CleanupAlwaysSafe == Spec => []CleanupIsSafe
<1>1. SafetyInv => CleanupIsSafe
  BY DEF SafetyInv, QueuesSafe
<1> QED
  BY <1>1, SafetyInvHolds, PTL

-----------------------------------------------------------------------------
(* Requests work on rows of their own user.                                *)

\* The control points past the chunk query.
OwnChunkPC == {"presign.uploading", "presign.mark", "complete.head", "complete.mark"}

\* A row that exists stays, with its owner.
OwnersKept ==
    \A u \in Uploads : Exists(u) => Exists(u)' /\ owner'[u] = owner[u]

\* No status that is written makes a row disappear.
LEMMA StatusOwners ==
    ASSUME TypeOK, NEW u \in Uploads, NEW s \in UploadStatus \ {"None"},
           UpdateStatusByUUID(u, s), UNCHANGED owner
    PROVE  OwnersKept
BY DEF OwnersKept, Exists, UpdateStatusByUUID, TypeOK, RowsTypeOK

\* A step that leaves statuses and owners alone keeps them.
LEMMA OwnersFrame == ASSUME UNCHANGED <<status, owner>> PROVE OwnersKept
BY DEF OwnersKept, Exists

\* What the other requests rely on is kept when one process moves.
LEMMA OthersOwn ==
    ASSUME TypeOK, TenantIsolation, OwnersKept, NEW p \in Procs,
           \A q \in Procs \ {p} : /\ pc'[q] = pc[q] /\ at'[q] = at[q]
                                  /\ of'[q] = of[q] /\ user'[q] = user[q],
           p \in Requests =>
             /\ pc'[p] \notin {"idle", "init.create"} => WorksOnOwnUpload(p)'
             /\ pc'[p] \in OwnChunkPC => WorksOnOwnChunk(p)'
    PROVE  TenantIsolation'
<1>1. ASSUME NEW q \in Requests, q # p, pc[q] \notin {"idle", "init.create"}
      PROVE  WorksOnOwnUpload(q)'
  BY <1>1 DEF TenantIsolation, WorksOnOwnUpload, OwnersKept, Procs
<1>2. ASSUME NEW q \in Requests, q # p, pc[q] \in OwnChunkPC
      PROVE  WorksOnOwnChunk(q)'
  BY <1>2 DEF TenantIsolation, WorksOnOwnChunk, OwnersKept, Procs, OwnChunkPC
<1> QED
  BY <1>1, <1>2 DEF TenantIsolation, Procs, OwnChunkPC

\* No request moves.
LEMMA IdleOwn ==
    ASSUME TypeOK, TenantIsolation, OwnersKept, NEW p \in Procs \ Requests,
           \A q \in Procs \ {p} : /\ pc'[q] = pc[q] /\ at'[q] = at[q]
                                  /\ of'[q] = of[q] /\ user'[q] = user[q]
    PROVE  TenantIsolation'
BY OthersOwn

\* No request moves, and no row loses its owner: the steps of the worker, of the
\* cleanup and of the transcoder.
LEMMA FrameOwn ==
    ASSUME TypeOK, TenantIsolation, OwnersKept, UNCHANGED <<pc, at, of, user>>
    PROVE  TenantIsolation'
BY IdleOwn, ProcessesAssumption DEF Procs

\* A handler that returns works on nothing.
LEMMA DoneOwn ==
    ASSUME TypeOK, TenantIsolation, OwnersKept, NEW p \in Procs, Done(p)
    PROVE  TenantIsolation'
<1>1. pc'[p] = "idle"
  BY DEF Done, Goto, TypeOK, PcTypeOK
<1>2. \A q \in Procs \ {p} : /\ pc'[q] = pc[q] /\ at'[q] = at[q]
                             /\ of'[q] = of[q] /\ user'[q] = user[q]
  BY DEF Done, Goto, TypeOK, PcTypeOK, ArgsTypeOK
<1> QED
  BY <1>1, <1>2, OthersOwn DEF OwnChunkPC

\* A request that goes on with the upload it has.
LEMMA GotoOwn ==
    ASSUME TypeOK, TenantIsolation, OwnersKept, NEW p \in Procs, NEW l, Goto(p, l),
           UNCHANGED <<at, of, user>>, pc[p] \notin {"idle", "init.create"},
           l \in OwnChunkPC => pc[p] \in OwnChunkPC \/ of[p] = at[p]
    PROVE  TenantIsolation'
<1>1. pc'[p] = l /\ \A q \in Procs \ {p} : pc'[q] = pc[q]
  BY DEF Goto, TypeOK, PcTypeOK
<1>2. p \in Requests => WorksOnOwnUpload(p)
  BY DEF TenantIsolation
<1>3. p \in Requests /\ l \in OwnChunkPC => WorksOnOwnChunk(p)
  BY <1>2 DEF TenantIsolation, OwnChunkPC, WorksOnOwnUpload, WorksOnOwnChunk
<1>4. p \in Requests => WorksOnOwnUpload(p)'
  BY <1>2 DEF WorksOnOwnUpload, OwnersKept
<1>5. p \in Requests /\ l \in OwnChunkPC => WorksOnOwnChunk(p)'
  BY <1>3 DEF WorksOnOwnChunk, OwnersKept
<1> QED
  BY <1>1, <1>4, <1>5, OthersOwn

\* The lookup of a request finds a row of its user.
LEMMA AcceptOwn ==
    ASSUME TypeOK, TenantIsolation, NEW p \in Requests, NEW l \in RequestPC \ OwnChunkPC,
           NEW x \in Users, NEW u \in Uploads, NEW c, NEW i, Accept(p, l, x, u, c, i)
    PROVE  TenantIsolation'
<1>1. OwnersKept
  BY OwnersFrame DEF Accept, rows
<1>2. p \in Procs /\ pc'[p] = l /\ at'[p] = u /\ user'[p] = x
  BY DEF Accept, Goto, TypeOK, PcTypeOK, ArgsTypeOK, Procs
<1>3. \A q \in Procs \ {p} : /\ pc'[q] = pc[q] /\ at'[q] = at[q]
                             /\ of'[q] = of[q] /\ user'[q] = user[q]
  BY DEF Accept, Goto, TypeOK, PcTypeOK, ArgsTypeOK
<1>4. WorksOnOwnUpload(p)'
  BY <1>2 DEF Accept, QueryByUserUUIDAndUUID, WorksOnOwnUpload, Exists, rows
<1> QED
  BY <1>1, <1>2, <1>3, <1>4, OthersOwn

\* An init request finds an upload of its user, or none.
LEMMA InitFindOwn ==
    ASSUME TypeOK, TenantIsolation, NEW p \in Requests, InitFind(p)
    PROVE  TenantIsolation'
<1>1. OwnersKept
  BY OwnersFrame DEF InitFind, rows
<1>2. p \in Procs
  BY DEF Procs
<1>3. PICK x \in Users, f \in Files :
        /\ user' = [user EXCEPT ![p] = x]
        /\ \/ \E u \in Uploads : /\ QueryByUploadVideoHash(u, x, f)
                                 /\ at' = [at EXCEPT ![p] = u]
                                 /\ Goto(p, "init.chunks")
           \/ Goto(p, "init.create") /\ UNCHANGED at
        /\ UNCHANGED of
  BY DEF InitFind
<1>4. \A q \in Procs \ {p} : /\ pc'[q] = pc[q] /\ at'[q] = at[q]
                             /\ of'[q] = of[q] /\ user'[q] = user[q]
  BY <1>2, <1>3 DEF Goto, TypeOK, PcTypeOK, ArgsTypeOK
<1>5. CASE Goto(p, "init.create")
  BY <1>1, <1>2, <1>4, <1>5, OthersOwn DEF Goto, TypeOK, PcTypeOK, OwnChunkPC
<1>6. ASSUME NEW u \in Uploads, QueryByUploadVideoHash(u, x, f),
             at' = [at EXCEPT ![p] = u], Goto(p, "init.chunks")
      PROVE  TenantIsolation'
  <2>1. pc'[p] = "init.chunks" /\ at'[p] = u /\ user'[p] = x
    BY <1>2, <1>3, <1>6 DEF Goto, TypeOK, PcTypeOK, ArgsTypeOK
  <2>2. WorksOnOwnUpload(p)'
    BY <1>6, <2>1 DEF InitFind, QueryByUploadVideoHash, Matching, WorksOnOwnUpload, Exists, rows
  <2> QED
    BY <1>1, <1>2, <1>4, <2>1, <2>2, OthersOwn DEF OwnChunkPC
<1> QED
  BY <1>3, <1>5, <1>6

\* A new row belongs to the user who asked for it, and takes no row from another.
LEMMA InitCreateOwn ==
    ASSUME TypeOK, TenantIsolation, NEW p \in Requests, InitCreate(p)
    PROVE  TenantIsolation'
<1>1. p \in Procs
  BY DEF Procs
<1>2. CASE Done(p) /\ UNCHANGED <<status, owner>>
  BY <1>1, <1>2, OwnersFrame, DoneOwn
<1>3. ASSUME NEW u \in Uploads, BatchCreate(u, user[p], want[p]),
             at' = [at EXCEPT ![p] = u], Goto(p, "init.refresh"), UNCHANGED <<user, of>>
      PROVE  TenantIsolation'
  <2>1. OwnersKept /\ Exists(u)' /\ owner'[u] = user[p]
    BY <1>3 DEF BatchCreate, OwnersKept, Exists, TypeOK, RowsTypeOK
  <2>2. pc'[p] = "init.refresh" /\ at'[p] = u
    BY <1>1, <1>3 DEF Goto, TypeOK, PcTypeOK, ArgsTypeOK
  <2>3. \A q \in Procs \ {p} : /\ pc'[q] = pc[q] /\ at'[q] = at[q]
                               /\ of'[q] = of[q] /\ user'[q] = user[q]
    BY <1>3 DEF Goto, TypeOK, PcTypeOK, ArgsTypeOK
  <2>4. WorksOnOwnUpload(p)'
    BY <1>3, <2>1, <2>2 DEF WorksOnOwnUpload
  <2> QED
    BY <1>1, <2>1, <2>2, <2>3, <2>4, OthersOwn DEF OwnChunkPC
<1> QED
  BY <1>2, <1>3 DEF InitCreate

\* The chunk query finds the chunk in the upload that was looked up.
LEMMA ReadChunkOwn ==
    ASSUME TypeOK, TenantIsolation, NEW p \in Requests, NEW l, ReadChunk(p, l),
           pc[p] \notin {"idle", "init.create"}
    PROVE  TenantIsolation'
<1>1. OwnersKept /\ p \in Procs
  BY OwnersFrame DEF ReadChunk, rows, Procs
<1>2. CASE Done(p)
  BY <1>1, <1>2, DoneOwn
<1>3. CASE of[p] = at[p] /\ Goto(p, l) /\ UNCHANGED args
  BY <1>1, <1>3, GotoOwn DEF args
<1> QED
  BY <1>2, <1>3 DEF ReadChunk, QueryUploadVideoByUUID

\* The copy of the chunks stays with the upload it was started for.
LEMMA CopyOwn ==
    ASSUME TypeOK, TenantIsolation, NEW p \in Procs,
           UploadPartCopy(p) \/ CompleteMultipartUpload(p)
    PROVE  TenantIsolation'
<1>1. OwnersKept
  BY OwnersFrame DEF UploadPartCopy, CompleteMultipartUpload, rows
<1>2. UNCHANGED <<at, of, user>> /\ pc[p] \in CopyPC
  BY DEF UploadPartCopy, CompleteMultipartUpload, args, CopyPC
<1>3. UNCHANGED pc \/ \E l : Goto(p, l) /\ l \notin OwnChunkPC
  BY DEF UploadPartCopy, CompleteMultipartUpload, AfterMerge, OwnChunkPC
<1> QED
  BY <1>1, <1>2, <1>3, GotoOwn, FrameOwn DEF CopyPC

\* An error ends a request, or lets it go on with what it has.
LEMMA FaultOwn ==
    ASSUME TypeOK, TenantIsolation, NEW p \in Procs,
           DbError(p) \/ DbAnswerLost(p) \/ DbErrorIgnored(p)
    PROVE  TenantIsolation'
<1>1. OwnersKept
  <2>1. CASE UNCHANGED <<status, owner>>
    BY <2>1, OwnersFrame
  <2>2. CASE pc[p] \in {"merge.merging", "task.success"} /\ DbAnswerLost(p)
    BY <2>2, StatusOwners DEF DbAnswerLost, TypeOK, ArgsMatchPc, UploadStatus
  <2> QED
    BY <2>1, <2>2 DEF DbError, DbAnswerLost, DbErrorIgnored, rows
<1>2. CASE Done(p)
  BY <1>1, <1>2, DoneOwn
<1>3. CASE /\ pc[p] = "presign.uploading" /\ Goto(p, "presign.mark")
           /\ UNCHANGED <<at, of, user>>
  BY <1>1, <1>3, GotoOwn DEF OwnChunkPC
<1>4. CASE /\ pc[p] = "publish.merging" /\ Goto(p, "copy")
           /\ UNCHANGED <<at, of, user>>
  BY <1>1, <1>4, GotoOwn DEF OwnChunkPC
<1> QED
  BY <1>2, <1>3, <1>4 DEF DbError, DbAnswerLost, DbErrorIgnored, args

\* A request that reaches its next call, one case per action.
LEMMA RequestOwn ==
    ASSUME TypeOK, TenantIsolation, NEW p \in Requests, RequestStep(p)
    PROVE  TenantIsolation'
<1>0. p \in Procs
  BY DEF Procs
<1>1. CASE InitChunks(p)
  BY <1>0, <1>1, OwnersFrame, GotoOwn DEF InitChunks, rows, args, OwnChunkPC
<1>2. CASE InitCreate(p)
  BY <1>2, InitCreateOwn
<1>3. CASE InitRefresh(p)
  BY <1>0, <1>3, OwnersFrame, DoneOwn DEF InitRefresh, rows
<1>4. CASE PresignChunk(p)
  BY <1>4, ReadChunkOwn DEF PresignChunk
<1>5. CASE PresignUploading(p)
  <2>1. OwnersKept
    BY <1>0, <1>5, StatusOwners DEF PresignUploading, TypeOK, ArgsMatchPc, UploadStatus
  <2> QED
    BY <1>0, <1>5, <2>1, GotoOwn DEF PresignUploading, args, OwnChunkPC
<1>6. CASE PresignMark(p)
  BY <1>0, <1>6, OwnersFrame, DoneOwn DEF PresignMark
<1>7. CASE CompleteChunk(p)
  BY <1>7, ReadChunkOwn DEF CompleteChunk
<1>8. CASE CompleteHead(p)
  <2>1. OwnersKept
    BY <1>8, OwnersFrame DEF CompleteHead, rows
  <2> QED
    BY <1>0, <1>8, <2>1, GotoOwn, DoneOwn DEF CompleteHead, args, OwnChunkPC
<1>9. CASE CompleteMark(p)
  BY <1>0, <1>9, OwnersFrame, GotoOwn DEF CompleteMark, args, OwnChunkPC
<1>10. CASE CompleteCount(p)
  <2>1. OwnersKept
    BY <1>10, OwnersFrame DEF CompleteCount, rows
  <2> QED
    BY <1>0, <1>10, <2>1, GotoOwn, DoneOwn DEF CompleteCount, args, OwnChunkPC
<1>11. CASE CompleteMerging(p)
  <2>1. OwnersKept
    BY <1>0, <1>11, StatusOwners DEF CompleteMerging, TypeOK, ArgsMatchPc, UploadStatus
  <2> QED
    BY <1>0, <1>11, <2>1, DoneOwn DEF CompleteMerging
<1>12. CASE MergeCount(p)
  <2>1. OwnersKept
    BY <1>12, OwnersFrame DEF MergeCount, rows
  <2> QED
    BY <1>0, <1>12, <2>1, GotoOwn, DoneOwn DEF MergeCount, args, OwnChunkPC
<1>13. CASE MergeMerging(p)
  <2>1. OwnersKept
    BY <1>0, <1>13, StatusOwners DEF MergeMerging, TypeOK, ArgsMatchPc, UploadStatus
  <2> QED
    BY <1>0, <1>13, <2>1, GotoOwn DEF MergeMerging, args, OwnChunkPC
<1>14. CASE MergeEnqueue(p)
  BY <1>0, <1>14, OwnersFrame, DoneOwn DEF MergeEnqueue, rows
<1>15. CASE PublishCount(p)
  <2>1. OwnersKept
    BY <1>15, OwnersFrame DEF PublishCount, rows
  <2> QED
    BY <1>0, <1>15, <2>1, GotoOwn, DoneOwn DEF PublishCount, args, OwnChunkPC
<1>16. CASE PublishMerging(p)
  <2>1. OwnersKept
    BY <1>0, <1>16, StatusOwners DEF PublishMerging, TypeOK, ArgsMatchPc, UploadStatus
  <2> QED
    BY <1>0, <1>16, <2>1, GotoOwn DEF PublishMerging, args, OwnChunkPC
<1>17. CASE PublishFailed(p)
  <2>1. OwnersKept
    BY <1>0, <1>17, StatusOwners DEF PublishFailed, TypeOK, ArgsMatchPc, UploadStatus
  <2> QED
    BY <1>0, <1>17, <2>1, DoneOwn DEF PublishFailed
<1>18. CASE PublishSuccess(p)
  <2>1. OwnersKept
    BY <1>0, <1>18, StatusOwners DEF PublishSuccess, TypeOK, ArgsMatchPc, UploadStatus
  <2> QED
    BY <1>0, <1>18, <2>1, GotoOwn DEF PublishSuccess, args, OwnChunkPC
<1>19. CASE PublishReread(p)
  <2>1. OwnersKept
    BY <1>19, OwnersFrame DEF PublishReread, rows
  <2> QED
    BY <1>0, <1>19, <2>1, GotoOwn, DoneOwn DEF PublishReread, args, OwnChunkPC
<1>20. CASE PublishCreate(p)
  <2>1. OwnersKept
    BY <1>20, OwnersFrame DEF PublishCreate
  <2> QED
    BY <1>0, <1>20, <2>1, GotoOwn, DoneOwn DEF PublishCreate, args, OwnChunkPC
<1>21. CASE PublishCleanup(p)
  BY <1>0, <1>21, OwnersFrame, DoneOwn DEF PublishCleanup, rows
<1>22. CASE UploadPartCopy(p) \/ CompleteMultipartUpload(p)
  BY <1>0, <1>22, CopyOwn
<1>23. CASE DbError(p) \/ DbAnswerLost(p) \/ DbErrorIgnored(p)
  BY <1>0, <1>23, FaultOwn
<1> QED
  BY <1>1, <1>2, <1>3, <1>4, <1>5, <1>6, <1>7, <1>8, <1>9, <1>10, <1>11, <1>12, <1>13,
     <1>14, <1>15, <1>16, <1>17, <1>18, <1>19, <1>20, <1>21, <1>22, <1>23 DEF RequestStep

\* The merge worker is no request.
LEMMA WorkerOwn ==
    ASSUME TypeOK, TenantIsolation, WorkerStep
    PROVE  TenantIsolation'
<1>1. Worker \in Procs \ Requests
  BY ProcessesAssumption DEF Procs
<1>2. CASE TaskReceive
  <2>1. OwnersKept
    BY <1>2, OwnersFrame DEF TaskReceive, rows
  <2>2. \A q \in Procs \ {Worker} : /\ pc'[q] = pc[q] /\ at'[q] = at[q]
                                    /\ of'[q] = of[q] /\ user'[q] = user[q]
    BY <1>2 DEF TaskReceive, Goto, TypeOK, PcTypeOK, ArgsTypeOK
  <2> QED
    BY <1>1, <2>1, <2>2, IdleOwn
<1>3. CASE TaskFailed
  <2>1. OwnersKept
    BY <1>1, <1>3, StatusOwners DEF TaskFailed, TypeOK, ArgsMatchPc, UploadStatus
  <2> QED
    BY <1>1, <1>3, <2>1, DoneOwn DEF TaskFailed
<1>4. CASE TaskSuccess
  <2>1. OwnersKept
    BY <1>1, <1>4, StatusOwners DEF TaskSuccess, TypeOK, ArgsMatchPc, UploadStatus
  <2> QED
    BY <1>1, <1>4, <2>1, GotoOwn DEF TaskSuccess, args, OwnChunkPC
<1>5. CASE TaskCleanup
  BY <1>1, <1>5, OwnersFrame, DoneOwn DEF TaskCleanup, rows
<1>6. CASE UploadPartCopy(Worker) \/ CompleteMultipartUpload(Worker)
  BY <1>1, <1>6, CopyOwn
<1>7. CASE DbError(Worker) \/ DbAnswerLost(Worker) \/ DbErrorIgnored(Worker)
  BY <1>1, <1>7, FaultOwn
<1> QED
  BY <1>2, <1>3, <1>4, <1>5, <1>6, <1>7 DEF WorkerStep

\* No step takes a request to an upload or a chunk of another user.
LEMMA TenantStep == TypeOK /\ TenantIsolation /\ [Next]_vars => TenantIsolation'
<1> SUFFICES ASSUME TypeOK, TenantIsolation, [Next]_vars PROVE TenantIsolation'
  OBVIOUS
<1>1. ASSUME NEW p \in Requests, AcceptRequest(p) PROVE TenantIsolation'
  <2>1. CASE InitFind(p)
    BY <2>1, InitFindOwn
  <2>2. CASE PresignFind(p) \/ CompleteFind(p)
    BY <2>2, AcceptOwn DEF PresignFind, CompleteFind, RequestPC, PresignPC, CompletePC,
                           OwnChunkPC
  <2>3. CASE MergeFind(p) \/ PublishFind(p)
    BY <2>3, AcceptOwn DEF MergeFind, PublishFind, RequestPC, MergePC, PublishPC, OwnChunkPC
  <2> QED
    BY <1>1, <2>1, <2>2, <2>3 DEF AcceptRequest
<1>2. ASSUME NEW p \in Requests, RequestStep(p) PROVE TenantIsolation'
  BY <1>2, RequestOwn
<1>3. CASE WorkerStep
  BY <1>3, WorkerOwn
<1>4. CASE CleanerStep \/ (\E d \in Spawned : DeleteChunk(d)) \/ PutChunk
  BY <1>4, OwnersFrame, FrameOwn DEF CleanerStep, CleanupReceive, CleanupTick, ProcessNext,
                                     DeleteChunk, PutChunk, rows, args
<1>5. CASE TranscodeOutcome
  <2>1. OwnersKept
    BY <1>5, StatusOwners DEF TranscodeOutcome, TypeOK, RowsTypeOK, UploadStatus
  <2> QED
    BY <1>5, <2>1, FrameOwn DEF TranscodeOutcome, args
<1>6. CASE Crash
  BY <1>6 DEF Crash, TenantIsolation, Procs
<1>7. CASE UNCHANGED vars
  BY <1>7, OwnersFrame, FrameOwn DEF vars, rows, args
<1> QED
  BY <1>1, <1>2, <1>3, <1>4, <1>5, <1>6, <1>7 DEF Next

\* Requests past their lookups work on uploads and chunks of their own user, for
\* every number of users, uploads and requests, with faults and crashes.
THEOREM TenantsAreIsolated == Spec => []TenantIsolation
<1>1. Init => TenantIsolation
  BY DEF Init, TenantIsolation, Procs
<1>2. TypeOK /\ TenantIsolation /\ [Next]_vars => TenantIsolation'
  BY TenantStep
<1> QED
  BY <1>1, <1>2, TypeCorrect, PTL DEF Spec

-----------------------------------------------------------------------------
(* The pipeline implements DurableUpload.                                  *)

\* What a step may do to the store and the published uploads.
LEMMA DurableStep == SafetyInv /\ [Next]_vars => [Durable!Next]_(Durable!vars)
<1> SUFFICES ASSUME SafetyInv, [Next]_vars, ~ UNCHANGED <<obj, merged, videos>>
             PROVE  Durable!Next
  BY DEF Durable!vars
<1>1. ASSUME NEW p \in Procs, CompleteMultipartUpload(p) PROVE Durable!Next
  <2>1. at[p] \in Uploads /\ HasSources(at[p])
    BY <1>1 DEF CompleteMultipartUpload, SafetyInv, TypeOK, ArgsMatchPc, PcSafe, CopyPC
  <2>2. merged' = merged \cup {at[p]} /\ at[p] \notin merged /\ UNCHANGED <<obj, videos>>
    BY <1>1 DEF CompleteMultipartUpload, rows
  <2>3. Durable!Merge(at[p])
    BY <2>1, <2>2 DEF HasSources, Durable!Merge
  <2> QED
    BY <2>1, <2>3 DEF Durable!Next
<1>2. ASSUME NEW d \in Deleters, DeleteChunk(d) PROVE Durable!Next
  <2>1. delAt[d] \in merged /\ delAt[d] \in Uploads /\ delIdx[d] \in Index
    BY <1>2 DEF DeleteChunk, SafetyInv, QueuesSafe, CleanupIsSafe, TypeOK, QueuesTypeOK, StoreTypeOK
  <2>2. Durable!Reclaim(delAt[d], {delIdx[d]})
    BY <1>2, <2>1 DEF DeleteChunk, rows, Durable!Reclaim
  <2> QED
    BY <2>1, <2>2 DEF Durable!Next
<1>3. ASSUME NEW p \in Requests, PublishCreate(p) PROVE Durable!Next
  <2>1. at[p] \in merged /\ at[p] \in Uploads
    BY <1>3 DEF PublishCreate, SafetyInv, TypeOK, StoreTypeOK, PcSafe, MergedPC, Procs
  <2>2. Durable!Publish(at[p])
    BY <1>3, <2>1 DEF PublishCreate, store, Durable!Publish
  <2> QED
    BY <2>1, <2>2 DEF Durable!Next
<1>4. ASSUME NEW p \in Procs, DbAnswerLost(p) PROVE Durable!Next
  <2>1. pc[p] = "publish.create" /\ videos' = videos \cup {at[p]} /\ UNCHANGED <<obj, merged>>
    BY <1>4 DEF DbAnswerLost, store
  <2>2. at[p] \in merged /\ at[p] \in Uploads
    BY <2>1 DEF SafetyInv, TypeOK, StoreTypeOK, PcSafe, MergedPC
  <2>3. Durable!Publish(at[p])
    BY <2>1, <2>2 DEF Durable!Publish
  <2> QED
    BY <2>2, <2>3 DEF Durable!Next
<1>5. CASE PutChunk
  <2>1. PICK u \in Uploads : \E i \in urls[u] : obj' = [obj EXCEPT ![u] = @ \cup {i}]
    BY <1>5 DEF PutChunk
  <2>2. PICK i \in urls[u] : obj' = [obj EXCEPT ![u] = @ \cup {i}]
    BY <2>1
  <2>3. i \in Index /\ Durable!Put(u, i)
    BY <1>5, <2>2 DEF PutChunk, rows, SafetyInv, TypeOK, StoreTypeOK, Durable!Put
  <2> QED
    BY <2>3 DEF Durable!Next
<1>6. ASSUME NEW p \in Requests, AcceptRequest(p) PROVE FALSE
  BY <1>6 DEF AcceptRequest, InitFind, PresignFind, CompleteFind, MergeFind, PublishFind,
              Accept, rows, store
<1>7. ASSUME NEW p \in Requests, RequestStep(p) PROVE Durable!Next
  <2>1. p \in Procs
    BY DEF Procs
  <2> QED
    BY <1>1, <1>3, <1>4, <1>7, <2>1
    DEF RequestStep, rows, store, ReadChunk, InitChunks, InitCreate, InitRefresh, PresignChunk,
        PresignUploading, PresignMark, CompleteChunk, CompleteHead, CompleteMark,
        CompleteCount, CompleteMerging, MergeCount, MergeMerging, MergeEnqueue,
        PublishCount, PublishMerging, PublishFailed, PublishSuccess, PublishReread,
        PublishCleanup, UploadPartCopy, DbError, DbErrorIgnored
<1>8. CASE WorkerStep
  <2>1. Worker \in Procs
    BY DEF Procs
  <2> QED
    BY <1>1, <1>4, <1>8, <2>1 DEF WorkerStep, rows, store, TaskReceive, TaskFailed, TaskSuccess,
                            TaskCleanup, UploadPartCopy, DbError, DbErrorIgnored
<1>9. CASE CleanerStep \/ \E d \in Spawned : DeleteChunk(d)
  BY <1>2, <1>9 DEF CleanerStep, Deleters, rows, store, CleanupReceive, CleanupTick, ProcessNext
<1>10. CASE TranscodeOutcome \/ Crash
  BY <1>10 DEF TranscodeOutcome, Crash, rows, store
<1>11. CASE UNCHANGED vars
  BY <1>11 DEF vars, rows, store
<1> QED
  BY <1>5, <1>6, <1>7, <1>8, <1>9, <1>10, <1>11 DEF Next

\* Whatever happens to handlers, workers and queues, the service merges complete
\* uploads only, publishes merged uploads only, and deletes only chunks whose
\* upload is merged.
THEOREM ImplementsDurableUpload == Spec => DurableSpec
<1>1. Init => Durable!Init
  BY DEF Init, Durable!Init
<1>2. SafetyInv /\ [Next]_vars => [Durable!Next]_(Durable!vars)
  BY DurableStep
<1> QED
  BY <1>1, <1>2, SafetyInvHolds, PTL DEF Spec, DurableSpec, Durable!Spec

-----------------------------------------------------------------------------
(* A failure that is reported has lost nothing.                            *)

\* Where a merge has failed.
FailingPC == {"task.failed", "publish.failed"}

\* What makes FailedIsSpurious inductive: a merge that failed, but has not said so
\* yet, found its chunks cleaned up, or all of them are still there.
FailureInv ==
    /\ FailedIsSpurious
    /\ \A p \in Procs : pc[p] \in FailingPC => Spared(at[p])

\* What an upload has left is not lost by a further step.
SparesKept == \A u \in Uploads : Spared(u) => Spared(u)'

\* Each step is one of DurableUpload, whose steps add chunks, or remove those of an
\* upload that is merged.
LEMMA SparesStep == ASSUME SafetyInv, [Next]_vars PROVE SparesKept
<1>1. TypeOK /\ TypeOK'
  BY SafetyStep DEF SafetyInv
<1>2. [Durable!Next]_(Durable!vars)
  BY DurableStep
<1>3. StoreKept
  BY <1>1, <1>2 DEF StoreKept, TypeOK, StoreTypeOK, Durable!Next, Durable!vars, Durable!Put,
                    Durable!Merge, Durable!Reclaim, Durable!Publish
<1> QED
  BY <1>1, <1>3 DEF SparesKept, Spared, StoreKept, TypeOK, StoreTypeOK

\* A step that makes no upload Failed, and takes no process to a failure, that is
\* not spared.
LEMMA FailureFrame ==
    ASSUME SafetyInv, FailureInv, SparesKept,
           \A u \in Uploads : status'[u] = "Failed" => status[u] = "Failed" \/ Spared(u),
           \A p \in Procs : pc'[p] \in FailingPC =>
                /\ at'[p] = at[p]
                /\ pc[p] \in FailingPC \/ (at[p] \in Uploads /\ Spared(at[p]))
    PROVE  FailureInv'
<1>1. \A u \in Uploads : status'[u] = "Failed" => Spared(u)'
  BY DEF FailureInv, FailedIsSpurious, SparesKept
<1>2. ASSUME NEW p \in Procs, pc'[p] \in FailingPC PROVE Spared(at[p])'
  <2>1. at[p] \in Uploads /\ Spared(at[p]) /\ at'[p] = at[p]
    BY <1>2 DEF FailureInv, FailingPC, SafetyInv, TypeOK, ArgsMatchPc
  <2>2. PICK u \in Uploads : u = at[p] /\ Spared(u)
    BY <2>1
  <2>3. Spared(u)' /\ at'[p] = u
    BY <2>1, <2>2 DEF SparesKept
  <2> QED
    BY <2>3 DEF Spared
<1> QED
  BY <1>1, <1>2 DEF FailureInv, FailedIsSpurious

\* A process that goes elsewhere than to a failure.
LEMMA MoveFailure ==
    ASSUME SafetyInv, FailureInv, SparesKept,
           NEW p \in Procs, NEW l, l \notin FailingPC, Goto(p, l),
           \A q \in Procs \ {p} : at'[q] = at[q],
           \A u \in Uploads : status'[u] = "Failed" => status[u] = "Failed" \/ Spared(u)
    PROVE  FailureInv'
<1>1. \A q \in Procs : pc'[q] = IF q = p THEN l ELSE pc[q]
  BY DEF Goto, SafetyInv, TypeOK, PcTypeOK
<1> QED
  BY <1>1, FailureFrame

\* A process that returns.
LEMMA DoneFailure ==
    ASSUME SafetyInv, FailureInv, SparesKept, NEW p \in Procs, Done(p),
           \A u \in Uploads : status'[u] = "Failed" => status[u] = "Failed" \/ Spared(u)
    PROVE  FailureInv'
<1>1. Goto(p, "idle") /\ \A q \in Procs \ {p} : at'[q] = at[q]
  BY DEF Done, SafetyInv, TypeOK, ArgsTypeOK
<1>2. "idle" \notin FailingPC
  BY DEF FailingPC
<1> QED
  BY <1>1, <1>2, MoveFailure

\* A status other than Failed, or Failed where the upload is spared.
LEMMA StatusFailure ==
    ASSUME SafetyInv, NEW u \in Uploads, NEW s, UpdateStatusByUUID(u, s),
           s = "Failed" => Spared(u)
    PROVE  \A v \in Uploads : status'[v] = "Failed" => status[v] = "Failed" \/ Spared(v)
BY DEF UpdateStatusByUUID, SafetyInv, TypeOK, RowsTypeOK

\* The copy of a chunk fails because the store does, or where the chunks are gone:
\* they were all there when the merge began, and only a merge lets them go.
LEMMA CopyFailure ==
    ASSUME SafetyInv, FailureInv, SparesKept, NEW p \in Procs, UploadPartCopy(p)
    PROVE  FailureInv'
<1>1. at[p] \in Uploads /\ idx[p] \in Index /\ HasSources(at[p])
  BY DEF UploadPartCopy, SafetyInv, TypeOK, ArgsTypeOK, ArgsMatchPc, PcSafe, CopyPC
<1>2. UNCHANGED <<status, at>>
  BY DEF UploadPartCopy, rows
<1>3. CASE UNCHANGED pc
  BY <1>2, <1>3, FailureFrame
<1>4. CASE Goto(p, "assemble")
  BY <1>2, <1>4, MoveFailure DEF FailingPC
<1>5. CASE /\ idx[p] \notin obj[at[p]] \/ "storage" \in Faults
           /\ Goto(p, AfterMerge(p, FALSE))
  <2>1. Spared(at[p])
    BY <1>1, <1>5 DEF HasSources, Spared
  <2>2. \A q \in Procs \ {p} : pc'[q] = pc[q]
    BY <1>5 DEF Goto, SafetyInv, TypeOK, PcTypeOK
  <2> QED
    BY <1>1, <1>2, <2>1, <2>2, FailureFrame
<1> QED
  BY <1>3, <1>4, <1>5 DEF UploadPartCopy

\* The completion of a multipart upload fails only because the store does.
LEMMA AssembleFailure ==
    ASSUME SafetyInv, FailureInv, SparesKept, NEW p \in Procs, CompleteMultipartUpload(p)
    PROVE  FailureInv'
<1>1. UNCHANGED <<status, at>>
  BY DEF CompleteMultipartUpload, rows, args
<1>2. CASE Goto(p, AfterMerge(p, TRUE))
  <2>1. AfterMerge(p, TRUE) \notin FailingPC
    BY DEF AfterMerge, FailingPC
  <2> QED
    BY <1>1, <1>2, <2>1, MoveFailure
<1>3. CASE "storage" \in Faults /\ Goto(p, AfterMerge(p, FALSE))
  <2>1. at[p] \in Uploads /\ Spared(at[p])
    BY <1>3 DEF CompleteMultipartUpload, SafetyInv, TypeOK, ArgsMatchPc, PcSafe, CopyPC,
                HasSources, Spared
  <2>2. \A q \in Procs \ {p} : pc'[q] = pc[q]
    BY <1>3 DEF Goto, SafetyInv, TypeOK, PcTypeOK
  <2> QED
    BY <1>1, <2>1, <2>2, FailureFrame
<1> QED
  BY <1>2, <1>3 DEF CompleteMultipartUpload

\* A failed database call makes no upload Failed, and takes nobody to a failure.
LEMMA FaultFailure ==
    ASSUME SafetyInv, FailureInv, SparesKept, NEW p \in Procs,
           DbError(p) \/ DbAnswerLost(p) \/ DbErrorIgnored(p)
    PROVE  FailureInv'
<1>1. CASE DbError(p)
  BY <1>1, DoneFailure DEF DbError, rows
<1>2. CASE DbAnswerLost(p)
  <2>1. CASE UNCHANGED status
    BY <1>2, <2>1, DoneFailure DEF DbAnswerLost
  <2>2. CASE \E s \in {"Merging", "Success"} : UpdateStatusByUUID(at[p], s)
    <3>1. at[p] \in Uploads \/ UNCHANGED status
      BY <1>2 DEF DbAnswerLost, SafetyInv, TypeOK, ArgsMatchPc
    <3> QED
      BY <1>2, <2>1, <2>2, <3>1, StatusFailure, DoneFailure DEF DbAnswerLost
  <2> QED
    BY <1>2, <2>1, <2>2 DEF DbAnswerLost
<1>3. CASE DbErrorIgnored(p)
  <2>1. UNCHANGED status
    BY <1>3 DEF DbErrorIgnored, rows
  <2>2. CASE Done(p)
    BY <2>1, <2>2, DoneFailure
  <2>3. CASE \E l \in {"presign.mark", "copy"} : Goto(p, l) /\ UNCHANGED args
    BY <2>1, <2>3, MoveFailure DEF args, FailingPC
  <2> QED
    BY <1>3, <2>2, <2>3 DEF DbErrorIgnored
<1> QED
  BY <1>1, <1>2, <1>3

\* The steps of requests and of the worker, one case per action.
LEMMA RequestFailure ==
    ASSUME SafetyInv, FailureInv, SparesKept, NEW p \in Requests, RequestStep(p)
    PROVE  FailureInv'
<1>0. p \in Procs
  BY DEF Procs
<1>a. at[p] \in Uploads \/ pc[p] \in {"idle", "init.create"}
  BY <1>0 DEF SafetyInv, TypeOK, ArgsMatchPc
<1>1. CASE InitChunks(p)
  BY <1>0, <1>1, MoveFailure DEF InitChunks, rows, store, args, FailingPC
<1>2. CASE InitCreate(p)
  <2>1. CASE Done(p) /\ UNCHANGED status
    BY <1>0, <2>1, DoneFailure
  <2>2. ASSUME NEW u \in Uploads, status' = [status EXCEPT ![u] = "Init"],
               at' = [at EXCEPT ![p] = u], Goto(p, "init.refresh")
        PROVE  FailureInv'
    <3>1. \A v \in Uploads : status'[v] = "Failed" => status[v] = "Failed"
      BY <2>2 DEF SafetyInv, TypeOK, RowsTypeOK
    <3>2. \A q \in Procs \ {p} : at'[q] = at[q]
      BY <2>2 DEF SafetyInv, TypeOK, ArgsTypeOK
    <3> QED
      BY <1>0, <2>2, <3>1, <3>2, MoveFailure DEF FailingPC
  <2> QED
    BY <1>2, <2>1, <2>2 DEF InitCreate, BatchCreate, store
<1>3. CASE InitRefresh(p)
  BY <1>0, <1>3, DoneFailure DEF InitRefresh, rows
<1>4. CASE PresignChunk(p) \/ CompleteChunk(p)
  <2>1. PICK l \in {"presign.uploading", "presign.mark", "complete.head"} : ReadChunk(p, l)
    BY <1>4 DEF PresignChunk, CompleteChunk
  <2> QED
    BY <1>0, <2>1, MoveFailure, DoneFailure DEF ReadChunk, rows, store, args, FailingPC
<1>5. CASE PresignUploading(p)
  BY <1>0, <1>a, <1>5, StatusFailure, MoveFailure DEF PresignUploading, store, args, FailingPC
<1>6. CASE PresignMark(p)
  BY <1>0, <1>6, DoneFailure DEF PresignMark
<1>7. CASE CompleteHead(p)
  BY <1>0, <1>7, MoveFailure, DoneFailure DEF CompleteHead, rows, store, args, FailingPC
<1>8. CASE CompleteMark(p)
  BY <1>0, <1>8, MoveFailure DEF CompleteMark, store, args, FailingPC
<1>9. CASE CompleteCount(p)
  BY <1>0, <1>9, MoveFailure, DoneFailure DEF CompleteCount, rows, store, args, FailingPC
<1>10. CASE CompleteMerging(p)
  BY <1>0, <1>a, <1>10, StatusFailure, DoneFailure DEF CompleteMerging, store
<1>11. CASE MergeCount(p)
  BY <1>0, <1>11, MoveFailure, DoneFailure DEF MergeCount, rows, store, args, FailingPC
<1>12. CASE MergeMerging(p)
  BY <1>0, <1>a, <1>12, StatusFailure, MoveFailure DEF MergeMerging, store, args, FailingPC
<1>13. CASE MergeEnqueue(p)
  BY <1>0, <1>13, DoneFailure DEF MergeEnqueue, rows, store
<1>14. CASE PublishCount(p)
  BY <1>0, <1>14, MoveFailure, DoneFailure DEF PublishCount, rows, store, args, FailingPC
<1>15. CASE PublishMerging(p)
  BY <1>0, <1>a, <1>15, StatusFailure, MoveFailure DEF PublishMerging, store, args, FailingPC
<1>16. CASE PublishFailed(p)
  <2>1. Spared(at[p])
    BY <1>0, <1>16 DEF PublishFailed, FailureInv, FailingPC
  <2> QED
    BY <1>0, <1>a, <1>16, <2>1, StatusFailure, DoneFailure DEF PublishFailed, store
<1>17. CASE PublishSuccess(p)
  BY <1>0, <1>a, <1>17, StatusFailure, MoveFailure DEF PublishSuccess, store, args, FailingPC
<1>18. CASE PublishReread(p)
  BY <1>0, <1>18, MoveFailure, DoneFailure DEF PublishReread, rows, store, args, FailingPC
<1>19. CASE PublishCreate(p)
  BY <1>0, <1>19, MoveFailure, DoneFailure DEF PublishCreate, store, args, FailingPC
<1>20. CASE PublishCleanup(p)
  BY <1>0, <1>20, DoneFailure DEF PublishCleanup, rows, store
<1>21. CASE UploadPartCopy(p) \/ CompleteMultipartUpload(p)
  BY <1>0, <1>21, CopyFailure, AssembleFailure
<1>22. CASE DbError(p) \/ DbAnswerLost(p) \/ DbErrorIgnored(p)
  BY <1>0, <1>22, FaultFailure
<1> QED
  BY <1>1, <1>2, <1>3, <1>4, <1>5, <1>6, <1>7, <1>8, <1>9, <1>10, <1>11, <1>12, <1>13,
     <1>14, <1>15, <1>16, <1>17, <1>18, <1>19, <1>20, <1>21, <1>22 DEF RequestStep

\* The worker fails a task whose merge found the chunks cleaned up, or all of them.
LEMMA WorkerFailure ==
    ASSUME SafetyInv, FailureInv, SparesKept, WorkerStep
    PROVE  FailureInv'
<1>0. Worker \in Procs
  BY DEF Procs
<1>1. CASE TaskReceive
  <2>1. \/ UNCHANGED <<pc, at>>
        \/ Goto(Worker, "copy") /\ \A q \in Procs \ {Worker} : at'[q] = at[q]
    BY <1>1 DEF TaskReceive, SafetyInv, TypeOK, ArgsTypeOK
  <2> QED
    BY <1>0, <1>1, <2>1, MoveFailure, FailureFrame DEF TaskReceive, rows, store, FailingPC
<1>2. CASE TaskFailed
  <2>1. at[Worker] \in Uploads /\ Spared(at[Worker])
    BY <1>0, <1>2 DEF TaskFailed, SafetyInv, TypeOK, ArgsMatchPc, FailureInv, FailingPC
  <2> QED
    BY <1>0, <1>2, <2>1, StatusFailure, DoneFailure DEF TaskFailed, store
<1>3. CASE TaskSuccess
  <2>1. at[Worker] \in Uploads
    BY <1>0, <1>3 DEF TaskSuccess, SafetyInv, TypeOK, ArgsMatchPc
  <2> QED
    BY <1>0, <1>3, <2>1, StatusFailure, MoveFailure DEF TaskSuccess, store, args, FailingPC
<1>4. CASE TaskCleanup
  BY <1>0, <1>4, DoneFailure DEF TaskCleanup, rows, store
<1>5. CASE UploadPartCopy(Worker) \/ CompleteMultipartUpload(Worker)
  BY <1>0, <1>5, CopyFailure, AssembleFailure
<1>6. CASE DbError(Worker) \/ DbAnswerLost(Worker) \/ DbErrorIgnored(Worker)
  BY <1>0, <1>6, FaultFailure
<1> QED
  BY <1>1, <1>2, <1>3, <1>4, <1>5, <1>6 DEF WorkerStep

\* No step makes an upload Failed that has lost chunks and has no merged object.
LEMMA FailureStep == SafetyInv /\ FailureInv /\ [Next]_vars => FailureInv'
<1> SUFFICES ASSUME SafetyInv, FailureInv, [Next]_vars PROVE FailureInv'
  OBVIOUS
<1>0. SparesKept
  BY SparesStep
<1>1. ASSUME NEW p \in Requests, AcceptRequest(p) PROVE FailureInv'
  <2>1. p \in Procs
    BY DEF Procs
  <2>2. \A q \in Procs \ {p} : at'[q] = at[q]
    BY <1>1 DEF AcceptRequest, InitFind, PresignFind, CompleteFind, MergeFind, PublishFind,
                Accept, SafetyInv, TypeOK, ArgsTypeOK
  <2>3. UNCHANGED status
    BY <1>1 DEF AcceptRequest, InitFind, PresignFind, CompleteFind, MergeFind, PublishFind,
                Accept, rows, store
  <2>4. \E l : Goto(p, l) /\ l \notin FailingPC
    BY <1>1 DEF AcceptRequest, InitFind, PresignFind, CompleteFind, MergeFind, PublishFind,
                Accept, FailingPC
  <2> QED
    BY <1>0, <2>1, <2>2, <2>3, <2>4, MoveFailure
<1>2. ASSUME NEW p \in Requests, RequestStep(p) PROVE FailureInv'
  BY <1>0, <1>2, RequestFailure
<1>3. CASE WorkerStep
  BY <1>0, <1>3, WorkerFailure
<1>4. CASE CleanerStep \/ (\E d \in Spawned : DeleteChunk(d)) \/ PutChunk
  BY <1>0, <1>4, FailureFrame DEF CleanerStep, CleanupReceive, CleanupTick, ProcessNext,
                            DeleteChunk, PutChunk, rows, store, args
<1>5. CASE TranscodeOutcome
  <2>1. PICK u \in videos, s \in {"Success", "Failed"} : UpdateStatusByUUID(u, s)
    BY <1>5 DEF TranscodeOutcome
  <2>2. u \in Uploads /\ Spared(u)
    BY DEF SafetyInv, TypeOK, RowsTypeOK, RowsSafe, SuccessIsMerged, Spared
  <2> QED
    BY <1>0, <1>5, <2>1, <2>2, StatusFailure, FailureFrame DEF TranscodeOutcome, store, args
<1>6. CASE Crash
  BY <1>0, <1>6, FailureFrame DEF Crash, FailingPC, rows
<1>7. CASE UNCHANGED vars
  BY <1>0, <1>7, FailureFrame DEF vars, rows, store, args
<1> QED
  BY <1>1, <1>2, <1>3, <1>4, <1>5, <1>6, <1>7 DEF Next

\* Whatever fails, whoever crashes and however handlers, worker and cleanup
\* interleave, an upload that reads Failed has its merged object or, where the store
\* can fail, every chunk of it.
THEOREM FailedAlwaysSpurious == Spec => []FailedIsSpurious
<1>1. Init => FailureInv
  BY DEF Init, FailureInv, FailedIsSpurious, FailingPC
<1>2. SafetyInv /\ FailureInv /\ [Next]_vars => FailureInv'
  BY FailureStep
<1>3. FailureInv => FailedIsSpurious
  BY DEF FailureInv
<1> QED
  BY <1>1, <1>2, <1>3, SafetyInvHolds, PTL DEF Spec
=============================================================================
