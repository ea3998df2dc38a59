------------------------ MODULE UploadPipelineTypes -------------------------
(***************************************************************************)
(* Proof that UploadPipeline keeps its types and its capacities, for every *)
(* value of its constants: every number of users, uploads, chunks, requests*)
(* and spawned goroutines, every queue and batch size, with or without     *)
(* faults.                                                                 *)
(***************************************************************************)
EXTENDS UploadPipeline, FiniteSetTheorems, SequenceTheorems, TLAPS

-----------------------------------------------------------------------------
(* Sequences.                                                              *)

\* Appending to a queue adds one entry, and nothing else, to its range.
LEMMA AppendRange ==
    ASSUME NEW S, NEW s \in Seq(S), NEW e \in S
    PROVE  /\ Append(s, e) \in Seq(S)
           /\ Len(Append(s, e)) = Len(s) + 1
           /\ Range(Append(s, e)) = Range(s) \cup {e}
<1>1. Append(s, e) \in Seq(S) /\ Len(Append(s, e)) = Len(s) + 1
  BY AppendProperties
<1>2. ASSUME NEW x
      PROVE  x \in Range(Append(s, e)) <=> x \in Range(s) \cup {e}
  BY AppendProperties DEF Range
<1> QED
  BY <1>1, <1>2

\* Receiving from a queue splits its range into the head and the rest.
LEMMA TailRange ==
    ASSUME NEW S, NEW s \in Seq(S), s # <<>>
    PROVE  /\ Tail(s) \in Seq(S)
           /\ Len(Tail(s)) = Len(s) - 1
           /\ Head(s) \in S
           /\ Range(s) = Range(Tail(s)) \cup {Head(s)}
<1>1. /\ Tail(s) \in Seq(S) /\ Len(Tail(s)) = Len(s) - 1
      /\ Head(s) \in S /\ Len(s) \in Nat \ {0}
  BY HeadTailProperties, EmptySeq
<1>2. DOMAIN s = 1 .. Len(s) /\ DOMAIN Tail(s) = 1 .. Len(s) - 1
  BY <1>1
<1>3. \A i \in 1 .. Len(s) - 1 : Tail(s)[i] = s[i + 1]
  BY <1>1, HeadTailProperties
<1>4. Head(s) = s[1]
  BY <1>1
<1>5. ASSUME NEW i \in DOMAIN s
      PROVE  s[i] \in Range(Tail(s)) \cup {Head(s)}
  <2>1. CASE i = 1
    BY <2>1, <1>4
  <2>2. CASE i # 1
    <3>1. i - 1 \in 1 .. Len(s) - 1
      BY <2>2, <1>1, <1>2
    <3>2. Tail(s)[i - 1] = s[i]
      BY <3>1, <1>3
    <3> QED
      BY <3>1, <3>2, <1>2 DEF Range
  <2> QED
    BY <2>1, <2>2
<1>6. ASSUME NEW i \in DOMAIN Tail(s)
      PROVE  Tail(s)[i] \in Range(s)
  BY <1>1, <1>2, <1>3 DEF Range
<1> QED
  BY <1>1, <1>2, <1>4, <1>5, <1>6 DEF Range

\* The range of a queue only holds what may be queued.
LEMMA SeqRange ==
    ASSUME NEW S, NEW s \in Seq(S)
    PROVE  Len(s) \in Nat /\ Range(s) \subseteq S
BY DEF Range

\* An empty queue.
LEMMA EmptyRange == (\A S : <<>> \in Seq(S)) /\ Len(<<>>) = 0 /\ Range(<<>>) = {}
BY DEF Range

-----------------------------------------------------------------------------
(* What the building blocks of the actions do to the types.                *)

ControlTypeOK == PcTypeOK /\ ArgsTypeOK /\ ArgsMatchPc

\* A process that returns is left with its initial local variables.
LEMMA DoneType ==
    ASSUME TypeOK, NEW p \in Procs, Done(p)
    PROVE  ControlTypeOK'
<1>1. PcTypeOK'
  BY ProcessesAssumption DEF TypeOK, PcTypeOK, Done, Goto, Procs, RequestPC, WorkerPC
<1>2. ArgsTypeOK'
  BY SizesAssumption DEF TypeOK, ArgsTypeOK, Done, Index, UploadStatus
<1>3. ArgsMatchPc'
  BY DEF TypeOK, PcTypeOK, ArgsTypeOK, ArgsMatchPc, Done, Goto, PresignPC, CompletePC
<1> QED
  BY <1>1, <1>2, <1>3 DEF ControlTypeOK

\* A request that goes on to a control point where its arguments fit.
LEMMA GotoType ==
    ASSUME TypeOK, NEW p \in Requests, NEW l \in RequestPC \ {"idle", "init.create"},
           Goto(p, l), UNCHANGED args, at[p] \in Uploads,
           l \in PresignPC \cup CompletePC => of[p] \in Uploads,
           seen' = seen, cdone' \in [Procs -> SUBSET Index]
    PROVE  ControlTypeOK'
<1>1. PcTypeOK'
  BY ProcessesAssumption DEF TypeOK, PcTypeOK, Goto, Procs
<1>2. ArgsTypeOK'
  BY DEF TypeOK, ArgsTypeOK, args
<1>3. ArgsMatchPc'
  BY DEF TypeOK, PcTypeOK, ArgsTypeOK, ArgsMatchPc, Goto, args
<1> QED
  BY <1>1, <1>2, <1>3 DEF ControlTypeOK

\* Moving the worker to another of its control points keeps the types.
LEMMA WorkerGotoType ==
    ASSUME TypeOK, NEW l \in WorkerPC \ {"idle"}, Goto(Worker, l),
           UNCHANGED <<user, want, at, of, snapshot>>,
           at[Worker] \in Uploads, idx' \in [Procs -> Index]
    PROVE  ControlTypeOK'
<1>1. PcTypeOK'
  BY ProcessesAssumption DEF TypeOK, PcTypeOK, Goto, Procs
<1>2. ArgsTypeOK'
  BY DEF TypeOK, ArgsTypeOK, snapshot
<1>3. ArgsMatchPc'
  BY DEF TypeOK, PcTypeOK, ArgsTypeOK, ArgsMatchPc, Goto, WorkerPC, PresignPC,
         CompletePC, CopyPC, Procs
<1> QED
  BY <1>1, <1>2, <1>3 DEF ControlTypeOK

\* Accepting a request keeps the types, when its first control point fits its
\* arguments.
LEMMA AcceptType ==
    ASSUME TypeOK, NEW p \in Requests, NEW l \in RequestPC \ {"idle", "init.create"},
           NEW x \in Users, NEW u \in Uploads, NEW c \in Uploads \cup {NoUpload},
           NEW i \in Index, l \in PresignPC \cup CompletePC => c \in Uploads,
           Accept(p, l, x, u, c, i)
    PROVE  TypeOK'
<1>1. PcTypeOK'
  BY ProcessesAssumption DEF TypeOK, PcTypeOK, Accept, Goto, Procs
<1>2. ArgsTypeOK'
  BY DEF TypeOK, RowsTypeOK, ArgsTypeOK, Accept
<1>3. ArgsMatchPc'
  BY DEF TypeOK, PcTypeOK, ArgsTypeOK, ArgsMatchPc, Accept, Goto
<1>4. RowsTypeOK' /\ StoreTypeOK' /\ QueuesTypeOK'
  BY DEF Accept, TypeOK, RowsTypeOK, StoreTypeOK, QueuesTypeOK, rows, store, cleanup
<1> QED
  BY <1>1, <1>2, <1>3, <1>4 DEF TypeOK

\* The status column, written by hand-over of a whole value.
LEMMA StatusType ==
    ASSUME TypeOK, NEW u \in Uploads, NEW s \in UploadStatus, UpdateStatusByUUID(u, s),
           UNCHANGED <<owner, file, chunk, videos>>
    PROVE  RowsTypeOK'
BY DEF TypeOK, RowsTypeOK, UpdateStatusByUUID

\* A write of one chunk's status keeps the type of the table.
LEMMA ChunkType ==
    ASSUME TypeOK, NEW u \in Uploads, NEW i \in Index, NEW s \in ChunkStatus,
           UpdateChunkStatusByUUID(u, i, s), UNCHANGED <<status, owner, file, videos>>
    PROVE  RowsTypeOK'
BY DEF TypeOK, RowsTypeOK, UpdateChunkStatusByUUID

\* The two sends keep the queues within their capacity.
LEMMA EnqueueMerge ==
    ASSUME TypeOK, NEW u \in Uploads, EnqueueMergeTask(u)
    PROVE  /\ mergeChan' \in Seq(Uploads)
           /\ Len(mergeChan') <= MergeQueueSize
           /\ Range(mergeChan') \subseteq Range(mergeChan) \cup {u}
BY AppendRange, SeqRange, SizesAssumption DEF TypeOK, QueuesTypeOK, EnqueueMergeTask

\* A cleanup request keeps the types: it enters the queue, or a free goroutine.
LEMMA EnqueueCleanup ==
    ASSUME TypeOK, NEW u \in Uploads, EnqueueChunkCleanup(u)
    PROVE  /\ cleanupChan' \in Seq(Uploads)
           /\ Len(cleanupChan') <= CleanupQueueSize
           /\ delAt' \in [Deleters -> Uploads \cup {NoUpload}]
           /\ Range(cleanupChan') \subseteq Range(cleanupChan) \cup {u}
           /\ \A d \in Deleters : delAt'[d] \in {delAt[d], u}
<1>1. /\ cleanupChan \in Seq(Uploads) /\ Len(cleanupChan) \in Nat
      /\ Len(cleanupChan) <= CleanupQueueSize /\ CleanupQueueSize \in Nat
      /\ delAt \in [Deleters -> Uploads \cup {NoUpload}]
  BY SeqRange, SizesAssumption DEF TypeOK, QueuesTypeOK
<1>2. CASE /\ Len(cleanupChan) < CleanupQueueSize
           /\ cleanupChan' = Append(cleanupChan, u)
           /\ UNCHANGED delAt
  BY <1>1, <1>2, AppendRange
<1>3. CASE /\ UNCHANGED cleanupChan
           /\ \E d \in Spawned : delAt' = [delAt EXCEPT ![d] = u]
  BY <1>1, <1>3 DEF Deleters
<1> QED
  BY <1>2, <1>3 DEF EnqueueChunkCleanup

-----------------------------------------------------------------------------
(* TypeOK is kept by every action.                                         *)

\* InitFind keeps the types.
LEMMA InitFindType == ASSUME TypeOK, NEW p \in Requests, InitFind(p) PROVE TypeOK'
<1>1. PICK x \in Users, f \in Files :
         /\ user' = [user EXCEPT ![p] = x]
         /\ want' = [want EXCEPT ![p] = f]
         /\ \/ \E u \in Uploads :
                 /\ at' = [at EXCEPT ![p] = u]
                 /\ seen' = [seen EXCEPT ![p] = status[u]]
                 /\ Goto(p, "init.chunks")
            \/ /\ Goto(p, "init.create")
               /\ UNCHANGED <<at, seen>>
  BY DEF InitFind
<1>2. PcTypeOK'
  BY <1>1, ProcessesAssumption DEF TypeOK, PcTypeOK, Goto, Procs, RequestPC, InitPC
<1>3. ArgsTypeOK'
  <2>1. \A u \in Uploads : status[u] \in UploadStatus
    BY DEF TypeOK, RowsTypeOK
  <2>2. user' \in [Procs -> Users \cup {NoUser}] /\ want' \in [Procs -> Files \cup {NoFile}]
    BY <1>1 DEF TypeOK, ArgsTypeOK
  <2>3. at' \in [Procs -> Uploads \cup {NoUpload}] /\ seen' \in [Procs -> UploadStatus]
    BY <1>1, <2>1 DEF TypeOK, ArgsTypeOK
  <2> QED
    BY <2>2, <2>3 DEF InitFind, TypeOK, ArgsTypeOK
<1>4. ArgsMatchPc'
  BY <1>1 DEF InitFind, TypeOK, PcTypeOK, ArgsTypeOK, ArgsMatchPc, Goto, Procs,
              PresignPC, CompletePC
<1>5. RowsTypeOK' /\ StoreTypeOK' /\ QueuesTypeOK'
  BY DEF InitFind, TypeOK, RowsTypeOK, StoreTypeOK, QueuesTypeOK, rows, store, cleanup
<1> QED
  BY <1>2, <1>3, <1>4, <1>5 DEF TypeOK

\* PresignFind keeps the types.
LEMMA PresignFindType == ASSUME TypeOK, NEW p \in Requests, PresignFind(p) PROVE TypeOK'
<1>1. PICK x \in Users, u \in Uploads, c \in Uploads, i \in Index :
         Accept(p, "presign.chunk", x, u, c, i)
  BY DEF PresignFind
<1> QED
  BY <1>1, AcceptType DEF RequestPC, PresignPC

\* CompleteFind keeps the types.
LEMMA CompleteFindType == ASSUME TypeOK, NEW p \in Requests, CompleteFind(p) PROVE TypeOK'
<1>1. PICK x \in Users, u \in Uploads, c \in Uploads, i \in Index :
         Accept(p, "complete.chunk", x, u, c, i)
  BY DEF CompleteFind
<1> QED
  BY <1>1, AcceptType DEF RequestPC, CompletePC

\* MergeFind keeps the types.
LEMMA MergeFindType == ASSUME TypeOK, NEW p \in Requests, MergeFind(p) PROVE TypeOK'
<1>1. PICK x \in Users, u \in Uploads : Accept(p, "merge.count", x, u, NoUpload, 0)
  BY DEF MergeFind
<1>2. 0 \in Index
  BY SizesAssumption DEF Index
<1> QED
  BY <1>1, <1>2, AcceptType DEF RequestPC, MergePC, PresignPC, CompletePC

\* PublishFind keeps the types.
LEMMA PublishFindType == ASSUME TypeOK, NEW p \in Requests, PublishFind(p) PROVE TypeOK'
<1>1. PICK x \in Users, u \in Uploads, l \in {"publish.create", "publish.count"} :
         Accept(p, l, x, u, NoUpload, 0)
  BY DEF PublishFind
<1>2. 0 \in Index
  BY SizesAssumption DEF Index
<1>3. l \in RequestPC \ {"idle", "init.create"} /\ l \notin PresignPC \cup CompletePC
  BY DEF RequestPC, PublishPC, PresignPC, CompletePC
<1> QED
  BY <1>1, <1>2, <1>3, AcceptType

\* InitChunks keeps the types.
LEMMA InitChunksType == ASSUME TypeOK, NEW p \in Requests, InitChunks(p) PROVE TypeOK'
<1>1. at[p] \in Uploads /\ cdone' \in [Procs -> SUBSET Index]
  BY DEF InitChunks, TypeOK, ArgsTypeOK, ArgsMatchPc, Procs, CompletedChunks
<1>2. ControlTypeOK'
  BY <1>1, GotoType DEF InitChunks, RequestPC, InitPC, PresignPC, CompletePC
<1>3. RowsTypeOK' /\ StoreTypeOK' /\ QueuesTypeOK'
  BY DEF InitChunks, TypeOK, RowsTypeOK, StoreTypeOK, QueuesTypeOK, rows, store, cleanup
<1> QED
  BY <1>2, <1>3 DEF TypeOK, ControlTypeOK

\* InitCreate keeps the types.
LEMMA InitCreateType == ASSUME TypeOK, NEW p \in Requests, InitCreate(p) PROVE TypeOK'
<1>1. CASE Done(p) /\ UNCHANGED rows
  <2>1. RowsTypeOK' /\ StoreTypeOK' /\ QueuesTypeOK'
    BY <1>1 DEF InitCreate, TypeOK, RowsTypeOK, StoreTypeOK, QueuesTypeOK, rows, store, cleanup
  <2> QED
    BY <1>1, <2>1, DoneType DEF Procs, TypeOK, ControlTypeOK
<1>2. ASSUME NEW u \in Uploads, BatchCreate(u, user[p], want[p]),
             at' = [at EXCEPT ![p] = u], seen' = [seen EXCEPT ![p] = "Init"],
             Goto(p, "init.refresh"), UNCHANGED <<user, want, of, idx, cdone>>
      PROVE  TypeOK'
  <2>1. user[p] \in Users /\ want[p] \in Files
    BY DEF InitCreate, TypeOK, ArgsMatchPc, Procs
  <2>2. RowsTypeOK'
    BY <1>2, <2>1 DEF InitCreate, TypeOK, RowsTypeOK, BatchCreate, UploadStatus, ChunkStatus
  <2>3. PcTypeOK'
    BY <1>2, ProcessesAssumption DEF TypeOK, PcTypeOK, Goto, Procs, RequestPC, InitPC
  <2>4. ArgsTypeOK'
    BY <1>2 DEF TypeOK, ArgsTypeOK, UploadStatus
  <2>5. ArgsMatchPc'
    BY <1>2 DEF TypeOK, PcTypeOK, ArgsTypeOK, ArgsMatchPc, Goto, PresignPC, CompletePC
  <2>6. StoreTypeOK' /\ QueuesTypeOK'
    BY DEF InitCreate, TypeOK, StoreTypeOK, QueuesTypeOK, store, cleanup
  <2> QED
    BY <2>2, <2>3, <2>4, <2>5, <2>6 DEF TypeOK
<1> QED
  BY <1>1, <1>2 DEF InitCreate, rows

\* InitRefresh keeps the types.
LEMMA InitRefreshType == ASSUME TypeOK, NEW p \in Requests, InitRefresh(p) PROVE TypeOK'
<1>1. ControlTypeOK'
  BY DoneType DEF InitRefresh, Procs
<1>2. StoreTypeOK'
  <2>1. PICK fresh \in SUBSET Index : urls' = [urls EXCEPT ![at[p]] = @ \cup fresh]
    BY DEF InitRefresh
  <2>2. at[p] \in Uploads
    BY DEF InitRefresh, TypeOK, ArgsMatchPc, Procs
  <2> QED
    BY <2>1, <2>2 DEF InitRefresh, TypeOK, StoreTypeOK
<1>3. RowsTypeOK' /\ QueuesTypeOK'
  BY DEF InitRefresh, TypeOK, RowsTypeOK, QueuesTypeOK, rows, cleanup
<1> QED
  BY <1>1, <1>2, <1>3 DEF TypeOK, ControlTypeOK

\* Reading the chunk of a presign or complete request keeps the types.
LEMMA ReadChunkType ==
    ASSUME TypeOK, NEW p \in Requests, pc[p] \in PresignPC \cup CompletePC,
           NEW l \in PresignPC \cup CompletePC, ReadChunk(p, l)
    PROVE  TypeOK'
<1>1. at[p] \in Uploads /\ of[p] \in Uploads
  BY DEF TypeOK, ArgsMatchPc, Procs, PresignPC, CompletePC
<1>2. CASE Done(p)
  BY <1>2, DoneType DEF ReadChunk, Procs, TypeOK, ControlTypeOK, RowsTypeOK, StoreTypeOK,
                        QueuesTypeOK, rows, store, cleanup
<1>3. CASE /\ Goto(p, l)
           /\ cdone' = [cdone EXCEPT ![p] = CompletedChunks(of[p]) \cap {idx[p]}]
           /\ UNCHANGED <<args, seen>>
  <2>1. cdone' \in [Procs -> SUBSET Index]
    BY <1>3 DEF TypeOK, ArgsTypeOK, CompletedChunks
  <2>2. l \in RequestPC \ {"idle", "init.create"}
    BY DEF RequestPC, PresignPC, CompletePC
  <2>3. ControlTypeOK'
    BY <1>1, <1>3, <2>1, <2>2, GotoType
  <2> QED
    BY <2>3 DEF ReadChunk, TypeOK, ControlTypeOK, RowsTypeOK, StoreTypeOK,
                QueuesTypeOK, rows, store, cleanup
<1> QED
  BY <1>2, <1>3 DEF ReadChunk

\* PresignChunk keeps the types.
LEMMA PresignChunkType == ASSUME TypeOK, NEW p \in Requests, PresignChunk(p) PROVE TypeOK'
BY ReadChunkType DEF PresignChunk, PresignPC

\* CompleteChunk keeps the types.
LEMMA CompleteChunkType == ASSUME TypeOK, NEW p \in Requests, CompleteChunk(p) PROVE TypeOK'
BY ReadChunkType DEF CompleteChunk, CompletePC

\* PresignUploading keeps the types.
LEMMA PresignUploadingType == ASSUME TypeOK, NEW p \in Requests, PresignUploading(p) PROVE TypeOK'
<1>1. ControlTypeOK'
  BY GotoType DEF PresignUploading, TypeOK, ArgsMatchPc, ArgsTypeOK, Procs, RequestPC, PresignPC, CompletePC, snapshot
<1>2. RowsTypeOK'
  BY StatusType DEF PresignUploading, TypeOK, ArgsMatchPc, Procs, UploadStatus
<1>3. StoreTypeOK' /\ QueuesTypeOK'
  BY DEF PresignUploading, TypeOK, StoreTypeOK, QueuesTypeOK, store, cleanup
<1> QED
  BY <1>1, <1>2, <1>3 DEF TypeOK, ControlTypeOK

\* PresignMark keeps the types.
LEMMA PresignMarkType == ASSUME TypeOK, NEW p \in Requests, PresignMark(p) PROVE TypeOK'
<1>1. ControlTypeOK'
  BY DoneType DEF PresignMark, Procs
<1>2. RowsTypeOK'
  BY ChunkType DEF PresignMark, TypeOK, ArgsTypeOK, ArgsMatchPc, Procs, PresignPC, ChunkStatus
<1>3. StoreTypeOK'
  <2>1. idx[p] \in Index
    BY DEF TypeOK, ArgsTypeOK, Procs
  <2> QED
    BY <2>1 DEF PresignMark, TypeOK, StoreTypeOK
<1>4. QueuesTypeOK'
  BY DEF PresignMark, TypeOK, QueuesTypeOK, cleanup
<1> QED
  BY <1>1, <1>2, <1>3, <1>4 DEF TypeOK, ControlTypeOK

\* CompleteHead keeps the types.
LEMMA CompleteHeadType == ASSUME TypeOK, NEW p \in Requests, CompleteHead(p) PROVE TypeOK'
<1>1. ControlTypeOK'
  <2>1. CASE Done(p)
    BY <2>1, DoneType DEF Procs
  <2>2. ASSUME NEW l \in {"complete.count", "complete.mark"},
               Goto(p, l), UNCHANGED <<args, snapshot>>
        PROVE  ControlTypeOK'
    BY <2>2, GotoType DEF CompleteHead, TypeOK, ArgsMatchPc, ArgsTypeOK, Procs, RequestPC,
                          CompletePC, PresignPC, snapshot
  <2> QED
    BY <2>1, <2>2 DEF CompleteHead
<1>2. RowsTypeOK' /\ StoreTypeOK' /\ QueuesTypeOK'
  BY DEF CompleteHead, TypeOK, RowsTypeOK, StoreTypeOK, QueuesTypeOK, rows, store, cleanup
<1> QED
  BY <1>1, <1>2 DEF TypeOK, ControlTypeOK

\* CompleteMark keeps the types.
LEMMA CompleteMarkType == ASSUME TypeOK, NEW p \in Requests, CompleteMark(p) PROVE TypeOK'
<1>1. ControlTypeOK'
  BY GotoType DEF CompleteMark, TypeOK, ArgsMatchPc, ArgsTypeOK, Procs, RequestPC, CompletePC, PresignPC, snapshot
<1>2. RowsTypeOK'
  BY ChunkType DEF CompleteMark, TypeOK, ArgsTypeOK, ArgsMatchPc, Procs, CompletePC, ChunkStatus
<1>3. StoreTypeOK' /\ QueuesTypeOK'
  BY DEF CompleteMark, TypeOK, StoreTypeOK, QueuesTypeOK, store, cleanup
<1> QED
  BY <1>1, <1>2, <1>3 DEF TypeOK, ControlTypeOK

\* CompleteCount keeps the types.
LEMMA CompleteCountType == ASSUME TypeOK, NEW p \in Requests, CompleteCount(p) PROVE TypeOK'
<1>1. ControlTypeOK'
  <2>1. CASE Done(p)
    BY <2>1, DoneType DEF Procs
  <2>2. CASE Goto(p, "complete.merging") /\ UNCHANGED <<args, snapshot>>
    BY <2>2, GotoType DEF CompleteCount, TypeOK, ArgsMatchPc, ArgsTypeOK, Procs, RequestPC, CompletePC, PresignPC, snapshot
  <2> QED
    BY <2>1, <2>2 DEF CompleteCount
<1>2. RowsTypeOK' /\ StoreTypeOK' /\ QueuesTypeOK'
  BY DEF CompleteCount, TypeOK, RowsTypeOK, StoreTypeOK, QueuesTypeOK, rows, store, cleanup
<1> QED
  BY <1>1, <1>2 DEF TypeOK, ControlTypeOK

\* CompleteMerging keeps the types.
LEMMA CompleteMergingType == ASSUME TypeOK, NEW p \in Requests, CompleteMerging(p) PROVE TypeOK'
<1>1. ControlTypeOK'
  BY DoneType DEF CompleteMerging, Procs
<1>2. RowsTypeOK'
  BY StatusType DEF CompleteMerging, TypeOK, ArgsMatchPc, Procs, UploadStatus
<1>3. StoreTypeOK' /\ QueuesTypeOK'
  BY DEF CompleteMerging, TypeOK, StoreTypeOK, QueuesTypeOK, store, cleanup
<1> QED
  BY <1>1, <1>2, <1>3 DEF TypeOK, ControlTypeOK

\* MergeCount keeps the types.
LEMMA MergeCountType == ASSUME TypeOK, NEW p \in Requests, MergeCount(p) PROVE TypeOK'
<1>1. ControlTypeOK'
  <2>1. CASE Done(p)
    BY <2>1, DoneType DEF Procs
  <2>2. CASE Goto(p, "merge.merging") /\ UNCHANGED <<args, snapshot>>
    BY <2>2, GotoType DEF MergeCount, TypeOK, ArgsMatchPc, ArgsTypeOK, Procs, RequestPC, MergePC, PresignPC, CompletePC, snapshot
  <2> QED
    BY <2>1, <2>2 DEF MergeCount
<1>2. RowsTypeOK' /\ StoreTypeOK' /\ QueuesTypeOK'
  BY DEF MergeCount, TypeOK, RowsTypeOK, StoreTypeOK, QueuesTypeOK, rows, store, cleanup
<1> QED
  BY <1>1, <1>2 DEF TypeOK, ControlTypeOK

\* MergeMerging keeps the types.
LEMMA MergeMergingType == ASSUME TypeOK, NEW p \in Requests, MergeMerging(p) PROVE TypeOK'
<1>1. ControlTypeOK'
  BY GotoType DEF MergeMerging, TypeOK, ArgsMatchPc, ArgsTypeOK, Procs, RequestPC, MergePC, PresignPC, CompletePC, snapshot
<1>2. RowsTypeOK'
  BY StatusType DEF MergeMerging, TypeOK, ArgsMatchPc, Procs, UploadStatus
<1>3. StoreTypeOK' /\ QueuesTypeOK'
  BY DEF MergeMerging, TypeOK, StoreTypeOK, QueuesTypeOK, store, cleanup
<1> QED
  BY <1>1, <1>2, <1>3 DEF TypeOK, ControlTypeOK

\* MergeEnqueue keeps the types.
LEMMA MergeEnqueueType == ASSUME TypeOK, NEW p \in Requests, MergeEnqueue(p) PROVE TypeOK'
<1>1. ControlTypeOK'
  BY DoneType DEF MergeEnqueue, Procs
<1>2. QueuesTypeOK'
  BY EnqueueMerge DEF MergeEnqueue, TypeOK, QueuesTypeOK, ArgsMatchPc, Procs, cleanup
<1>3. RowsTypeOK' /\ StoreTypeOK'
  BY DEF MergeEnqueue, TypeOK, RowsTypeOK, StoreTypeOK, rows, store
<1> QED
  BY <1>1, <1>2, <1>3 DEF TypeOK, ControlTypeOK

\* PublishCount keeps the types.
LEMMA PublishCountType == ASSUME TypeOK, NEW p \in Requests, PublishCount(p) PROVE TypeOK'
<1>1. ControlTypeOK'
  <2>1. CASE Done(p)
    BY <2>1, DoneType DEF Procs
  <2>2. ASSUME NEW l \in {"copy", "publish.merging"},
               Goto(p, l), UNCHANGED <<args, snapshot>>
        PROVE  ControlTypeOK'
    BY <2>2, GotoType DEF PublishCount, TypeOK, ArgsMatchPc, ArgsTypeOK, Procs, RequestPC,
                          PublishPC, CopyPC, CompletePC, PresignPC, snapshot
  <2> QED
    BY <2>1, <2>2 DEF PublishCount
<1>2. RowsTypeOK' /\ StoreTypeOK' /\ QueuesTypeOK'
  BY DEF PublishCount, TypeOK, RowsTypeOK, StoreTypeOK, QueuesTypeOK, rows, store, cleanup
<1> QED
  BY <1>1, <1>2 DEF TypeOK, ControlTypeOK

\* PublishMerging keeps the types.
LEMMA PublishMergingType == ASSUME TypeOK, NEW p \in Requests, PublishMerging(p) PROVE TypeOK'
<1>1. ControlTypeOK'
  BY GotoType DEF PublishMerging, TypeOK, ArgsMatchPc, ArgsTypeOK, Procs, RequestPC, CopyPC, PresignPC, CompletePC, snapshot
<1>2. RowsTypeOK'
  BY StatusType DEF PublishMerging, TypeOK, ArgsMatchPc, Procs, UploadStatus
<1>3. StoreTypeOK' /\ QueuesTypeOK'
  BY DEF PublishMerging, TypeOK, StoreTypeOK, QueuesTypeOK, store, cleanup
<1> QED
  BY <1>1, <1>2, <1>3 DEF TypeOK, ControlTypeOK

\* PublishFailed keeps the types.
LEMMA PublishFailedType == ASSUME TypeOK, NEW p \in Requests, PublishFailed(p) PROVE TypeOK'
<1>1. ControlTypeOK'
  BY DoneType DEF PublishFailed, Procs
<1>2. RowsTypeOK'
  BY StatusType DEF PublishFailed, TypeOK, ArgsMatchPc, Procs, UploadStatus
<1>3. StoreTypeOK' /\ QueuesTypeOK'
  BY DEF PublishFailed, TypeOK, StoreTypeOK, QueuesTypeOK, store, cleanup
<1> QED
  BY <1>1, <1>2, <1>3 DEF TypeOK, ControlTypeOK

\* PublishSuccess keeps the types.
LEMMA PublishSuccessType == ASSUME TypeOK, NEW p \in Requests, PublishSuccess(p) PROVE TypeOK'
<1>1. ControlTypeOK'
  BY GotoType DEF PublishSuccess, TypeOK, ArgsMatchPc, ArgsTypeOK, Procs, RequestPC, PublishPC, PresignPC, CompletePC, snapshot
<1>2. RowsTypeOK'
  BY StatusType DEF PublishSuccess, TypeOK, ArgsMatchPc, Procs, UploadStatus
<1>3. StoreTypeOK' /\ QueuesTypeOK'
  BY DEF PublishSuccess, TypeOK, StoreTypeOK, QueuesTypeOK, store, cleanup
<1> QED
  BY <1>1, <1>2, <1>3 DEF TypeOK, ControlTypeOK

\* PublishReread keeps the types.
LEMMA PublishRereadType == ASSUME TypeOK, NEW p \in Requests, PublishReread(p) PROVE TypeOK'
<1>1. ControlTypeOK'
  <2>1. CASE Done(p)
    BY <2>1, DoneType DEF Procs
  <2>2. CASE Goto(p, "publish.create") /\ UNCHANGED <<args, snapshot>>
    BY <2>2, GotoType DEF PublishReread, TypeOK, ArgsMatchPc, ArgsTypeOK, Procs, RequestPC, PublishPC, PresignPC, CompletePC, snapshot
  <2> QED
    BY <2>1, <2>2 DEF PublishReread
<1>2. RowsTypeOK' /\ StoreTypeOK' /\ QueuesTypeOK'
  BY DEF PublishReread, TypeOK, RowsTypeOK, StoreTypeOK, QueuesTypeOK, rows, store, cleanup
<1> QED
  BY <1>1, <1>2 DEF TypeOK, ControlTypeOK

\* PublishCreate keeps the types.
LEMMA PublishCreateType == ASSUME TypeOK, NEW p \in Requests, PublishCreate(p) PROVE TypeOK'
<1>1. ControlTypeOK'
  <2>1. CASE Done(p)
    BY <2>1, DoneType DEF Procs
  <2>2. CASE Goto(p, "publish.cleanup") /\ UNCHANGED <<args, snapshot>>
    BY <2>2, GotoType DEF PublishCreate, TypeOK, ArgsMatchPc, ArgsTypeOK, Procs, RequestPC, PublishPC, PresignPC, CompletePC, snapshot
  <2> QED
    BY <2>1, <2>2 DEF PublishCreate
<1>2. RowsTypeOK'
  BY DEF PublishCreate, TypeOK, RowsTypeOK, ArgsMatchPc, Procs
<1>3. StoreTypeOK' /\ QueuesTypeOK'
  BY DEF PublishCreate, TypeOK, StoreTypeOK, QueuesTypeOK, store, cleanup
<1> QED
  BY <1>1, <1>2, <1>3 DEF TypeOK, ControlTypeOK

\* PublishCleanup keeps the types.
LEMMA PublishCleanupType == ASSUME TypeOK, NEW p \in Requests, PublishCleanup(p) PROVE TypeOK'
<1>1. ControlTypeOK'
  BY DoneType DEF PublishCleanup, Procs
<1>2. QueuesTypeOK'
  BY EnqueueCleanup DEF PublishCleanup, TypeOK, QueuesTypeOK, ArgsMatchPc, Procs
<1>3. RowsTypeOK' /\ StoreTypeOK'
  BY DEF PublishCleanup, TypeOK, RowsTypeOK, StoreTypeOK, rows, store
<1> QED
  BY <1>1, <1>2, <1>3 DEF TypeOK, ControlTypeOK

\* Both callers of MergeChunk: the worker and a publish request.
LEMMA MergeGotoType ==
    ASSUME TypeOK, NEW p \in Procs, pc[p] \in CopyPC,
           NEW l \in CopyPC \cup {AfterMerge(p, TRUE), AfterMerge(p, FALSE)}, Goto(p, l),
           UNCHANGED <<user, want, at, of, snapshot>>, idx' \in [Procs -> Index]
    PROVE  ControlTypeOK'
<1>1. at[p] \in Uploads
  BY DEF TypeOK, ArgsMatchPc, CopyPC
<1>2. CASE p = Worker
  <2>1. l \in WorkerPC \ {"idle"}
    BY <1>2 DEF AfterMerge, WorkerPC, CopyPC
  <2> QED
    BY <1>1, <1>2, <2>1, WorkerGotoType
<1>3. CASE p # Worker
  <2>1. l \in CopyPC \cup PublishPC /\ l \notin {"idle", "init.create"}
    BY <1>3 DEF AfterMerge, PublishPC, CopyPC
  <2>2. PcTypeOK'
    BY <1>3, <2>1, ProcessesAssumption DEF TypeOK, PcTypeOK, Goto, Procs, RequestPC
  <2>3. ArgsTypeOK'
    BY DEF TypeOK, ArgsTypeOK, snapshot
  <2>4. l \notin PresignPC \cup CompletePC
    BY <2>1 DEF CopyPC, PublishPC, PresignPC, CompletePC
  <2>5. ArgsMatchPc'
    BY <1>1, <2>1, <2>4 DEF TypeOK, PcTypeOK, ArgsTypeOK, ArgsMatchPc, Goto
  <2> QED
    BY <2>2, <2>3, <2>5 DEF ControlTypeOK
<1> QED
  BY <1>2, <1>3

\* UploadPartCopy keeps the types.
LEMMA UploadPartCopyType == ASSUME TypeOK, NEW p \in Procs, UploadPartCopy(p) PROVE TypeOK'
<1>1. ControlTypeOK'
  <2>1. idx[p] \in Index /\ 0 \in Index
    BY SizesAssumption DEF TypeOK, ArgsTypeOK, Index
  <2>2. CASE idx[p] + 1 < TotalChunks /\ idx' = [idx EXCEPT ![p] = @ + 1] /\ UNCHANGED pc
    <3>1. idx[p] + 1 \in Index
      BY <2>1, <2>2, SizesAssumption DEF Index
    <3> QED
      BY <2>2, <3>1 DEF UploadPartCopy, TypeOK, ControlTypeOK, PcTypeOK, ArgsTypeOK,
                        ArgsMatchPc, snapshot
  <2>3. ASSUME NEW l \in {"assemble", AfterMerge(p, FALSE)},
               idx' = [idx EXCEPT ![p] = 0], Goto(p, l)
        PROVE  ControlTypeOK'
    BY <2>1, <2>3, MergeGotoType DEF UploadPartCopy, TypeOK, ArgsTypeOK, CopyPC
  <2> QED
    BY <2>2, <2>3 DEF UploadPartCopy
<1>2. RowsTypeOK' /\ StoreTypeOK' /\ QueuesTypeOK'
  BY DEF UploadPartCopy, TypeOK, RowsTypeOK, StoreTypeOK, QueuesTypeOK, rows, store, cleanup
<1> QED
  BY <1>1, <1>2 DEF TypeOK, ControlTypeOK

\* CompleteMultipartUpload keeps the types.
LEMMA CompleteMultipartUploadType == ASSUME TypeOK, NEW p \in Procs, CompleteMultipartUpload(p) PROVE TypeOK'
<1>1. ControlTypeOK'
  <2>1. ASSUME NEW l \in {AfterMerge(p, TRUE), AfterMerge(p, FALSE)}, Goto(p, l)
        PROVE  ControlTypeOK'
    BY <2>1, MergeGotoType DEF CompleteMultipartUpload, TypeOK, ArgsTypeOK, CopyPC, args
  <2> QED
    BY <2>1 DEF CompleteMultipartUpload
<1>2. StoreTypeOK'
  BY DEF CompleteMultipartUpload, TypeOK, StoreTypeOK, ArgsMatchPc
<1>3. RowsTypeOK' /\ QueuesTypeOK'
  BY DEF CompleteMultipartUpload, TypeOK, RowsTypeOK, QueuesTypeOK, rows, cleanup
<1> QED
  BY <1>1, <1>2, <1>3 DEF TypeOK, ControlTypeOK

\* DbError keeps the types.
LEMMA DbErrorType == ASSUME TypeOK, NEW p \in Procs, DbError(p) PROVE TypeOK'
<1>1. ControlTypeOK'
  BY DoneType DEF DbError
<1>2. RowsTypeOK' /\ StoreTypeOK' /\ QueuesTypeOK'
  BY DEF DbError, TypeOK, RowsTypeOK, StoreTypeOK, QueuesTypeOK, rows, store, cleanup
<1> QED
  BY <1>1, <1>2 DEF TypeOK, ControlTypeOK

\* DbAnswerLost keeps the types.
LEMMA DbAnswerLostType == ASSUME TypeOK, NEW p \in Procs, DbAnswerLost(p) PROVE TypeOK'
<1>1. ControlTypeOK'
  BY DoneType DEF DbAnswerLost
<1>2. RowsTypeOK'
  <2>1. CASE pc[p] = "presign.mark"
    <3>1. of[p] \in Uploads /\ idx[p] \in Index
      BY <2>1 DEF TypeOK, ArgsTypeOK, ArgsMatchPc, PresignPC
    <3> QED
      BY <2>1, <3>1, ChunkType DEF DbAnswerLost, ChunkStatus
  <2>2. CASE pc[p] \in {"merge.merging", "task.success"}
    <3>1. at[p] \in Uploads
      BY <2>2 DEF TypeOK, ArgsMatchPc
    <3> QED
      BY <2>2, <3>1, StatusType DEF DbAnswerLost, UploadStatus
  <2>3. CASE pc[p] = "publish.create"
    BY <2>3 DEF DbAnswerLost, TypeOK, RowsTypeOK, ArgsMatchPc
  <2> QED
    BY <2>1, <2>2, <2>3 DEF DbAnswerLost
<1>3. StoreTypeOK' /\ QueuesTypeOK'
  BY DEF DbAnswerLost, TypeOK, StoreTypeOK, QueuesTypeOK, store, cleanup
<1> QED
  BY <1>1, <1>2, <1>3 DEF TypeOK, ControlTypeOK

\* DbErrorIgnored keeps the types.
LEMMA DbErrorIgnoredType == ASSUME TypeOK, NEW p \in Procs, DbErrorIgnored(p) PROVE TypeOK'
<1>1. ControlTypeOK'
  <2>1. CASE Done(p)
    BY <2>1, DoneType
  <2>2. CASE /\ pc[p] \in {"presign.uploading", "publish.merging"}
             /\ Goto(p, IF pc[p] = "presign.uploading" THEN "presign.mark" ELSE "copy")
             /\ UNCHANGED <<args, snapshot>>
    <3>1. p \in Requests
      BY <2>2 DEF TypeOK, PcTypeOK, WorkerPC, Procs
    <3> QED
      BY <2>2, <3>1, GotoType DEF TypeOK, ArgsMatchPc, ArgsTypeOK, Procs, RequestPC,
                                  PresignPC, CopyPC, CompletePC, snapshot
  <2> QED
    BY <2>1, <2>2 DEF DbErrorIgnored
<1>2. RowsTypeOK' /\ StoreTypeOK' /\ QueuesTypeOK'
  BY DEF DbErrorIgnored, TypeOK, RowsTypeOK, StoreTypeOK, QueuesTypeOK, rows, store, cleanup
<1> QED
  BY <1>1, <1>2 DEF TypeOK, ControlTypeOK

\* TaskReceive keeps the types.
LEMMA TaskReceiveType == ASSUME TypeOK, TaskReceive PROVE TypeOK'
<1>1. /\ Head(mergeChan) \in Uploads /\ mergeChan' \in Seq(Uploads)
      /\ Len(mergeChan') <= MergeQueueSize
  BY TailRange, SeqRange, SizesAssumption DEF TaskReceive, TypeOK, QueuesTypeOK
<1>2. PcTypeOK'
  BY ProcessesAssumption DEF TaskReceive, TypeOK, PcTypeOK, Goto, Procs, WorkerPC
<1>3. ArgsTypeOK'
  BY <1>1 DEF TaskReceive, TypeOK, ArgsTypeOK, snapshot
<1>4. ArgsMatchPc'
  BY <1>1 DEF TaskReceive, TypeOK, PcTypeOK, ArgsTypeOK, ArgsMatchPc, Goto, PresignPC,
              CompletePC
<1>5. RowsTypeOK' /\ StoreTypeOK' /\ QueuesTypeOK'
  BY <1>1 DEF TaskReceive, TypeOK, RowsTypeOK, StoreTypeOK, QueuesTypeOK, rows, store, cleanup
<1> QED
  BY <1>2, <1>3, <1>4, <1>5 DEF TypeOK

\* TaskFailed keeps the types.
LEMMA TaskFailedType == ASSUME TypeOK, TaskFailed PROVE TypeOK'
<1>1. ControlTypeOK'
  BY DoneType DEF TaskFailed, Procs
<1>2. RowsTypeOK'
  BY StatusType DEF TaskFailed, TypeOK, ArgsMatchPc, Procs, UploadStatus
<1>3. StoreTypeOK' /\ QueuesTypeOK'
  BY DEF TaskFailed, TypeOK, StoreTypeOK, QueuesTypeOK, store, cleanup
<1> QED
  BY <1>1, <1>2, <1>3 DEF TypeOK, ControlTypeOK

\* TaskSuccess keeps the types.
LEMMA TaskSuccessType == ASSUME TypeOK, TaskSuccess PROVE TypeOK'
<1>1. ControlTypeOK'
  BY WorkerGotoType DEF TaskSuccess, TypeOK, ArgsMatchPc, ArgsTypeOK, Procs, WorkerPC, args
<1>2. RowsTypeOK'
  BY StatusType DEF TaskSuccess, TypeOK, ArgsMatchPc, Procs, UploadStatus
<1>3. StoreTypeOK' /\ QueuesTypeOK'
  BY DEF TaskSuccess, TypeOK, StoreTypeOK, QueuesTypeOK, store, cleanup
<1> QED
  BY <1>1, <1>2, <1>3 DEF TypeOK, ControlTypeOK

\* TaskCleanup keeps the types.
LEMMA TaskCleanupType == ASSUME TypeOK, TaskCleanup PROVE TypeOK'
<1>1. ControlTypeOK'
  BY DoneType DEF TaskCleanup, Procs
<1>2. QueuesTypeOK'
  BY EnqueueCleanup DEF TaskCleanup, TypeOK, QueuesTypeOK, ArgsMatchPc, Procs
<1>3. RowsTypeOK' /\ StoreTypeOK'
  BY DEF TaskCleanup, TypeOK, RowsTypeOK, StoreTypeOK, rows, store
<1> QED
  BY <1>1, <1>2, <1>3 DEF TypeOK, ControlTypeOK

\* CleanupReceive keeps the types.
LEMMA CleanupReceiveType == ASSUME TypeOK, CleanupReceive PROVE TypeOK'
<1> DEFINE b == Append(batch, Head(cleanupChan))
<1>1. /\ b \in Seq(Uploads) /\ Len(b) = Len(batch) + 1 /\ Len(b) \in Nat
      /\ Range(b) \subseteq Uploads
  BY AppendRange, TailRange, SeqRange DEF TypeOK, QueuesTypeOK, CleanupReceive
<1>2. batch' \in Seq(Uploads) /\ Len(batch') < CleanupBatchSize
  BY <1>1, EmptyRange, SizesAssumption DEF CleanupReceive
<1>3. todo' \in SUBSET Uploads
  BY <1>1 DEF CleanupReceive
<1>4. cleanupChan' \in Seq(Uploads) /\ Len(cleanupChan') <= CleanupQueueSize
  BY TailRange, SeqRange, SizesAssumption DEF TypeOK, QueuesTypeOK, CleanupReceive
<1>5. QueuesTypeOK'
  BY <1>2, <1>3, <1>4 DEF TypeOK, QueuesTypeOK, CleanupReceive
<1>6. RowsTypeOK' /\ StoreTypeOK' /\ PcTypeOK' /\ ArgsTypeOK' /\ ArgsMatchPc'
  BY DEF CleanupReceive, TypeOK, RowsTypeOK, StoreTypeOK, PcTypeOK, ArgsTypeOK, ArgsMatchPc, rows,
         store, args, snapshot
<1> QED
  BY <1>5, <1>6 DEF TypeOK

\* CleanupTick keeps the types.
LEMMA CleanupTickType == ASSUME TypeOK, CleanupTick PROVE TypeOK'
<1>1. QueuesTypeOK'
  BY SeqRange, EmptyRange, SizesAssumption DEF CleanupTick, TypeOK, QueuesTypeOK
<1>2. RowsTypeOK' /\ StoreTypeOK' /\ PcTypeOK' /\ ArgsTypeOK' /\ ArgsMatchPc'
  BY DEF CleanupTick, TypeOK, RowsTypeOK, StoreTypeOK, PcTypeOK, ArgsTypeOK, ArgsMatchPc, rows,
         store, args, snapshot
<1> QED
  BY <1>1, <1>2 DEF TypeOK

\* ProcessNext keeps the types.
LEMMA ProcessNextType == ASSUME TypeOK, ProcessNext PROVE TypeOK'
<1>1. QueuesTypeOK'
  BY DEF ProcessNext, TypeOK, QueuesTypeOK
<1>2. RowsTypeOK' /\ StoreTypeOK' /\ PcTypeOK' /\ ArgsTypeOK' /\ ArgsMatchPc'
  BY DEF ProcessNext, TypeOK, RowsTypeOK, StoreTypeOK, PcTypeOK, ArgsTypeOK, ArgsMatchPc, rows,
         store, args, snapshot
<1> QED
  BY <1>1, <1>2 DEF TypeOK

\* DeleteChunk keeps the types.
LEMMA DeleteChunkType == ASSUME TypeOK, NEW d \in Deleters, DeleteChunk(d) PROVE TypeOK'
<1>1. delIdx \in [Deleters -> Index] /\ 0 \in Index
  BY SizesAssumption DEF TypeOK, QueuesTypeOK, Index
<1>2. ASSUME delIdx[d] + 1 < TotalChunks, delIdx' = [delIdx EXCEPT ![d] = @ + 1],
             UNCHANGED delAt
      PROVE  QueuesTypeOK'
  <2>1. delIdx[d] + 1 \in Index
    BY <1>1, <1>2, SizesAssumption DEF Index
  <2> QED
    BY <1>1, <1>2, <2>1 DEF DeleteChunk, TypeOK, QueuesTypeOK
<1>3. ASSUME delIdx' = [delIdx EXCEPT ![d] = 0], delAt' = [delAt EXCEPT ![d] = NoUpload]
      PROVE  QueuesTypeOK'
  BY <1>1, <1>3 DEF DeleteChunk, TypeOK, QueuesTypeOK
<1>4. StoreTypeOK'
  BY DEF DeleteChunk, TypeOK, StoreTypeOK
<1>5. RowsTypeOK' /\ ControlTypeOK'
  BY DEF DeleteChunk, TypeOK, RowsTypeOK, ControlTypeOK, PcTypeOK, ArgsTypeOK, ArgsMatchPc,
         rows, args, snapshot
<1> QED
  BY <1>2, <1>3, <1>4, <1>5 DEF DeleteChunk, TypeOK, ControlTypeOK

\* PutChunk keeps the types.
LEMMA PutChunkType == ASSUME TypeOK, PutChunk PROVE TypeOK'
<1>1. StoreTypeOK'
  BY DEF PutChunk, TypeOK, StoreTypeOK
<1>2. RowsTypeOK' /\ QueuesTypeOK' /\ ControlTypeOK'
  BY DEF PutChunk, TypeOK, RowsTypeOK, QueuesTypeOK, ControlTypeOK, PcTypeOK, ArgsTypeOK,
         ArgsMatchPc, rows, args, snapshot, cleanup
<1> QED
  BY <1>1, <1>2 DEF TypeOK, ControlTypeOK

\* TranscodeOutcome keeps the types.
LEMMA TranscodeOutcomeType == ASSUME TypeOK, TranscodeOutcome PROVE TypeOK'
<1>1. RowsTypeOK'
  BY StatusType DEF TranscodeOutcome, TypeOK, RowsTypeOK, UploadStatus
<1>2. StoreTypeOK' /\ QueuesTypeOK' /\ ControlTypeOK'
  BY DEF TranscodeOutcome, TypeOK, StoreTypeOK, QueuesTypeOK, ControlTypeOK, PcTypeOK,
         ArgsTypeOK, ArgsMatchPc, store, args, snapshot, cleanup
<1> QED
  BY <1>1, <1>2 DEF TypeOK, ControlTypeOK

\* Crash keeps the types.
LEMMA CrashType == ASSUME TypeOK, Crash PROVE TypeOK'
<1>1. RowsTypeOK' /\ StoreTypeOK'
  BY DEF Crash, TypeOK, RowsTypeOK, StoreTypeOK, rows, store
<1>2. ControlTypeOK'
  BY SizesAssumption DEF Crash, ControlTypeOK, PcTypeOK, ArgsTypeOK, ArgsMatchPc, RequestPC,
                         WorkerPC, Procs, Index, UploadStatus, PresignPC, CompletePC
<1>3. QueuesTypeOK'
  BY EmptyRange, SizesAssumption DEF Crash, QueuesTypeOK, Index
<1> QED
  BY <1>1, <1>2, <1>3 DEF TypeOK, ControlTypeOK

\* The initial state has the types.
LEMMA InitType == Init => TypeOK
<1> SUFFICES ASSUME Init PROVE TypeOK
  OBVIOUS
<1>1. RowsTypeOK /\ StoreTypeOK
  BY DEF Init, RowsTypeOK, StoreTypeOK, UploadStatus, ChunkStatus
<1>2. ControlTypeOK
  BY SizesAssumption DEF Init, ControlTypeOK, PcTypeOK, ArgsTypeOK, ArgsMatchPc, RequestPC,
                         WorkerPC, Procs, Index, UploadStatus, PresignPC, CompletePC
<1>3. QueuesTypeOK
  BY EmptyRange, SizesAssumption DEF Init, QueuesTypeOK, Index
<1> QED
  BY <1>1, <1>2, <1>3 DEF TypeOK, ControlTypeOK

\* Every step keeps the types.
LEMMA TypeStep == TypeOK /\ [Next]_vars => TypeOK'
<1> SUFFICES ASSUME TypeOK, [Next]_vars PROVE TypeOK'
  OBVIOUS
<1>1. ASSUME NEW p \in Requests, AcceptRequest(p)
      PROVE  TypeOK'
  BY <1>1, InitFindType, PresignFindType, CompleteFindType, MergeFindType,
           PublishFindType DEF AcceptRequest
<1>2. ASSUME NEW p \in Requests, RequestStep(p)
      PROVE  TypeOK'
  <2>1. p \in Procs
    BY DEF Procs
  <2> QED
    BY <1>2, <2>1, InitChunksType, InitCreateType, InitRefreshType, PresignChunkType,
       PresignUploadingType, PresignMarkType, CompleteChunkType, CompleteHeadType,
       CompleteMarkType, CompleteCountType, CompleteMergingType, MergeCountType,
       MergeMergingType, MergeEnqueueType, PublishCountType, PublishMergingType,
       PublishFailedType, PublishSuccessType, PublishRereadType, PublishCreateType,
       PublishCleanupType, UploadPartCopyType, CompleteMultipartUploadType, DbErrorType,
       DbAnswerLostType, DbErrorIgnoredType
    DEF RequestStep
<1>3. CASE WorkerStep
  <2>1. Worker \in Procs
    BY DEF Procs
  <2> QED
    BY <1>3, <2>1, TaskReceiveType, TaskFailedType, TaskSuccessType, TaskCleanupType,
       UploadPartCopyType, CompleteMultipartUploadType, DbErrorType, DbAnswerLostType,
       DbErrorIgnoredType
    DEF WorkerStep
<1>4. CASE CleanerStep \/ \E d \in Spawned : DeleteChunk(d)
  BY <1>4, CleanupReceiveType, CleanupTickType, ProcessNextType, DeleteChunkType
  DEF CleanerStep, Deleters
<1>5. CASE PutChunk \/ TranscodeOutcome \/ Crash
  BY <1>5, PutChunkType, TranscodeOutcomeType, CrashType
<1>6. CASE UNCHANGED vars
  BY <1>6 DEF vars, TypeOK, RowsTypeOK, StoreTypeOK, PcTypeOK, ArgsTypeOK, ArgsMatchPc,
              QueuesTypeOK, rows, store, args, snapshot, cleanup
<1> QED
  BY <1>1, <1>2, <1>3, <1>4, <1>5, <1>6 DEF Next

\* TypeOK always holds, for all sizes: in particular the merge queue, the cleanup
\* queue and the cleanup batch never outgrow their capacity, whatever is sent to
\* them (EnqueueMergeTask, EnqueueChunkCleanup, cleanupWorker).
THEOREM TypeCorrect == Spec => []TypeOK
<1>1. Init => TypeOK
  BY InitType
<1>2. TypeOK /\ [Next]_vars => TypeOK'
  BY TypeStep
<1> QED
  BY <1>1, <1>2, PTL DEF Spec
=============================================================================
