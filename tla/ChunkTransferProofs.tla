------------------------- MODULE ChunkTransferProofs --------------------------
(***************************************************************************)
(* Proofs about ChunkTransfer, for any number of chunks, contents,         *)
(* requests and mergers, any lifetime and margin and any workload: the     *)
(* safety invariants, and that it implements DurableUpload.                *)
(***************************************************************************)
EXTENDS ChunkTransfer, SequenceTheorems, TLAPS

-----------------------------------------------------------------------------
(* Types, in parts; an index that is used is one of a chunk, and a merger  *)
(* that completes has a part of every chunk.                               *)

CountTypes ==
    /\ load \in Workloads /\ now \in 0 .. load.ticks
    /\ served \in 0 .. load.requests /\ puts \in 0 .. load.puts /\ begun \in 0 .. load.merges

RowTypes ==
    /\ row \in [Index -> Row]
    /\ ent \in [Requests -> [Index -> Row]]
    /\ size \in [Requests -> Sizes \cup {0}]
    /\ sig \in [Requests -> Int]

ControlTypes ==
    /\ pc \in [Requests -> RequestPC] /\ idx \in [Requests -> 0 .. TotalChunks]
    /\ turn \in [Requests -> [Index -> Int]]
    /\ \A h \in Requests : pc[h] \notin {"idle", "respond"} => idx[h] \in Index

StoreTypes ==
    /\ object \in [Index -> Sizes \cup {None}]
    /\ until \in [Index -> Int]
    /\ checked \in [Index -> Sizes \cup {None}] /\ stirred \subseteq Index

MergedTypes ==
    /\ merged \in {<<>>} \cup [1 .. TotalChunks -> Sizes]
    /\ multipart \subseteq 1 .. MaxMerges /\ lost \subseteq 1 .. MaxMerges

MergerTypes ==
    /\ mpc \in [Mergers -> MergePC] /\ mid \in [Mergers -> 0 .. MaxMerges]
    /\ parts \in [Mergers -> Seq(Sizes)] /\ live \in [Mergers -> BOOLEAN]
    /\ \A m \in Mergers :
          /\ mpc[m] \in {"copy", "complete", "abort"} => mid[m] # 0
          /\ mpc[m] \in {"idle", "queued"} => parts[m] = <<>>
          /\ mpc[m] = "copy" => Len(parts[m]) < TotalChunks
          /\ mpc[m] = "complete" => Len(parts[m]) = TotalChunks

Types == CountTypes /\ RowTypes /\ ControlTypes /\ StoreTypes /\ MergerTypes /\ MergedTypes

LEMMA WorkloadTypes ==
    /\ \A w \in Workloads : /\ w.ticks \in Nat /\ w.requests \in Nat
                            /\ w.puts \in Nat /\ w.merges \in Nat
    /\ TotalChunks \in Nat \ {0} /\ Sizes \subseteq Nat \ {0} /\ MaxMerges \in Nat
    /\ Lifetime \in Nat /\ Margin \in Nat /\ Slack \in Nat /\ Margin < Lifetime
  BY TransferAssumption

LEMMA TypesInit == Init => Types
<1> SUFFICES ASSUME Init PROVE Types OBVIOUS
<1> USE WorkloadTypes DEF Init
<1>1. CountTypes BY DEF CountTypes
<1>2. RowTypes BY DEF RowTypes, Row, NewRow, LinkedRow, None
<1>3. ControlTypes BY DEF ControlTypes, RequestPC, NoTurn, None, Index
<1>4. StoreTypes BY DEF StoreTypes, None
<1>5. MergerTypes BY DEF MergerTypes, MergePC
<1>6. MergedTypes BY DEF MergedTypes
<1> QED BY <1>1, <1>2, <1>3, <1>4, <1>5, <1>6 DEF Types

LEMMA TypesImply == Types => TypeOK
  BY DEF Types, CountTypes, RowTypes, ControlTypes, StoreTypes, MergerTypes, MergedTypes, TypeOK

-----------------------------------------------------------------------------
(* What the steps with more than one outcome do.                           *)

LEMMA StampedRow ==
    ASSUME CountTypes, NEW e \in Row, NEW t \in Int
    PROVE  /\ Stamped(e, t) \in Row
           /\ Stamped(e, t).done = e.done /\ Stamped(e, t).size = e.size
           /\ Stamped(e, t).signed = t /\ Stamped(e, t).expires = now + Lifetime
<1>1. now + Lifetime \in Int BY WorkloadTypes DEF CountTypes
<1>2. ASSUME NEW x \in Int
      PROVE  LET u == [e EXCEPT !.signed = t, !.expires = x]
             IN  u \in Row /\ u.done = e.done /\ u.size = e.size /\ u.signed = t /\ u.expires = x
  BY DEF Row
<1> QED BY <1>1, <1>2 DEF Stamped

\* The next chunk exists, or the response is due.
LEMMA NextChunkTypes ==
    ASSUME ControlTypes, NEW h \in Requests, idx[h] \in Index, NextChunk(h)
    PROVE  /\ pc' \in [Requests -> RequestPC] /\ idx' \in [Requests -> 0 .. TotalChunks]
           /\ pc'[h] \in {"respond", "refresh"} /\ \A g \in Requests \ {h} : pc'[g] = pc[g]
           /\ \A g \in Requests : pc'[g] \notin {"idle", "respond"} => idx'[g] \in Index
<1>1. /\ pc' = [pc EXCEPT ![h] = IF idx[h] + 1 = TotalChunks THEN "respond" ELSE "refresh"]
      /\ idx' = [idx EXCEPT ![h] = idx[h] + 1]
  BY DEF NextChunk
<1>2. pc'[h] \in {"respond", "refresh"} /\ \A g \in Requests \ {h} : pc'[g] = pc[g] /\ idx'[g] = idx[g]
  BY <1>1 DEF ControlTypes
<1>3. idx[h] + 1 \in 0 .. TotalChunks /\ idx'[h] = idx[h] + 1
  BY <1>1, WorkloadTypes DEF ControlTypes, Index
<1>4. pc' \in [Requests -> RequestPC] BY <1>1 DEF ControlTypes, RequestPC
<1>5. idx' \in [Requests -> 0 .. TotalChunks] BY <1>1, <1>3 DEF ControlTypes
<1>6. pc'[h] \notin {"idle", "respond"} => idx'[h] \in Index
  BY <1>1, <1>3, WorkloadTypes DEF ControlTypes, Index
<1> QED BY <1>2, <1>4, <1>5, <1>6 DEF ControlTypes

\* A request that begins.
LEMMA ReadTypes ==
    ASSUME ControlTypes, RowTypes, NEW h \in Requests, NEW op,
           NEW l \in {"refresh", "presign", "head"}, NEW i \in Index,
           NEW z \in Sizes \cup {0}, Read(h, op, l, i, z)
    PROVE  /\ ControlTypes' /\ RowTypes'
           /\ pc[h] = "idle" /\ pc' = [pc EXCEPT ![h] = l] /\ ent' = [ent EXCEPT ![h] = row]
<1> USE DEF Read
<1>1. pc' = [pc EXCEPT ![h] = l] /\ idx' = [idx EXCEPT ![h] = i] OBVIOUS
<1>2. pc' \in [Requests -> RequestPC] BY <1>1 DEF ControlTypes, RequestPC
<1>3. i \in 0 .. TotalChunks BY WorkloadTypes DEF Index
<1>4. idx' \in [Requests -> 0 .. TotalChunks] BY <1>1, <1>3 DEF ControlTypes
<1>5. \A g \in Requests : pc'[g] \notin {"idle", "respond"} => idx'[g] \in Index
  BY <1>1 DEF ControlTypes
<1>6. ControlTypes' BY <1>2, <1>4, <1>5 DEF ControlTypes
<1>7. RowTypes' BY DEF RowTypes
<1> QED BY <1>1, <1>6, <1>7

LEMMA UpdateOutcomes ==
    ASSUME NEW h \in Requests, UpdateUploadChunkPresign(h), idx[h] \in Index
    PROVE  \/ UNCHANGED <<row, ent, turn>>
           \/ /\ row' = [row EXCEPT ![idx[h]] = Stamped(row[idx[h]], sig[h])]
              /\ ent' = [ent EXCEPT ![h] = [ent[h] EXCEPT ![idx[h]] = Stamped(ent[h][idx[h]], sig[h])]]
              /\ turn' = [turn EXCEPT ![h] = [turn[h] EXCEPT ![idx[h]] = now]]
  BY DEF UpdateUploadChunkPresign

\* An answer forgets what the request knew.
LEMMA AnsweredTypes ==
    ASSUME ControlTypes, RowTypes, NEW h \in Requests, Answered(h)
    PROVE  ControlTypes' /\ ent' \in [Requests -> [Index -> Row]]
           /\ size' \in [Requests -> Sizes \cup {0}] /\ sig' \in [Requests -> Int]
           /\ \A g \in Requests : pc'[g] \in {"idle", pc[g]} /\ (pc'[g] # "idle" => g # h)
<1> USE DEF ControlTypes, RowTypes, Answered
<1>1. [i \in Index |-> NewRow] \in [Index -> Row] BY DEF NewRow, Row, None
<1>2. NoTurn \in [Index -> Int] BY DEF NoTurn, None
<1>3. ControlTypes' BY <1>2, WorkloadTypes DEF RequestPC
<1> QED BY <1>1, <1>3 DEF None

\* The check accepts the chunk or answers.
LEMMA HeadOutcomes ==
    ASSUME NEW h \in Requests, HeadObject(h)
    PROVE  \/ /\ object[idx[h]] = size[h] /\ pc' = [pc EXCEPT ![h] = "mark"]
              /\ checked' = [checked EXCEPT ![idx[h]] = object[idx[h]]]
              /\ UNCHANGED <<idx, ent, sig, size, turn>>
           \/ Answered(h) /\ UNCHANGED checked
  BY DEF HeadObject

\* A chunk is marked as Uploading, or as Completed with the reported size.
Reopened(e)    == [e EXCEPT !.done = FALSE]
Finished(e, z) == [e EXCEPT !.done = TRUE, !.size = z]

LEMMA MarkedRow ==
    ASSUME NEW e \in Row, NEW z \in Sizes \cup {0}
    PROVE  /\ Reopened(e) \in Row /\ Reopened(e).done = FALSE
           /\ Reopened(e).signed = e.signed /\ Reopened(e).expires = e.expires
           /\ Finished(e, z) \in Row /\ Finished(e, z).size = z
           /\ Finished(e, z).signed = e.signed /\ Finished(e, z).expires = e.expires
  BY DEF Row, Reopened, Finished

LEMMA FinishedSize ==
    ASSUME NEW e \in Row, NEW z
    PROVE  Finished(e, z).size = z
  BY DEF Row, Finished

LEMMA MarkOutcomes ==
    ASSUME NEW h \in Requests, idx[h] \in Index
    PROVE  /\ PresignChunkMark(h) =>
                  row' = [row EXCEPT ![idx[h]] = Reopened(row[idx[h]])]
           /\ MarkChunkCompleted(h) =>
                  \/ row' = row
                  \/ row' = [row EXCEPT ![idx[h]] = Finished(row[idx[h]], size[h])]
  BY DEF PresignChunkMark, MarkChunkCompleted, Reopened, Finished

-----------------------------------------------------------------------------
(* The types hold.                                                         *)

LEMMA CountNext ==
    ASSUME CountTypes, [Next]_vars PROVE CountTypes'
<1> USE WorkloadTypes DEF CountTypes, request, merger, store, counts, ghosts
<1>1. ASSUME NEW h \in Requests, RequestStep(h) PROVE CountTypes'
  <2>1. CASE UploadVideoInit(h) BY <2>1 DEF UploadVideoInit, Read
  <2>2. CASE RefreshSkip(h) BY <2>2 DEF RefreshSkip, NextChunk
  <2>3. CASE PresignPutURL(h) BY <2>3 DEF PresignPutURL
  <2>4. CASE UpdateUploadChunkPresign(h) BY <2>4 DEF UpdateUploadChunkPresign, NextChunk
  <2>5. CASE AttachPresign(h) BY <2>5 DEF AttachPresign, Answered
  <2>6. CASE PresignChunk(h) BY <2>6 DEF PresignChunk, Read
  <2>7. CASE PresignChunkMark(h) BY <2>7 DEF PresignChunkMark, Answered
  <2>8. CASE CompleteChunk(h) BY <2>8 DEF CompleteChunk, Read
  <2>9. CASE HeadObject(h) BY <2>9 DEF HeadObject, Answered
  <2>10. CASE MarkChunkCompleted(h) BY <2>10 DEF MarkChunkCompleted, Answered
  <2> QED BY <1>1, <2>1, <2>2, <2>3, <2>4, <2>5, <2>6, <2>7, <2>8, <2>9, <2>10 DEF RequestStep
<1>2. ASSUME NEW m \in Mergers, MergeStep(m) PROVE CountTypes'
  <2>1. CASE MergeRequested(m) BY <2>1 DEF MergeRequested, MergeGoto
  <2>2. CASE InitiateMultipartUpload(m) BY <2>2 DEF InitiateMultipartUpload, MergeGoto,
      MergeReturns
  <2>3. CASE UploadPartCopy(m) BY <2>3 DEF UploadPartCopy, MergeGoto
  <2>4. CASE CompleteMultipartUpload(m) BY <2>4 DEF CompleteMultipartUpload, MergeGoto
  <2>5. CASE AbortMultipartUpload(m) BY <2>5 DEF AbortMultipartUpload, MergeGoto, MergeReturns
  <2>6. CASE DeleteChunks(m) BY <2>6 DEF DeleteChunks, MergeGoto, MergeReturns
  <2>7. CASE ContextExpires(m) BY <2>7 DEF ContextExpires
  <2> QED BY <1>2, <2>1, <2>2, <2>3, <2>4, <2>5, <2>6, <2>7 DEF MergeStep
<1>3. ASSUME NEW i \in Index, NEW s \in Sizes, Put(i, s) PROVE CountTypes'
  BY <1>3 DEF Put
<1>4. CASE Tick BY <1>4 DEF Tick
<1>5. CASE Crash BY <1>5 DEF Crash
<1>6. CASE UNCHANGED vars BY <1>6 DEF vars
<1> QED BY <1>1, <1>2, <1>3, <1>4, <1>5, <1>6 DEF Next

LEMMA ControlNext ==
    ASSUME CountTypes, RowTypes, ControlTypes, [Next]_vars PROVE ControlTypes'
<1> USE WorkloadTypes DEF CountTypes, ControlTypes, RequestPC, Index, NoTurn, None, request,
    merger, store, counts, ghosts
<1>1. ASSUME NEW h \in Requests, RequestStep(h) PROVE ControlTypes'
  <2>1. CASE UploadVideoInit(h)
    <3>1. 0 \in Index BY DEF Index
    <3> QED BY <2>1, <3>1, ReadTypes DEF UploadVideoInit
  <2>2. CASE RefreshSkip(h)
    <3>1. idx[h] \in Index /\ NextChunk(h) BY <2>2 DEF RefreshSkip
    <3>2. turn' \in [Requests -> [Index -> Int]]
      <4>1. CASE turn' = [turn EXCEPT ![h] = [turn[h] EXCEPT ![idx[h]] = now]]
        <5>1. [turn[h] EXCEPT ![idx[h]] = now] \in [Index -> Int] BY <3>1
        <5> QED BY <4>1, <5>1
      <4> QED BY <4>1, <2>2 DEF RefreshSkip
    <3> QED BY <3>1, <3>2, NextChunkTypes
  <2>3. CASE PresignPutURL(h) BY <2>3 DEF PresignPutURL
  <2>4. CASE UpdateUploadChunkPresign(h)
    <3>1. idx[h] \in Index /\ NextChunk(h) BY <2>4 DEF UpdateUploadChunkPresign
    <3>2. turn' \in [Requests -> [Index -> Int]]
      <4>1. CASE turn' = [turn EXCEPT ![h] = [turn[h] EXCEPT ![idx[h]] = now]]
        <5>1. [turn[h] EXCEPT ![idx[h]] = now] \in [Index -> Int] BY <3>1
        <5> QED BY <4>1, <5>1
      <4> QED BY <4>1, <3>1, <2>4, UpdateOutcomes
    <3> QED BY <3>1, <3>2, NextChunkTypes
  <2>5. CASE AttachPresign(h)
    BY <2>5, AnsweredTypes DEF AttachPresign
  <2>6. CASE PresignChunk(h)
    <3>1. PICK i \in Index : Read(h, "presign", "presign", i, 0) BY <2>6 DEF PresignChunk
    <3> QED BY <3>1, ReadTypes
  <2>7. CASE PresignChunkMark(h)
    BY <2>7, AnsweredTypes DEF PresignChunkMark
  <2>8. CASE CompleteChunk(h)
    <3>1. PICK i \in Index, z \in Sizes : Read(h, "complete", "head", i, z) BY <2>8
        DEF CompleteChunk
    <3> QED BY <3>1, ReadTypes
  <2>9. CASE HeadObject(h)
    <3>1. CASE Answered(h) BY <3>1, AnsweredTypes
    <3>2. CASE pc' = [pc EXCEPT ![h] = "mark"] /\ UNCHANGED <<idx, turn>>
      <4>1. pc[h] = "head" BY <2>9 DEF HeadObject
      <4> QED BY <3>2, <4>1
    <3> QED BY <3>1, <3>2, <2>9, HeadOutcomes
  <2>10. CASE MarkChunkCompleted(h)
    BY <2>10, AnsweredTypes DEF MarkChunkCompleted
  <2> QED BY <1>1, <2>1, <2>2, <2>3, <2>4, <2>5, <2>6, <2>7, <2>8, <2>9, <2>10 DEF RequestStep
<1>2. ASSUME NEW m \in Mergers, MergeStep(m) PROVE ControlTypes'
  <2>1. CASE MergeRequested(m) BY <2>1 DEF MergeRequested, MergeGoto
  <2>2. CASE InitiateMultipartUpload(m) BY <2>2 DEF InitiateMultipartUpload, MergeGoto,
      MergeReturns
  <2>3. CASE UploadPartCopy(m) BY <2>3 DEF UploadPartCopy, MergeGoto
  <2>4. CASE CompleteMultipartUpload(m) BY <2>4 DEF CompleteMultipartUpload, MergeGoto
  <2>5. CASE AbortMultipartUpload(m) BY <2>5 DEF AbortMultipartUpload, MergeGoto, MergeReturns
  <2>6. CASE DeleteChunks(m) BY <2>6 DEF DeleteChunks, MergeGoto, MergeReturns
  <2>7. CASE ContextExpires(m) BY <2>7 DEF ContextExpires
  <2> QED BY <1>2, <2>1, <2>2, <2>3, <2>4, <2>5, <2>6, <2>7 DEF MergeStep
<1>3. ASSUME NEW i \in Index, NEW s \in Sizes, Put(i, s) PROVE ControlTypes'
  BY <1>3 DEF Put
<1>4. CASE Tick BY <1>4 DEF Tick
<1>5. CASE Crash BY <1>5 DEF Crash
<1>6. CASE UNCHANGED vars BY <1>6 DEF vars
<1> QED BY <1>1, <1>2, <1>3, <1>4, <1>5, <1>6 DEF Next

LEMMA RowNext ==
    ASSUME CountTypes, ControlTypes, RowTypes, [Next]_vars PROVE RowTypes'
<1> USE WorkloadTypes DEF CountTypes, ControlTypes, RowTypes, Row, Stamped, NewRow, None,
    request, merger, store, counts, ghosts
<1>1. ASSUME NEW h \in Requests, RequestStep(h) PROVE RowTypes'
  <2>1. CASE UploadVideoInit(h)
    <3>1. 0 \in Index BY WorkloadTypes DEF Index
    <3> QED BY <2>1, <3>1, ReadTypes DEF UploadVideoInit
  <2>2. CASE RefreshSkip(h) BY <2>2 DEF RefreshSkip, NextChunk
  <2>3. CASE PresignPutURL(h) BY <2>3 DEF PresignPutURL
  <2>4. CASE UpdateUploadChunkPresign(h)
    <3> HIDE DEF Row, Stamped, CountTypes
    <3>1. idx[h] \in Index /\ UNCHANGED <<sig, size>> BY <2>4 DEF UpdateUploadChunkPresign,
        RequestPC
    <3>2. Stamped(row[idx[h]], sig[h]) \in Row /\ Stamped(ent[h][idx[h]], sig[h]) \in Row
        BY <3>1, StampedRow
    <3>3. [ent[h] EXCEPT ![idx[h]] = Stamped(ent[h][idx[h]], sig[h])] \in [Index -> Row]
        BY <3>1, <3>2
    <3>4. row' \in [Index -> Row]
      <4>1. CASE row' = row BY <4>1
      <4>2. CASE row' = [row EXCEPT ![idx[h]] = Stamped(row[idx[h]], sig[h])] BY <3>2, <4>2
      <4> QED BY <4>1, <4>2, <3>1, <2>4, UpdateOutcomes
    <3>5. ent' \in [Requests -> [Index -> Row]]
      <4>1. CASE ent' = ent BY <4>1
      <4>2. CASE ent' = [ent EXCEPT ![h] = [ent[h] EXCEPT ![idx[h]] = Stamped(ent[h][idx[h]], sig[h])]]
        BY <3>3, <4>2
      <4> QED BY <4>1, <4>2, <3>1, <2>4, UpdateOutcomes
    <3> QED BY <3>1, <3>4, <3>5
  <2>5. CASE AttachPresign(h)
    <3> HIDE DEF Row, CountTypes
    <3> QED BY <2>5, AnsweredTypes DEF AttachPresign
  <2>6. CASE PresignChunk(h)
    <3>1. PICK i \in Index : Read(h, "presign", "presign", i, 0) BY <2>6 DEF PresignChunk
    <3> QED BY <3>1, ReadTypes
  <2>7. CASE PresignChunkMark(h)
    <3> HIDE DEF Row, CountTypes
    <3>1. idx[h] \in Index /\ Answered(h) BY <2>7 DEF PresignChunkMark
    <3>2. Reopened(row[idx[h]]) \in Row BY <3>1, MarkedRow
    <3>4. row' = [row EXCEPT ![idx[h]] = Reopened(row[idx[h]])] BY <2>7, <3>1, MarkOutcomes
    <3>3. row' \in [Index -> Row] BY <3>1, <3>2, <3>4
    <3> QED BY <3>1, <3>3, AnsweredTypes
  <2>8. CASE CompleteChunk(h)
    <3>1. PICK i \in Index, z \in Sizes : Read(h, "complete", "head", i, z) BY <2>8
        DEF CompleteChunk
    <3> QED BY <3>1, ReadTypes
  <2>9. CASE HeadObject(h)
    <3> HIDE DEF Row, CountTypes
    <3>1. row' = row BY <2>9 DEF HeadObject
    <3> QED BY <3>1, <2>9, HeadOutcomes, AnsweredTypes
  <2>10. CASE MarkChunkCompleted(h)
    <3> HIDE DEF Row, CountTypes
    <3>1. idx[h] \in Index /\ Answered(h) BY <2>10 DEF MarkChunkCompleted
    <3>2. Finished(row[idx[h]], size[h]) \in Row BY <3>1, MarkedRow
    <3>3. row' \in [Index -> Row]
      <4>1. CASE row' = row BY <4>1
      <4>2. CASE row' = [row EXCEPT ![idx[h]] = Finished(row[idx[h]], size[h])] BY <3>1, <3>2,
          <4>2
      <4> QED BY <4>1, <4>2, <2>10, <3>1, MarkOutcomes
    <3> QED BY <3>1, <3>3, AnsweredTypes
  <2> QED BY <1>1, <2>1, <2>2, <2>3, <2>4, <2>5, <2>6, <2>7, <2>8, <2>9, <2>10 DEF RequestStep
<1>2. ASSUME NEW m \in Mergers, MergeStep(m) PROVE RowTypes'
  <2>1. CASE MergeRequested(m) BY <2>1 DEF MergeRequested, MergeGoto
  <2>2. CASE InitiateMultipartUpload(m) BY <2>2 DEF InitiateMultipartUpload, MergeGoto,
      MergeReturns
  <2>3. CASE UploadPartCopy(m) BY <2>3 DEF UploadPartCopy, MergeGoto
  <2>4. CASE CompleteMultipartUpload(m) BY <2>4 DEF CompleteMultipartUpload, MergeGoto
  <2>5. CASE AbortMultipartUpload(m) BY <2>5 DEF AbortMultipartUpload, MergeGoto, MergeReturns
  <2>6. CASE DeleteChunks(m) BY <2>6 DEF DeleteChunks, MergeGoto, MergeReturns
  <2>7. CASE ContextExpires(m) BY <2>7 DEF ContextExpires
  <2> QED BY <1>2, <2>1, <2>2, <2>3, <2>4, <2>5, <2>6, <2>7 DEF MergeStep
<1>3. ASSUME NEW i \in Index, NEW s \in Sizes, Put(i, s) PROVE RowTypes'
  BY <1>3 DEF Put
<1>4. CASE Tick BY <1>4 DEF Tick
<1>5. CASE Crash BY <1>5 DEF Crash
<1>6. CASE UNCHANGED vars BY <1>6 DEF vars
<1> QED BY <1>1, <1>2, <1>3, <1>4, <1>5, <1>6 DEF Next

LEMMA StoreNext ==
    ASSUME CountTypes, RowTypes, ControlTypes, StoreTypes, [Next]_vars PROVE StoreTypes'
<1> USE WorkloadTypes DEF CountTypes, RowTypes, ControlTypes, StoreTypes, Later, None, Row,
    request, merger, store, counts, ghosts
<1>1. ASSUME NEW h \in Requests, RequestStep(h) PROVE StoreTypes'
  <2>1. CASE UploadVideoInit(h) BY <2>1 DEF UploadVideoInit, Read
  <2>2. CASE RefreshSkip(h) BY <2>2 DEF RefreshSkip, NextChunk
  <2>3. CASE PresignPutURL(h) BY <2>3 DEF PresignPutURL
  <2>4. CASE UpdateUploadChunkPresign(h) BY <2>4 DEF UpdateUploadChunkPresign, NextChunk
  <2>5. CASE AttachPresign(h) BY <2>5 DEF AttachPresign, Answered
  <2>6. CASE PresignChunk(h) BY <2>6 DEF PresignChunk, Read
  <2>7. CASE PresignChunkMark(h) BY <2>7 DEF PresignChunkMark, Answered
  <2>8. CASE CompleteChunk(h) BY <2>8 DEF CompleteChunk, Read
  <2>9. CASE HeadObject(h)
    <3> HIDE DEF Row, CountTypes
    <3>1. idx[h] \in Index /\ UNCHANGED <<object, until, stirred>> BY <2>9 DEF HeadObject
    <3>2. CASE checked' = checked BY <3>1, <3>2
    <3>3. CASE checked' = [checked EXCEPT ![idx[h]] = object[idx[h]]] BY <3>1, <3>3
    <3> QED BY <3>2, <3>3, <2>9, HeadOutcomes
  <2>10. CASE MarkChunkCompleted(h) BY <2>10 DEF MarkChunkCompleted, Answered
  <2> QED BY <1>1, <2>1, <2>2, <2>3, <2>4, <2>5, <2>6, <2>7, <2>8, <2>9, <2>10 DEF RequestStep
<1>2. ASSUME NEW m \in Mergers, MergeStep(m) PROVE StoreTypes'
  <2>1. CASE MergeRequested(m) BY <2>1 DEF MergeRequested, MergeGoto
  <2>2. CASE InitiateMultipartUpload(m) BY <2>2 DEF InitiateMultipartUpload, MergeGoto,
      MergeReturns
  <2>3. CASE UploadPartCopy(m) BY <2>3 DEF UploadPartCopy, MergeGoto
  <2>4. CASE CompleteMultipartUpload(m) BY <2>4 DEF CompleteMultipartUpload, MergeGoto
  <2>5. CASE AbortMultipartUpload(m) BY <2>5 DEF AbortMultipartUpload, MergeGoto, MergeReturns
  <2>6. CASE DeleteChunks(m) BY <2>6 DEF DeleteChunks, MergeGoto, MergeReturns
  <2>7. CASE ContextExpires(m) BY <2>7 DEF ContextExpires
  <2> QED BY <1>2, <2>1, <2>2, <2>3, <2>4, <2>5, <2>6, <2>7 DEF MergeStep
<1>3. ASSUME NEW i \in Index, NEW s \in Sizes, Put(i, s) PROVE StoreTypes'
  BY <1>3 DEF Put
<1>4. CASE Tick BY <1>4 DEF Tick
<1>5. CASE Crash BY <1>5 DEF Crash
<1>6. CASE UNCHANGED vars BY <1>6 DEF vars
<1> QED BY <1>1, <1>2, <1>3, <1>4, <1>5, <1>6 DEF Next

\* A merger that returns forgets its upload id and its parts.
LEMMA ReturnsTypes ==
    ASSUME MergerTypes, NEW m \in Mergers, MergeReturns(m)
    PROVE  MergerTypes'
<1> USE DEF MergeReturns, MergeGoto, MergerTypes
<1>1. mpc' \in [Mergers -> MergePC] BY DEF MergePC
<1>2. mid' \in [Mergers -> 0 .. MaxMerges] BY WorkloadTypes
<1>3. parts' \in [Mergers -> Seq(Sizes)] BY EmptySeq
<1>4. live' \in [Mergers -> BOOLEAN] OBVIOUS
<1>5. \A n \in Mergers : n # m => /\ mpc'[n] = mpc[n] /\ mid'[n] = mid[n] /\ parts'[n] = parts[n]
  OBVIOUS
<1>6. mpc'[m] = "idle" /\ parts'[m] = <<>> OBVIOUS
<1> QED BY <1>1, <1>2, <1>3, <1>4, <1>5, <1>6

LEMMA MergerNext ==
    ASSUME StoreTypes, MergerTypes, [Next]_vars PROVE MergerTypes'
<1> USE WorkloadTypes DEF StoreTypes, MergerTypes, MergePC, Index, None, request, merger,
    store, counts, ghosts
<1>1. ASSUME NEW h \in Requests, RequestStep(h) PROVE MergerTypes'
  <2>1. CASE UploadVideoInit(h) BY <2>1 DEF UploadVideoInit, Read
  <2>2. CASE RefreshSkip(h) BY <2>2 DEF RefreshSkip, NextChunk
  <2>3. CASE PresignPutURL(h) BY <2>3 DEF PresignPutURL
  <2>4. CASE UpdateUploadChunkPresign(h) BY <2>4 DEF UpdateUploadChunkPresign, NextChunk
  <2>5. CASE AttachPresign(h) BY <2>5 DEF AttachPresign, Answered
  <2>6. CASE PresignChunk(h) BY <2>6 DEF PresignChunk, Read
  <2>7. CASE PresignChunkMark(h) BY <2>7 DEF PresignChunkMark, Answered
  <2>8. CASE CompleteChunk(h) BY <2>8 DEF CompleteChunk, Read
  <2>9. CASE HeadObject(h) BY <2>9 DEF HeadObject, Answered
  <2>10. CASE MarkChunkCompleted(h) BY <2>10 DEF MarkChunkCompleted, Answered
  <2> QED BY <1>1, <2>1, <2>2, <2>3, <2>4, <2>5, <2>6, <2>7, <2>8, <2>9, <2>10 DEF RequestStep
<1>2. ASSUME NEW m \in Mergers, MergeStep(m) PROVE MergerTypes'
  <2>1. CASE MergeRequested(m) BY <2>1 DEF MergeRequested, MergeGoto
  <2>2. CASE InitiateMultipartUpload(m)
    <3>1. CASE MergeReturns(m) BY <3>1, ReturnsTypes
    <3>2. ASSUME NEW u \in 1 .. MaxMerges, mpc[m] = "queued", mpc' = [mpc EXCEPT ![m] = "copy"],
                 mid' = [mid EXCEPT ![m] = u], UNCHANGED <<parts, live>>
          PROVE  MergerTypes'
      <4>1. parts[m] = <<>> /\ Len(parts[m]) = 0 BY <3>2, EmptySeq
      <4>2. u # 0 /\ u \in 0 .. MaxMerges OBVIOUS
      <4>3. mpc' \in [Mergers -> MergePC] BY <3>2
      <4>4. mid' \in [Mergers -> 0 .. MaxMerges] BY <3>2, <4>2
      <4>5. mpc'[m] = "copy" /\ mid'[m] # 0 /\ Len(parts[m]) < TotalChunks BY <3>2, <4>1, <4>2
      <4>6. \A n \in Mergers : n # m => mpc'[n] = mpc[n] /\ mid'[n] = mid[n] BY <3>2
      <4> QED BY <3>2, <4>3, <4>4, <4>5, <4>6
    <3> QED BY <3>1, <3>2, <2>2 DEF InitiateMultipartUpload, MergeGoto
  <2>3. CASE UploadPartCopy(m)
    <3>1. mpc[m] = "copy" /\ UNCHANGED <<mid, live>> BY <2>3 DEF UploadPartCopy
    <3>2. CASE mpc' = [mpc EXCEPT ![m] = "abort"] /\ UNCHANGED parts BY <3>1, <3>2
    <3>3. ASSUME NEW i \in Index, i = Len(parts[m]), object[i] # None,
                 parts' = [parts EXCEPT ![m] = Append(parts[m], object[i])],
                 mpc' = [mpc EXCEPT ![m] = IF i + 1 = TotalChunks THEN "complete" ELSE "copy"]
          PROVE  MergerTypes'
      <4>1. object[i] \in Sizes BY <3>3
      <4>2. Append(parts[m], object[i]) \in Seq(Sizes) /\ Len(Append(parts[m], object[i])) = i + 1
        BY <3>3, <4>1, AppendProperties
      <4>3. parts' \in [Mergers -> Seq(Sizes)] BY <3>3, <4>2
      <4>4. mpc' \in [Mergers -> MergePC] BY <3>3
      <4>5. mpc'[m] = "copy" => i + 1 < TotalChunks BY <3>3
      <4>6. mpc'[m] = "complete" => i + 1 = TotalChunks BY <3>3
      <4>7. mpc'[m] \in {"copy", "complete"} /\ parts'[m] = Append(parts[m], object[i]) BY <3>3
      <4>8. \A n \in Mergers : n # m => mpc'[n] = mpc[n] /\ parts'[n] = parts[n] BY <3>3
      <4> QED BY <3>1, <4>2, <4>3, <4>4, <4>5, <4>6, <4>7, <4>8
    <3> QED BY <3>2, <3>3, <2>3 DEF UploadPartCopy, MergeGoto
  <2>4. CASE CompleteMultipartUpload(m)
    <3>1. mpc[m] = "complete" /\ UNCHANGED <<mid, parts, live>> BY <2>4
        DEF CompleteMultipartUpload
    <3>2. PICK l \in {"delete", "abort"} : mpc' = [mpc EXCEPT ![m] = l] BY <2>4
        DEF CompleteMultipartUpload, MergeGoto
    <3> QED BY <3>1, <3>2
  <2>5. CASE AbortMultipartUpload(m)
    BY <2>5, ReturnsTypes DEF AbortMultipartUpload
  <2>6. CASE DeleteChunks(m)
    BY <2>6, ReturnsTypes DEF DeleteChunks
  <2>7. CASE ContextExpires(m) BY <2>7 DEF ContextExpires
  <2> QED BY <1>2, <2>1, <2>2, <2>3, <2>4, <2>5, <2>6, <2>7 DEF MergeStep
<1>3. ASSUME NEW i \in Index, NEW s \in Sizes, Put(i, s) PROVE MergerTypes'
  BY <1>3 DEF Put
<1>4. CASE Tick BY <1>4 DEF Tick
<1>5. CASE Crash
  <2>1. /\ mpc' = [m \in Mergers |-> "idle"] /\ mid' = [m \in Mergers |-> 0]
        /\ parts' = [m \in Mergers |-> <<>>]
    BY <1>5 DEF Crash
  <2>2. live' \in [Mergers -> BOOLEAN] BY <1>5, Zenon DEF Crash
  <2> QED BY <2>1, <2>2, EmptySeq
<1>6. CASE UNCHANGED vars BY <1>6 DEF vars
<1> QED BY <1>1, <1>2, <1>3, <1>4, <1>5, <1>6 DEF Next

LEMMA MergedNext ==
    ASSUME MergerTypes, MergedTypes, [Next]_vars PROVE MergedTypes'
<1> USE WorkloadTypes DEF MergerTypes, MergedTypes, request, merger, store, counts, ghosts
<1>1. ASSUME NEW h \in Requests, RequestStep(h) PROVE MergedTypes'
  <2>1. CASE UploadVideoInit(h) BY <2>1 DEF UploadVideoInit, Read
  <2>2. CASE RefreshSkip(h) BY <2>2 DEF RefreshSkip, NextChunk
  <2>3. CASE PresignPutURL(h) BY <2>3 DEF PresignPutURL
  <2>4. CASE UpdateUploadChunkPresign(h) BY <2>4 DEF UpdateUploadChunkPresign, NextChunk
  <2>5. CASE AttachPresign(h) BY <2>5 DEF AttachPresign, Answered
  <2>6. CASE PresignChunk(h) BY <2>6 DEF PresignChunk, Read
  <2>7. CASE PresignChunkMark(h) BY <2>7 DEF PresignChunkMark, Answered
  <2>8. CASE CompleteChunk(h) BY <2>8 DEF CompleteChunk, Read
  <2>9. CASE HeadObject(h) BY <2>9 DEF HeadObject, Answered
  <2>10. CASE MarkChunkCompleted(h) BY <2>10 DEF MarkChunkCompleted, Answered
  <2> QED BY <1>1, <2>1, <2>2, <2>3, <2>4, <2>5, <2>6, <2>7, <2>8, <2>9, <2>10 DEF RequestStep
<1>2. ASSUME NEW m \in Mergers, MergeStep(m) PROVE MergedTypes'
  <2>1. CASE MergeRequested(m) BY <2>1 DEF MergeRequested, MergeGoto
  <2>2. CASE InitiateMultipartUpload(m)
    <3> QED BY <2>2 DEF InitiateMultipartUpload
  <2>3. CASE UploadPartCopy(m) BY <2>3 DEF UploadPartCopy, MergeGoto
  <2>4. CASE CompleteMultipartUpload(m)
    <3>1. parts[m] \in [1 .. TotalChunks -> Sizes]
      BY <2>4, LenProperties DEF CompleteMultipartUpload
    <3> QED BY <3>1, <2>4 DEF CompleteMultipartUpload
  <2>5. CASE AbortMultipartUpload(m)
    <3>1. mid[m] \in 1 .. MaxMerges BY <2>5 DEF AbortMultipartUpload
    <3> QED BY <3>1, <2>5 DEF AbortMultipartUpload
  <2>6. CASE DeleteChunks(m)
    BY <2>6 DEF DeleteChunks
  <2>7. CASE ContextExpires(m) BY <2>7 DEF ContextExpires
  <2> QED BY <1>2, <2>1, <2>2, <2>3, <2>4, <2>5, <2>6, <2>7 DEF MergeStep
<1>3. ASSUME NEW i \in Index, NEW s \in Sizes, Put(i, s) PROVE MergedTypes'
  BY <1>3 DEF Put
<1>4. CASE Tick BY <1>4 DEF Tick
<1>5. CASE Crash
  <2>1. {mid[m] : m \in Mergers} \ {0} \subseteq 1 .. MaxMerges OBVIOUS
  <2> QED BY <2>1, <1>5 DEF Crash
<1>6. CASE UNCHANGED vars BY <1>6 DEF vars
<1> QED BY <1>1, <1>2, <1>3, <1>4, <1>5, <1>6 DEF Next

LEMMA TypesNext == Types /\ [Next]_vars => Types'
  BY CountNext, ControlNext, RowNext, StoreNext, MergerNext, MergedNext DEF Types

\* Every variable keeps its type; the merged object has a part of every chunk
\* or does not exist.
THEOREM TypeCorrect == Spec => []TypeOK
<1>1. Init => Types BY TypesInit
<1>2. Types /\ [Next]_vars => Types' BY TypesNext
<1> QED BY <1>1, <1>2, TypesImply, PTL DEF Spec

-----------------------------------------------------------------------------
(* Links.  Between signing and stamping passes at most Slack, so that no   *)
(* expiry that is kept or told outlives its link by more than that.        *)

Kept(e) == e.expires <= e.signed + Lifetime + Slack

LinkInv ==
    /\ \A i \in Index : Kept(row[i])
    /\ \A h \in Requests : \A i \in Index : Kept(ent[h][i])
    /\ \A h \in Requests : pc[h] = "stamp" => sig[h] <= now /\ now <= sig[h] + Slack

TurnInv ==
    \A h \in Requests :
        /\ pc[h] = "idle" => turn[h] = NoTurn
        /\ \A i \in Index :
              turn[h][i] # None => ent[h][i].signed + Lifetime + Slack > turn[h][i] + Margin

LEMMA LinksInit == Init => LinkInv /\ TurnInv
  BY WorkloadTypes DEF Init, LinkInv, TurnInv, Kept, NewRow, LinkedRow, NoTurn, None

LEMMA LinkNext ==
    ASSUME CountTypes, ControlTypes, RowTypes, LinkInv, [Next]_vars PROVE LinkInv'
<1> USE WorkloadTypes DEF CountTypes, ControlTypes, RowTypes, LinkInv, Kept, Row, Stamped,
    NewRow, None, request, merger, store, counts, ghosts
<1>1. ASSUME NEW h \in Requests, RequestStep(h) PROVE LinkInv'
  <2>1. CASE UploadVideoInit(h) BY <2>1 DEF UploadVideoInit, Read
  <2>2. CASE RefreshSkip(h) BY <2>2 DEF RefreshSkip, NextChunk
  <2>3. CASE PresignPutURL(h) BY <2>3 DEF PresignPutURL
  <2>4. CASE UpdateUploadChunkPresign(h)
    <3> HIDE DEF Row, Stamped, CountTypes, NewRow
    <3>1. idx[h] \in Index /\ pc[h] = "stamp" /\ NextChunk(h) /\ UNCHANGED <<sig, now>>
      BY <2>4 DEF UpdateUploadChunkPresign
    <3>2. \A e \in Row : Kept(Stamped(e, sig[h]))
      <4> SUFFICES ASSUME NEW e \in Row PROVE Kept(Stamped(e, sig[h])) OBVIOUS
      <4>1. now \in Int /\ sig[h] \in Int /\ now <= sig[h] + Slack BY <3>1 DEF CountTypes
      <4>2. Stamped(e, sig[h]).signed = sig[h] /\ Stamped(e, sig[h]).expires = now + Lifetime
        BY <4>1, StampedRow
      <4> QED BY <4>1, <4>2
    <3> HIDE DEF Kept
    <3>3. \A i \in Index : Kept(row'[i])
      <4>1. CASE row' = row BY <4>1
      <4>2. CASE row' = [row EXCEPT ![idx[h]] = Stamped(row[idx[h]], sig[h])] BY <3>1, <3>2,
          <4>2
      <4> QED BY <4>1, <4>2, <3>1, <2>4, UpdateOutcomes
    <3>4. \A g \in Requests : \A i \in Index : Kept(ent'[g][i])
      <4>1. CASE ent' = ent BY <4>1
      <4>2. CASE ent' = [ent EXCEPT ![h] = [ent[h] EXCEPT ![idx[h]] = Stamped(ent[h][idx[h]], sig[h])]]
        BY <3>1, <3>2, <4>2
      <4> QED BY <4>1, <4>2, <3>1, <2>4, UpdateOutcomes
    <3>5. \A g \in Requests : pc'[g] = "stamp" => pc[g] = "stamp" BY <3>1, NextChunkTypes
    <3> QED BY <3>1, <3>3, <3>4, <3>5
  <2>5. CASE AttachPresign(h) BY <2>5 DEF AttachPresign, Answered
  <2>6. CASE PresignChunk(h) BY <2>6 DEF PresignChunk, Read
  <2>7. CASE PresignChunkMark(h)
    <3> HIDE DEF Row, CountTypes
    <3>1. idx[h] \in Index /\ Answered(h) /\ now' = now BY <2>7 DEF PresignChunkMark
    <3>2. row' = [row EXCEPT ![idx[h]] = Reopened(row[idx[h]])] BY <3>1, <2>7, MarkOutcomes
    <3>3. \A i \in Index : Kept(row'[i])
      <4>1. Kept(Reopened(row[idx[h]]))
        <5>1. row[idx[h]] \in Row /\ 0 \in Sizes \cup {0} /\ Kept(row[idx[h]]) BY <3>1
        <5> QED BY <5>1, MarkedRow
      <4> QED BY <3>1, <3>2, <4>1
    <3> QED BY <3>1, <3>3 DEF Answered
  <2>8. CASE CompleteChunk(h) BY <2>8 DEF CompleteChunk, Read
  <2>9. CASE HeadObject(h)
    <3>1. row' = row /\ now' = now BY <2>9 DEF HeadObject
    <3>2. CASE pc' = [pc EXCEPT ![h] = "mark"] /\ UNCHANGED <<ent, sig>> BY <3>1, <3>2
    <3>3. CASE Answered(h) BY <3>1, <3>3 DEF Answered
    <3> QED BY <3>2, <3>3, <2>9, HeadOutcomes
  <2>10. CASE MarkChunkCompleted(h)
    <3> HIDE DEF Row, CountTypes
    <3>1. idx[h] \in Index /\ Answered(h) /\ now' = now BY <2>10 DEF MarkChunkCompleted
    <3>2. CASE row' = row BY <3>1, <3>2 DEF Answered
    <3>3. CASE row' = [row EXCEPT ![idx[h]] = Finished(row[idx[h]], size[h])]
      <4>1. \A i \in Index : Kept(row'[i]) 
        <5>1. row[idx[h]] \in Row /\ size[h] \in Sizes \cup {0} /\ Kept(row[idx[h]]) BY <3>1
        <5> DEFINE f == Finished(row[idx[h]], size[h])
        <5>3. f.signed = row[idx[h]].signed /\ f.expires = row[idx[h]].expires BY <5>1,
            MarkedRow
        <5>2. Kept(f) BY <5>1, <5>3
        <5> QED BY <3>1, <3>3, <5>2
      <4> QED BY <3>1, <4>1 DEF Answered
    <3> QED BY <3>1, <3>2, <3>3, <2>10, MarkOutcomes
  <2> QED BY <1>1, <2>1, <2>2, <2>3, <2>4, <2>5, <2>6, <2>7, <2>8, <2>9, <2>10 DEF RequestStep
<1>2. ASSUME NEW m \in Mergers, MergeStep(m) PROVE LinkInv'
  <2>1. CASE MergeRequested(m) BY <2>1 DEF MergeRequested, MergeGoto
  <2>2. CASE InitiateMultipartUpload(m) BY <2>2 DEF InitiateMultipartUpload, MergeGoto,
      MergeReturns
  <2>3. CASE UploadPartCopy(m) BY <2>3 DEF UploadPartCopy, MergeGoto
  <2>4. CASE CompleteMultipartUpload(m) BY <2>4 DEF CompleteMultipartUpload, MergeGoto
  <2>5. CASE AbortMultipartUpload(m) BY <2>5 DEF AbortMultipartUpload, MergeGoto, MergeReturns
  <2>6. CASE DeleteChunks(m) BY <2>6 DEF DeleteChunks, MergeGoto, MergeReturns
  <2>7. CASE ContextExpires(m) BY <2>7 DEF ContextExpires
  <2> QED BY <1>2, <2>1, <2>2, <2>3, <2>4, <2>5, <2>6, <2>7 DEF MergeStep
<1>3. ASSUME NEW i \in Index, NEW s \in Sizes, Put(i, s) PROVE LinkInv'
  BY <1>3 DEF Put
<1>4. CASE Tick BY <1>4 DEF Tick
<1>5. CASE Crash BY <1>5 DEF Crash
<1>6. CASE UNCHANGED vars BY <1>6 DEF vars
<1> QED BY <1>1, <1>2, <1>3, <1>4, <1>5, <1>6 DEF Next

LEMMA TurnNext ==
    ASSUME CountTypes, ControlTypes, RowTypes, LinkInv, TurnInv, [Next]_vars PROVE TurnInv'
<1> USE WorkloadTypes DEF CountTypes, ControlTypes, RowTypes, LinkInv, TurnInv, Kept,
    StillValid, Row, Stamped, NewRow, NoTurn, None, request, merger, store, counts, ghosts
<1>1. ASSUME NEW h \in Requests, RequestStep(h) PROVE TurnInv'
  <2>1. CASE UploadVideoInit(h) BY <2>1 DEF UploadVideoInit, Read
  <2>2. CASE RefreshSkip(h)
    <3>1. idx[h] \in Index /\ NextChunk(h) /\ UNCHANGED <<ent, now>> BY <2>2 DEF RefreshSkip
    <3>2. \A g \in Requests : pc'[g] = "idle" => pc[g] = "idle" /\ g # h BY <3>1, NextChunkTypes
    <3>3. CASE turn' = turn BY <3>1, <3>2, <3>3
    <3>4. CASE /\ StillValid(ent[h][idx[h]])
               /\ turn' = [turn EXCEPT ![h] = [turn[h] EXCEPT ![idx[h]] = now]]
      <4>1. ent[h][idx[h]].signed + Lifetime + Slack > now + Margin
        <5> DEFINE e == ent[h][idx[h]]
        <5>1. e \in Row /\ Kept(e) BY <3>1
        <5> QED BY <5>1, <3>4 DEF CountTypes
      <4> HIDE DEF StillValid, Kept
      <4>2. \A g \in Requests, i \in Index : ~(g = h /\ i = idx[h]) => turn'[g][i] = turn[g][i] BY <3>4
      <4>3. turn'[h][idx[h]] = now BY <3>1, <3>4
      <4>4. \A g \in Requests : g # h => turn'[g] = turn[g] BY <3>4
      <4> QED BY <3>1, <3>2, <4>1, <4>2, <4>3, <4>4
    <3> QED BY <3>1, <3>3, <3>4, <2>2 DEF RefreshSkip
  <2>3. CASE PresignPutURL(h) BY <2>3 DEF PresignPutURL
  <2>4. CASE UpdateUploadChunkPresign(h)
    <3> HIDE DEF Row, Stamped, CountTypes, NewRow, Kept, StillValid
    <3>1. idx[h] \in Index /\ pc[h] = "stamp" /\ NextChunk(h) /\ UNCHANGED <<sig, now>>
      BY <2>4 DEF UpdateUploadChunkPresign
    <3>2. \A g \in Requests : pc'[g] = "idle" => pc[g] = "idle" /\ g # h BY <3>1, NextChunkTypes
    <3>3. CASE UNCHANGED <<ent, turn>> BY <3>2, <3>3
    <3>4. CASE /\ ent' = [ent EXCEPT ![h] = [ent[h] EXCEPT ![idx[h]] = Stamped(ent[h][idx[h]], sig[h])]]
               /\ turn' = [turn EXCEPT ![h] = [turn[h] EXCEPT ![idx[h]] = now]]
      <4>1. ent'[h][idx[h]].signed = sig[h] 
        <5>1. ent[h][idx[h]] \in Row /\ sig[h] \in Int BY <3>1
        <5>2. Stamped(ent[h][idx[h]], sig[h]).signed = sig[h] BY <5>1, StampedRow
        <5> QED BY <3>1, <3>4, <5>2
      <4>2. now \in Int /\ sig[h] \in Int /\ now <= sig[h] + Slack BY <3>1 DEF CountTypes
      <4>3. turn'[h][idx[h]] = now BY <3>1, <3>4
      <4>4. \A g \in Requests, i \in Index : ~(g = h /\ i = idx[h]) =>
               turn'[g][i] = turn[g][i] /\ ent'[g][i] = ent[g][i] BY <3>4
      <4>5. \A g \in Requests : g # h => turn'[g] = turn[g] BY <3>4
      <4> QED BY <3>1, <3>2, <4>1, <4>2, <4>3, <4>4, <4>5
    <3> QED BY <3>1, <3>3, <3>4, <2>4, UpdateOutcomes
  <2>5. CASE AttachPresign(h) BY <2>5 DEF AttachPresign, Answered
  <2>6. CASE PresignChunk(h) BY <2>6 DEF PresignChunk, Read
  <2>7. CASE PresignChunkMark(h) BY <2>7 DEF PresignChunkMark, Answered
  <2>8. CASE CompleteChunk(h) BY <2>8 DEF CompleteChunk, Read
  <2>9. CASE HeadObject(h)
    <3>2. CASE pc' = [pc EXCEPT ![h] = "mark"] /\ UNCHANGED <<ent, turn>> BY <3>2
    <3>3. CASE Answered(h) BY <3>3 DEF Answered
    <3> QED BY <3>2, <3>3, <2>9, HeadOutcomes
  <2>10. CASE MarkChunkCompleted(h) BY <2>10 DEF MarkChunkCompleted, Answered
  <2> QED BY <1>1, <2>1, <2>2, <2>3, <2>4, <2>5, <2>6, <2>7, <2>8, <2>9, <2>10 DEF RequestStep
<1>2. ASSUME NEW m \in Mergers, MergeStep(m) PROVE TurnInv'
  <2>1. CASE MergeRequested(m) BY <2>1 DEF MergeRequested, MergeGoto
  <2>2. CASE InitiateMultipartUpload(m) BY <2>2 DEF InitiateMultipartUpload, MergeGoto,
      MergeReturns
  <2>3. CASE UploadPartCopy(m) BY <2>3 DEF UploadPartCopy, MergeGoto
  <2>4. CASE CompleteMultipartUpload(m) BY <2>4 DEF CompleteMultipartUpload, MergeGoto
  <2>5. CASE AbortMultipartUpload(m) BY <2>5 DEF AbortMultipartUpload, MergeGoto, MergeReturns
  <2>6. CASE DeleteChunks(m) BY <2>6 DEF DeleteChunks, MergeGoto, MergeReturns
  <2>7. CASE ContextExpires(m) BY <2>7 DEF ContextExpires
  <2> QED BY <1>2, <2>1, <2>2, <2>3, <2>4, <2>5, <2>6, <2>7 DEF MergeStep
<1>3. ASSUME NEW i \in Index, NEW s \in Sizes, Put(i, s) PROVE TurnInv'
  BY <1>3 DEF Put
<1>4. CASE Tick BY <1>4 DEF Tick
<1>5. CASE Crash BY <1>5 DEF Crash
<1>6. CASE UNCHANGED vars BY <1>6 DEF vars
<1> QED BY <1>1, <1>2, <1>3, <1>4, <1>5, <1>6 DEF Next

LEMMA LinksAlways == Spec => [](Types /\ LinkInv /\ TurnInv)
<1>1. Init => Types /\ LinkInv /\ TurnInv BY TypesInit, LinksInit
<1>2. (Types /\ LinkInv /\ TurnInv) /\ [Next]_vars => (Types /\ LinkInv /\ TurnInv)'
  BY TypesNext, LinkNext, TurnNext DEF Types
<1> QED BY <1>1, <1>2, PTL DEF Spec

\* The expiry in a row and in a response is that of the link it comes with.
THEOREM PromisesAreKept == Spec => []PromiseKept
<1>1. LinkInv => PromiseKept BY DEF LinkInv, Kept, PromiseKept
<1> QED BY <1>1, LinksAlways, PTL

\* What init found good enough, or signed, lasts longer than the margin.
THEOREM LinksLast == Spec => []LinkLastsMargin
<1>1. TurnInv => LinkLastsMargin BY DEF TurnInv, LinkLastsMargin
<1> QED BY <1>1, LinksAlways, PTL

-----------------------------------------------------------------------------
(* Multipart uploads.  The store keeps one only while a merger knows its   *)
(* id or after its abort has been lost.                                    *)

OrphanInv ==
    /\ OrphanNeedsLostAbort
    /\ \A m \in Mergers :
          /\ mpc[m] = "delete" => mid[m] \notin multipart
          /\ mpc[m] \in {"idle", "queued"} => mid[m] = 0

LEMMA OrphanInit == Init => OrphanInv
  BY DEF Init, OrphanInv, OrphanNeedsLostAbort

LEMMA OrphanNext ==
    ASSUME MergerTypes, MergedTypes, OrphanInv, [Next]_vars PROVE OrphanInv'
<1> USE WorkloadTypes DEF MergerTypes, MergedTypes, OrphanInv, OrphanNeedsLostAbort, request,
    merger, store, counts, ghosts
<1>1. ASSUME NEW h \in Requests, RequestStep(h) PROVE OrphanInv'
  <2>1. CASE UploadVideoInit(h) BY <2>1 DEF UploadVideoInit, Read
  <2>2. CASE RefreshSkip(h) BY <2>2 DEF RefreshSkip, NextChunk
  <2>3. CASE PresignPutURL(h) BY <2>3 DEF PresignPutURL
  <2>4. CASE UpdateUploadChunkPresign(h) BY <2>4 DEF UpdateUploadChunkPresign, NextChunk
  <2>5. CASE AttachPresign(h) BY <2>5 DEF AttachPresign, Answered
  <2>6. CASE PresignChunk(h) BY <2>6 DEF PresignChunk, Read
  <2>7. CASE PresignChunkMark(h) BY <2>7 DEF PresignChunkMark, Answered
  <2>8. CASE CompleteChunk(h) BY <2>8 DEF CompleteChunk, Read
  <2>9. CASE HeadObject(h) BY <2>9 DEF HeadObject, Answered
  <2>10. CASE MarkChunkCompleted(h) BY <2>10 DEF MarkChunkCompleted, Answered
  <2> QED BY <1>1, <2>1, <2>2, <2>3, <2>4, <2>5, <2>6, <2>7, <2>8, <2>9, <2>10 DEF RequestStep
<1>2. ASSUME NEW m \in Mergers, MergeStep(m) PROVE OrphanInv'
  <2>1. CASE MergeRequested(m) BY <2>1 DEF MergeRequested, MergeGoto
  <2>2. CASE InitiateMultipartUpload(m)
    <3>1. mpc[m] = "queued" /\ mid[m] = 0 BY <2>2 DEF InitiateMultipartUpload
    <3>2. CASE MergeReturns(m) /\ UNCHANGED <<multipart, lost>> BY <3>1, <3>2
        DEF MergeReturns, MergeGoto
    <3>3. ASSUME NEW u \in 1 .. MaxMerges, multipart' = multipart \cup {u},
                 u \notin {mid[n] : n \in Mergers}, MergeReturns(m), lost' = lost \cup {u}
          PROVE  OrphanInv'
      BY <3>1, <3>3 DEF MergeReturns, MergeGoto
    <3>4. ASSUME NEW u \in 1 .. MaxMerges, multipart' = multipart \cup {u}, lost' = lost,
                 u \notin {mid[n] : n \in Mergers}, MergeGoto(m, "copy"), mid' = [mid EXCEPT ![m] = u]
          PROVE  OrphanInv'
      <4>1. mid'[m] = u /\ \A n \in Mergers : n # m => mid'[n] = mid[n] /\ mpc'[n] = mpc[n]
          BY <3>4 DEF MergeGoto
      <4>2. mpc'[m] = "copy" BY <3>4 DEF MergeGoto
      <4>3. multipart' \subseteq lost' \cup {mid'[n] : n \in Mergers} BY <3>1, <3>4, <4>1
      <4> QED BY <3>4, <4>1, <4>2, <4>3
    <3> QED BY <3>2, <3>3, <3>4, <2>2 DEF InitiateMultipartUpload
  <2>3. CASE UploadPartCopy(m) BY <2>3 DEF UploadPartCopy, MergeGoto
  <2>4. CASE CompleteMultipartUpload(m)
    <3>1. /\ mpc[m] = "complete" /\ UNCHANGED <<mid, lost>> /\ multipart' \subseteq multipart
          /\ mpc'[m] = "delete" => multipart' = multipart \ {mid[m]}
      BY <2>4 DEF CompleteMultipartUpload, MergeGoto
    <3>2. PICK l \in {"delete", "abort"} : mpc' = [mpc EXCEPT ![m] = l] BY <2>4
        DEF CompleteMultipartUpload, MergeGoto
    <3>3. \A n \in Mergers : n # m => mpc'[n] = mpc[n] BY <3>2
    <3>4. mpc'[m] \in {"delete", "abort"} BY <3>2
    <3> QED BY <3>1, <3>3, <3>4
  <2>5. CASE AbortMultipartUpload(m) BY <2>5 DEF AbortMultipartUpload, MergeGoto, MergeReturns
  <2>6. CASE DeleteChunks(m) BY <2>6 DEF DeleteChunks, MergeGoto, MergeReturns
  <2>7. CASE ContextExpires(m) BY <2>7 DEF ContextExpires
  <2> QED BY <1>2, <2>1, <2>2, <2>3, <2>4, <2>5, <2>6, <2>7 DEF MergeStep
<1>3. ASSUME NEW i \in Index, NEW s \in Sizes, Put(i, s) PROVE OrphanInv'
  BY <1>3 DEF Put
<1>4. CASE Tick BY <1>4 DEF Tick
<1>5. CASE Crash BY <1>5 DEF Crash
<1>6. CASE UNCHANGED vars BY <1>6 DEF vars
<1> QED BY <1>1, <1>2, <1>3, <1>4, <1>5, <1>6 DEF Next

\* An error of a copy or of the completion never leaves a multipart upload.
THEOREM OrphansAreLostAborts == Spec => []OrphanNeedsLostAbort
<1>1. Init => Types /\ OrphanInv BY TypesInit, OrphanInit
<1>2. (Types /\ OrphanInv) /\ [Next]_vars => (Types /\ OrphanInv)'
  BY TypesNext, OrphanNext DEF Types
<1>3. OrphanInv => OrphanNeedsLostAbort BY DEF OrphanInv
<1> QED BY <1>1, <1>2, <1>3, PTL DEF Spec

-----------------------------------------------------------------------------
(* Contents.  Whatever depends on a chunk's content came after its check,  *)
(* and as long as no one PUTs the chunk again it is the checked content.   *)

NeedsCheck(i) ==
    \/ row[i].done
    \/ merged # <<>>
    \/ \E h \in Requests : pc[h] = "mark" /\ idx[h] = i
    \/ \E m \in Mergers : mpc[m] # "idle"

CheckInv == \A i \in Index : NeedsCheck(i) => checked[i] # None

ContentInv ==
    \A i \in Index \ stirred :
        /\ checked[i] # None => object[i] \in {checked[i], None}
        /\ row[i].done => row[i].size = checked[i]
        /\ \A h \in Requests : pc[h] = "mark" /\ idx[h] = i => size[h] = checked[i]
        /\ merged # <<>> => merged[i + 1] = checked[i]
        /\ \A m \in Mergers : i < Len(parts[m]) => parts[m][i + 1] = checked[i]

LEMMA ContentInit == Init => CheckInv /\ ContentInv
  BY DEF Init, CheckInv, NeedsCheck, ContentInv, NewRow, LinkedRow, None, Index

\* A step that marks no chunk, makes no request look at another chunk and adds
\* neither parts nor content leaves what has been checked.
ContentFrame ==
    /\ UNCHANGED <<checked, object, stirred, merged>>
    /\ \A i \in Index : row'[i].done => row[i].done /\ row'[i].size = row[i].size
    /\ \A h \in Requests : pc'[h] = "mark" => pc[h] = "mark" /\ idx'[h] = idx[h] /\ size'[h] = size[h]
    /\ \A m \in Mergers : parts'[m] \in {<<>>, parts[m]}

LEMMA ContentFramed ==
    ASSUME RowTypes, ControlTypes, MergerTypes, ContentInv, ContentFrame
    PROVE  ContentInv'
<1> USE DEF ContentFrame, ContentInv, Index
<1>1. Len(<<>>) = 0 BY EmptySeq
<1> QED BY <1>1, WorkloadTypes

LEMMA CheckFramed ==
    ASSUME CheckInv, ContentFrame, \A m \in Mergers : mpc'[m] # "idle" => mpc[m] # "idle"
    PROVE  CheckInv'
  BY DEF ContentFrame, CheckInv, NeedsCheck

LEMMA RowFrame ==
    ASSUME RowTypes, ControlTypes, CountTypes, NEW h \in Requests
    PROVE  /\ UpdateUploadChunkPresign(h) \/ PresignChunkMark(h) =>
                  \A i \in Index : row'[i].done => row[i].done /\ row'[i].size = row[i].size
<1>1. ASSUME UpdateUploadChunkPresign(h), NEW i \in Index
      PROVE  row'[i].done => row[i].done /\ row'[i].size = row[i].size
  <2>1. idx[h] \in Index BY <1>1 DEF ControlTypes, UpdateUploadChunkPresign
  <2>2. row[idx[h]] \in Row /\ sig[h] \in Int BY <2>1 DEF RowTypes
  <2>3. CASE row' = row BY <2>3
  <2>4. CASE row' = [row EXCEPT ![idx[h]] = Stamped(row[idx[h]], sig[h])]
    <3>1. /\ Stamped(row[idx[h]], sig[h]).done = row[idx[h]].done
          /\ Stamped(row[idx[h]], sig[h]).size = row[idx[h]].size
      BY <2>2, StampedRow
    <3> QED BY <2>1, <2>4, <3>1 DEF RowTypes
  <2> QED BY <1>1, <2>1, <2>3, <2>4, UpdateOutcomes
<1>2. ASSUME PresignChunkMark(h), NEW i \in Index
      PROVE  row'[i].done => row[i].done /\ row'[i].size = row[i].size
  <2>1. idx[h] \in Index BY <1>2 DEF ControlTypes, PresignChunkMark
  <2>2. row[idx[h]] \in Row /\ 0 \in Sizes \cup {0} BY <2>1 DEF RowTypes
  <2>3. Reopened(row[idx[h]]).done = FALSE BY <2>2, MarkedRow
  <2>4. row' = [row EXCEPT ![idx[h]] = Reopened(row[idx[h]])] BY <1>2, <2>1, MarkOutcomes
  <2> QED BY <2>1, <2>3, <2>4 DEF RowTypes
<1> QED BY <1>1, <1>2

LEMMA CheckNext ==
    ASSUME CountTypes, RowTypes, ControlTypes, StoreTypes, MergerTypes, MergedTypes, CheckInv, [Next]_vars PROVE CheckInv'
<1> USE WorkloadTypes DEF RowTypes, ControlTypes, StoreTypes, MergerTypes, MergedTypes,
    CheckInv, NeedsCheck, Row, Stamped, None, Index, request, merger, store, counts, ghosts
<1>1. ASSUME NEW h \in Requests, RequestStep(h) PROVE CheckInv'
  <2>1. CASE UploadVideoInit(h) BY <2>1 DEF UploadVideoInit, Read
  <2>2. CASE RefreshSkip(h) BY <2>2 DEF RefreshSkip, NextChunk
  <2>3. CASE PresignPutURL(h) BY <2>3 DEF PresignPutURL
  <2>4. CASE UpdateUploadChunkPresign(h)
    <3> HIDE DEF CheckInv, ContentInv, NeedsCheck, Row, Stamped, Index
    <3>1. idx[h] \in Index /\ NextChunk(h) /\ UNCHANGED <<size, store, merger, ghosts>>
        BY <2>4 DEF UpdateUploadChunkPresign
    <3>2. \A g \in Requests : pc'[g] = "mark" => pc[g] = "mark" /\ g # h BY <3>1, NextChunkTypes
    <3>3. \A g \in Requests : g # h => idx'[g] = idx[g] BY <3>1 DEF NextChunk
    <3>4. ContentFrame BY <3>1, <3>2, <3>3, <2>4, RowFrame DEF ContentFrame
    <3> QED BY <3>1, <3>4, CheckFramed
  <2>5. CASE AttachPresign(h) BY <2>5 DEF AttachPresign, Answered
  <2>6. CASE PresignChunk(h)
    <3> HIDE DEF CheckInv, ContentInv, NeedsCheck, Row, Stamped, Index
    <3>1. PICK j \in Index : Read(h, "presign", "presign", j, 0) BY <2>6 DEF PresignChunk,
        CompleteChunk
    <3>2. \A g \in Requests : pc'[g] = "mark" => pc[g] = "mark" /\ idx'[g] = idx[g] /\ size'[g] = size[g]
      BY <3>1 DEF Read
    <3>4. ContentFrame BY <3>1, <3>2 DEF Read, ContentFrame
    <3> QED BY <3>1, <3>4, CheckFramed DEF Read
  <2>7. CASE PresignChunkMark(h)
    <3> HIDE DEF CheckInv, ContentInv, NeedsCheck, Row, Stamped, Index
    <3>1. idx[h] \in Index /\ Answered(h) /\ UNCHANGED <<store, merger, ghosts>> BY <2>7
        DEF PresignChunkMark
    <3>2. \A g \in Requests : pc'[g] = "mark" => pc[g] = "mark" /\ idx'[g] = idx[g] /\ size'[g] = size[g]
      BY <3>1 DEF Answered
    <3>4. ContentFrame BY <3>1, <3>2, <2>7, RowFrame DEF ContentFrame
    <3> QED BY <3>1, <3>4, CheckFramed
  <2>8. CASE CompleteChunk(h)
    <3> HIDE DEF CheckInv, ContentInv, NeedsCheck, Row, Stamped, Index
    <3>1. PICK j \in Index, z \in Sizes : Read(h, "complete", "head", j, z) BY <2>8
        DEF PresignChunk, CompleteChunk
    <3>2. \A g \in Requests : pc'[g] = "mark" => pc[g] = "mark" /\ idx'[g] = idx[g] /\ size'[g] = size[g]
      BY <3>1 DEF Read
    <3>4. ContentFrame BY <3>1, <3>2 DEF Read, ContentFrame
    <3> QED BY <3>1, <3>4, CheckFramed DEF Read
  <2>9. CASE HeadObject(h)
    <3> HIDE DEF CheckInv, ContentInv, NeedsCheck, Row, Stamped, Index
    <3>1. idx[h] \in Index /\ pc[h] = "head" /\ UNCHANGED <<row, object, merged, merger, stirred>> BY <2>9 DEF HeadObject
    <3>2. CASE Answered(h) /\ UNCHANGED checked
      <4>1. ContentFrame BY <3>1, <3>2 DEF Answered, ContentFrame
      <4> QED BY <4>1, <3>1, ContentFramed, CheckFramed
    <3>3. CASE /\ object[idx[h]] = size[h] /\ pc' = [pc EXCEPT ![h] = "mark"]
               /\ checked' = [checked EXCEPT ![idx[h]] = object[idx[h]]] /\ UNCHANGED idx
      <4>1. object[idx[h]] # None BY <3>1, <3>3, WorkloadTypes DEF None
      <4>2. \A i \in Index : checked[i] # None => checked'[i] # None BY <3>1, <3>3, <4>1
      <4>3. \A g \in Requests : pc'[g] = "mark" /\ g # h => pc[g] = "mark" BY <3>3
      <4>4. checked'[idx[h]] # None BY <3>1, <3>3, <4>1
      <4>5. \A i \in Index : NeedsCheck(i)' => NeedsCheck(i) \/ i = idx[h] BY <3>1, <3>3,
          <4>3 DEF NeedsCheck
      <4> QED BY <4>2, <4>4, <4>5 DEF CheckInv
    <3> QED BY <3>2, <3>3, <2>9, HeadOutcomes
  <2>10. CASE MarkChunkCompleted(h) BY <2>10 DEF MarkChunkCompleted, Answered
  <2> QED BY <1>1, <2>1, <2>2, <2>3, <2>4, <2>5, <2>6, <2>7, <2>8, <2>9, <2>10 DEF RequestStep
<1>2. ASSUME NEW m \in Mergers, MergeStep(m) PROVE CheckInv'
  <2>1. CASE MergeRequested(m) BY <2>1 DEF MergeRequested, MergeGoto
  <2>2. CASE InitiateMultipartUpload(m) BY <2>2 DEF InitiateMultipartUpload, MergeGoto,
      MergeReturns
  <2>3. CASE UploadPartCopy(m) BY <2>3 DEF UploadPartCopy, MergeGoto
  <2>4. CASE CompleteMultipartUpload(m) BY <2>4 DEF CompleteMultipartUpload, MergeGoto
  <2>5. CASE AbortMultipartUpload(m) BY <2>5 DEF AbortMultipartUpload, MergeGoto, MergeReturns
  <2>6. CASE DeleteChunks(m) BY <2>6 DEF DeleteChunks, MergeGoto, MergeReturns
  <2>7. CASE ContextExpires(m) BY <2>7 DEF ContextExpires
  <2> QED BY <1>2, <2>1, <2>2, <2>3, <2>4, <2>5, <2>6, <2>7 DEF MergeStep
<1>3. ASSUME NEW i \in Index, NEW s \in Sizes, Put(i, s) PROVE CheckInv'
  BY <1>3 DEF Put
<1>4. CASE Tick BY <1>4 DEF Tick
<1>5. CASE Crash BY <1>5 DEF Crash
<1>6. CASE UNCHANGED vars BY <1>6 DEF vars
<1> QED BY <1>1, <1>2, <1>3, <1>4, <1>5, <1>6 DEF Next

LEMMA ContentNext ==
    ASSUME CountTypes, RowTypes, ControlTypes, StoreTypes, MergerTypes, MergedTypes, CheckInv, ContentInv, [Next]_vars PROVE ContentInv'
<1> USE WorkloadTypes DEF RowTypes, ControlTypes, StoreTypes, MergerTypes, MergedTypes,
    CheckInv, NeedsCheck, ContentInv, Row, Stamped, None, Index, request, merger, store,
    counts, ghosts
<1>1. ASSUME NEW h \in Requests, RequestStep(h) PROVE ContentInv'
  <2>1. CASE UploadVideoInit(h) BY <2>1 DEF UploadVideoInit, Read
  <2>2. CASE RefreshSkip(h)
    <3> HIDE DEF CheckInv, ContentInv, NeedsCheck, Row, Stamped, Index
    <3>1. NextChunk(h) /\ pc[h] = "refresh" /\ UNCHANGED <<row, size, store, merger, ghosts>> BY <2>2 DEF RefreshSkip
    <3>2. \A g \in Requests : pc'[g] = "mark" => pc[g] = "mark" /\ idx'[g] = idx[g]
        BY <3>1 DEF NextChunk
    <3>4. ContentFrame BY <3>1, <3>2 DEF ContentFrame
    <3> QED BY <3>4, ContentFramed
  <2>3. CASE PresignPutURL(h) BY <2>3 DEF PresignPutURL
  <2>4. CASE UpdateUploadChunkPresign(h)
    <3> HIDE DEF CheckInv, ContentInv, NeedsCheck, Row, Stamped, Index
    <3>1. idx[h] \in Index /\ NextChunk(h) /\ UNCHANGED <<size, store, merger, ghosts>>
        BY <2>4 DEF UpdateUploadChunkPresign
    <3>2. \A g \in Requests : pc'[g] = "mark" => pc[g] = "mark" /\ g # h BY <3>1, NextChunkTypes
    <3>3. \A g \in Requests : g # h => idx'[g] = idx[g] BY <3>1 DEF NextChunk
    <3>4. ContentFrame BY <3>1, <3>2, <3>3, <2>4, RowFrame DEF ContentFrame
    <3> QED BY <3>4, ContentFramed
  <2>5. CASE AttachPresign(h)
    <3> HIDE DEF CheckInv, ContentInv, NeedsCheck, Row, Stamped, Index
    <3>1. Answered(h) /\ UNCHANGED <<row, store, merger, ghosts>> BY <2>5 DEF AttachPresign
    <3>2. \A g \in Requests : pc'[g] = "mark" => pc[g] = "mark" /\ idx'[g] = idx[g] /\ size'[g] = size[g]
      BY <3>1 DEF Answered
    <3>4. ContentFrame BY <3>1, <3>2 DEF ContentFrame
    <3> QED BY <3>4, ContentFramed
  <2>6. CASE PresignChunk(h)
    <3> HIDE DEF CheckInv, ContentInv, NeedsCheck, Row, Stamped, Index
    <3>1. PICK j \in Index : Read(h, "presign", "presign", j, 0) BY <2>6 DEF PresignChunk,
        CompleteChunk
    <3>2. \A g \in Requests : pc'[g] = "mark" => pc[g] = "mark" /\ idx'[g] = idx[g] /\ size'[g] = size[g]
      BY <3>1 DEF Read
    <3>4. ContentFrame BY <3>1, <3>2 DEF Read, ContentFrame
    <3> QED BY <3>4, ContentFramed
  <2>7. CASE PresignChunkMark(h)
    <3> HIDE DEF CheckInv, ContentInv, NeedsCheck, Row, Stamped, Index
    <3>1. idx[h] \in Index /\ Answered(h) /\ UNCHANGED <<store, merger, ghosts>> BY <2>7
        DEF PresignChunkMark
    <3>2. \A g \in Requests : pc'[g] = "mark" => pc[g] = "mark" /\ idx'[g] = idx[g] /\ size'[g] = size[g]
      BY <3>1 DEF Answered
    <3>4. ContentFrame BY <3>1, <3>2, <2>7, RowFrame DEF ContentFrame
    <3> QED BY <3>4, ContentFramed
  <2>8. CASE CompleteChunk(h)
    <3> HIDE DEF CheckInv, ContentInv, NeedsCheck, Row, Stamped, Index
    <3>1. PICK j \in Index, z \in Sizes : Read(h, "complete", "head", j, z) BY <2>8
        DEF PresignChunk, CompleteChunk
    <3>2. \A g \in Requests : pc'[g] = "mark" => pc[g] = "mark" /\ idx'[g] = idx[g] /\ size'[g] = size[g]
      BY <3>1 DEF Read
    <3>4. ContentFrame BY <3>1, <3>2 DEF Read, ContentFrame
    <3> QED BY <3>4, ContentFramed
  <2>9. CASE HeadObject(h)
    <3> HIDE DEF CheckInv, ContentInv, NeedsCheck, Row, Stamped, Index
    <3>1. idx[h] \in Index /\ pc[h] = "head" /\ UNCHANGED <<row, object, merged, merger, stirred>> BY <2>9 DEF HeadObject
    <3>2. CASE Answered(h) /\ UNCHANGED checked
      <4>1. ContentFrame BY <3>1, <3>2 DEF Answered, ContentFrame
      <4> QED BY <4>1, <3>1, ContentFramed, CheckFramed
    <3>3. CASE /\ object[idx[h]] = size[h] /\ pc' = [pc EXCEPT ![h] = "mark"]
               /\ checked' = [checked EXCEPT ![idx[h]] = object[idx[h]]] /\ UNCHANGED <<idx, size>>
      <4>1. object[idx[h]] # None BY <3>1, <3>3, WorkloadTypes DEF None
      <4> SUFFICES ASSUME NEW i \in Index \ stirred
            PROVE  /\ checked'[i] # None => object[i] \in {checked'[i], None}
                   /\ row[i].done => row[i].size = checked'[i]
                   /\ \A g \in Requests : pc'[g] = "mark" /\ idx[g] = i => size[g] = checked'[i]
                   /\ merged # <<>> => merged[i + 1] = checked'[i]
                   /\ \A m \in Mergers : i < Len(parts[m]) => parts[m][i + 1] = checked'[i]
        BY <3>1, <3>3 DEF ContentInv
      <4>2. CASE i # idx[h] BY <4>2, <3>1, <3>3 DEF ContentInv
      <4>3. CASE i = idx[h] /\ checked[i] # None
        <5>1. checked'[i] = checked[i] BY <4>1, <4>3, <3>1, <3>3 DEF ContentInv
        <5> QED BY <5>1, <4>3, <3>1, <3>3 DEF ContentInv
      <4>4. CASE i = idx[h] /\ checked[i] = None
        <5>1. ~NeedsCheck(i) BY <4>4 DEF CheckInv
        <5>2. \A m \in Mergers : parts[m] = <<>> BY <5>1 DEF NeedsCheck
        <5>3. checked'[i] = object[i] BY <4>4, <3>1, <3>3
        <5>4. \A m \in Mergers : ~(i < Len(parts[m])) BY <5>2, EmptySeq, WorkloadTypes DEF Index
        <5> QED BY <5>1, <5>3, <5>4, <4>4, <3>3, <3>1 DEF NeedsCheck
      <4> QED BY <4>2, <4>3, <4>4
    <3> QED BY <3>2, <3>3, <2>9, HeadOutcomes
  <2>10. CASE MarkChunkCompleted(h)
    <3> HIDE DEF CheckInv, ContentInv, NeedsCheck, Row, Stamped, Index
    <3>1. idx[h] \in Index /\ pc[h] = "mark" /\ Answered(h) /\ UNCHANGED <<store, merger, ghosts>>
      BY <2>10 DEF MarkChunkCompleted
    <3>2. \A g \in Requests : pc'[g] = "mark" => pc[g] = "mark" /\ idx'[g] = idx[g] /\ size'[g] = size[g]
      BY <3>1 DEF Answered
    <3>3. \A i \in Index \ stirred : row'[i].done => row'[i].size = checked[i]
      <4>1. CASE row' = row BY <4>1 DEF ContentInv
      <4>2. CASE row' = [row EXCEPT ![idx[h]] = Finished(row[idx[h]], size[h])]
        <5>1. row[idx[h]] \in Row /\ size[h] \in Sizes \cup {0} BY <3>1
        <5>2. Finished(row[idx[h]], size[h]).size = size[h] BY <5>1, FinishedSize
        <5> QED BY <3>1, <4>2, <5>2 DEF ContentInv
      <4> QED BY <4>1, <4>2, <3>1, <2>10, MarkOutcomes
    <3> QED BY <3>1, <3>2, <3>3 DEF ContentInv
  <2> QED BY <1>1, <2>1, <2>2, <2>3, <2>4, <2>5, <2>6, <2>7, <2>8, <2>9, <2>10 DEF RequestStep
<1>2. ASSUME NEW m \in Mergers, MergeStep(m) PROVE ContentInv'
  <2>1. CASE MergeRequested(m)
    <3> HIDE DEF CheckInv, ContentInv, NeedsCheck, Row, Stamped, Index
    <3>1. ContentFrame BY <2>1 DEF MergeRequested, ContentFrame
    <3> QED BY <3>1, ContentFramed
  <2>2. CASE InitiateMultipartUpload(m)
    <3> HIDE DEF CheckInv, ContentInv, NeedsCheck, Row, Stamped, Index
    <3>1. ContentFrame BY <2>2 DEF InitiateMultipartUpload, MergeReturns, ContentFrame
    <3> QED BY <3>1, ContentFramed
  <2>3. CASE UploadPartCopy(m)
    <3> HIDE DEF CheckInv, ContentInv, NeedsCheck, Row, Stamped, Index
    <3>1. mpc[m] = "copy" /\ UNCHANGED <<request, row, store, ghosts>> BY <2>3
        DEF UploadPartCopy
    <3>2. CASE UNCHANGED parts
      <4>1. ContentFrame BY <3>1, <3>2 DEF ContentFrame
      <4> QED BY <4>1, ContentFramed
    <3>3. ASSUME NEW j \in Index, j = Len(parts[m]), object[j] # None,
                 parts' = [parts EXCEPT ![m] = Append(parts[m], object[j])]
          PROVE  ContentInv'
      <4>1. j \notin stirred => object[j] = checked[j] BY <3>1, <3>3 DEF ContentInv, CheckInv,
          NeedsCheck
      <4>2. object[j] \in Sizes BY <3>3
      <4>3. /\ Len(Append(parts[m], object[j])) = j + 1 /\ Append(parts[m], object[j])[j + 1] = object[j]
            /\ \A k \in 1 .. j : Append(parts[m], object[j])[k] = parts[m][k]
        BY <3>3, <4>2, AppendProperties
      <4>4. \A i \in Index \ stirred : i < Len(parts'[m]) => parts'[m][i + 1] = checked[i]
        <5> SUFFICES ASSUME NEW i \in Index \ stirred, i < j + 1
              PROVE  Append(parts[m], object[j])[i + 1] = checked[i]
          BY <3>3, <4>3
        <5>1. CASE i = j BY <5>1, <4>1, <4>3
        <5>2. CASE i # j
          <6>1. i < j /\ i + 1 \in 1 .. j BY <5>2, WorkloadTypes DEF Index
          <6> QED BY <6>1, <3>3, <4>3 DEF ContentInv
        <5> QED BY <5>1, <5>2
      <4>5. \A n \in Mergers : n # m => parts'[n] = parts[n] BY <3>3
      <4> SUFFICES ASSUME NEW i \in Index \ stirred, NEW n \in Mergers, i < Len(parts'[n])
            PROVE  parts'[n][i + 1] = checked[i]
        BY <3>1 DEF ContentInv
      <4>6. CASE n = m BY <4>4, <4>6
      <4>7. CASE n # m BY <4>5, <4>7 DEF ContentInv
      <4> QED BY <4>6, <4>7
    <3> QED BY <3>2, <3>3, <2>3 DEF UploadPartCopy
  <2>4. CASE CompleteMultipartUpload(m)
    <3> HIDE DEF CheckInv, ContentInv, NeedsCheck, Row, Stamped, Index
    <3>1. mpc[m] = "complete" /\ UNCHANGED <<request, row, object, parts, ghosts>> BY <2>4
        DEF CompleteMultipartUpload
    <3>2. merged' \in {merged, parts[m]} BY <2>4 DEF CompleteMultipartUpload
    <3>3. \A i \in Index \ stirred : merged' # <<>> => merged'[i + 1] = checked[i]
      <4>1. \A i \in Index : i < Len(parts[m]) BY <3>1, WorkloadTypes DEF Index
      <4> QED BY <4>1, <3>2 DEF ContentInv
    <3> QED BY <3>1, <3>3 DEF ContentInv
  <2>5. CASE AbortMultipartUpload(m)
    <3> HIDE DEF CheckInv, ContentInv, NeedsCheck, Row, Stamped, Index
    <3>1. ContentFrame BY <2>5 DEF AbortMultipartUpload, MergeReturns, ContentFrame
    <3> QED BY <3>1, ContentFramed
  <2>6. CASE DeleteChunks(m)
    <3> HIDE DEF CheckInv, ContentInv, NeedsCheck, Row, Stamped, Index
    <3>1. UNCHANGED <<request, row, merged, ghosts>> /\ MergeReturns(m) BY <2>6 DEF DeleteChunks
    <3>2. \A i \in Index : object'[i] \in {object[i], None} BY <2>6 DEF DeleteChunks
    <3>3. \A n \in Mergers : parts'[n] \in {<<>>, parts[n]} BY <3>1 DEF MergeReturns
    <3>4. \A i \in Index : ~(i < Len(<<>>)) BY EmptySeq, WorkloadTypes DEF Index
    <3>5. \A i \in Index \ stirred : checked[i] # None => object'[i] \in {checked[i], None}
      BY <3>2 DEF ContentInv
    <3>6. \A i \in Index \ stirred : \A n \in Mergers : i < Len(parts'[n]) => parts'[n][i + 1] = checked[i]
      <4> SUFFICES ASSUME NEW i \in Index \ stirred, NEW n \in Mergers, i < Len(parts'[n])
            PROVE  parts'[n][i + 1] = checked[i]
        OBVIOUS
      <4>1. parts'[n] = parts[n] BY <3>3, <3>4
      <4> QED BY <4>1 DEF ContentInv
    <3> QED BY <3>1, <3>5, <3>6 DEF ContentInv
  <2>7. CASE ContextExpires(m) BY <2>7 DEF ContextExpires
  <2> QED BY <1>2, <2>1, <2>2, <2>3, <2>4, <2>5, <2>6, <2>7 DEF MergeStep
<1>3. ASSUME NEW i \in Index, NEW s \in Sizes, Put(i, s) PROVE ContentInv'
  <2> HIDE DEF CheckInv, NeedsCheck, Row, Stamped, Index
  <2>1. /\ UNCHANGED <<row, request, merger, merged, checked>> /\ object' = [object EXCEPT ![i] = s]
        /\ stirred' = IF checked[i] # None THEN stirred \cup {i} ELSE stirred
    BY <1>3 DEF Put
  <2>2. \A j \in Index \ stirred' : j \in Index \ stirred BY <2>1
  <2>3. \A j \in Index \ stirred' : checked[j] # None => object'[j] = object[j] BY <2>1
  <2> QED BY <2>1, <2>2, <2>3
<1>4. CASE Tick BY <1>4 DEF Tick
<1>5. CASE Crash BY <1>5 DEF Crash
<1>6. CASE UNCHANGED vars BY <1>6 DEF vars
<1> QED BY <1>1, <1>2, <1>3, <1>4, <1>5, <1>6 DEF Next

\* A chunk that is left alone after its check is in the merged object as it
\* was checked.
THEOREM MergedAsChecked == Spec => []MergedIsWhatWasChecked
<1> DEFINE Inv == Types /\ CheckInv /\ ContentInv
<1>1. Init => Inv BY TypesInit, ContentInit
<1>2. Inv /\ [Next]_vars => Inv' BY TypesNext, CheckNext, ContentNext DEF Types
<1>3. Inv => MergedIsWhatWasChecked BY DEF ContentInv, MergedIsWhatWasChecked
<1> QED BY <1>1, <1>2, <1>3, PTL DEF Spec

-----------------------------------------------------------------------------
(* ChunkTransfer implements DurableUpload.                                 *)

\* A chunk of which there is a copied part stays in the store until the upload is
\* merged, and only who merged it deletes.
SourceInv ==
    /\ \A m \in Mergers : mpc[m] = "delete" => merged # <<>>
    /\ merged = <<>> =>
         \A m \in Mergers, i \in Index : i < Len(parts[m]) => object[i] # None

\* At first nothing is copied.
LEMMA SourceInit == Init => SourceInv
<1>1. Len(<<>>) = 0 /\ \A i \in Index : i >= 0
  BY EmptySeq, WorkloadTypes DEF Index
<1> QED
  BY <1>1, WorkloadTypes DEF Init, SourceInv, Index

\* A step that neither merges nor deletes nor copies.
SourceFrame ==
    /\ UNCHANGED merged
    /\ \A i \in Index : object[i] # None => object'[i] # None
    /\ \A m \in Mergers : /\ parts'[m] \in {<<>>, parts[m]}
                          /\ mpc'[m] = "delete" => mpc[m] = "delete"

\* It keeps SourceInv.
LEMMA SourceFramed ==
    ASSUME SourceInv, SourceFrame PROVE SourceInv'
<1>1. \A i \in Index : ~ (i < Len(<<>>))
  BY EmptySeq, WorkloadTypes DEF Index
<1>2. ASSUME merged' = <<>>, NEW m \in Mergers, NEW i \in Index, i < Len(parts'[m])
      PROVE  object'[i] # None
  <2>1. parts'[m] = parts[m]
    BY <1>1, <1>2 DEF SourceFrame
  <2> QED
    BY <1>2, <2>1 DEF SourceInv, SourceFrame
<1>3. \A m \in Mergers : mpc'[m] = "delete" => merged' # <<>>
  BY DEF SourceInv, SourceFrame
<1> QED
  BY <1>2, <1>3 DEF SourceInv

\* What a client has put and the store has merged, as DurableUpload sees it.
Stored == {i \in Index : object[i] # None}

\* Requests, the clock and a restart leave the store alone.
LEMMA RequestsKeepSource ==
    ASSUME MergerTypes, \/ \E h \in Requests : RequestStep(h)
                        \/ Tick \/ Crash \/ UNCHANGED vars
    PROVE  SourceFrame /\ UNCHANGED <<object, merged>>
<1> USE DEF MergerTypes, SourceFrame, merger, store
<1>1. ASSUME NEW h \in Requests, RequestStep(h)
      PROVE  SourceFrame /\ UNCHANGED <<object, merged>>
  <2>1. UNCHANGED <<store, merger>>
    <3>1. UploadVideoInit(h) => UNCHANGED <<store, merger>>
      BY DEF UploadVideoInit, Read
    <3>2. RefreshSkip(h) => UNCHANGED <<store, merger>>
      BY DEF RefreshSkip
    <3>3. PresignPutURL(h) => UNCHANGED <<store, merger>>
      BY DEF PresignPutURL
    <3>4. UpdateUploadChunkPresign(h) => UNCHANGED <<store, merger>>
      BY DEF UpdateUploadChunkPresign
    <3>5. AttachPresign(h) => UNCHANGED <<store, merger>>
      BY DEF AttachPresign
    <3>6. PresignChunk(h) => UNCHANGED <<store, merger>>
      BY DEF PresignChunk, Read
    <3>7. PresignChunkMark(h) => UNCHANGED <<store, merger>>
      BY DEF PresignChunkMark
    <3>8. CompleteChunk(h) => UNCHANGED <<store, merger>>
      BY DEF CompleteChunk, Read
    <3>9. HeadObject(h) => UNCHANGED <<store, merger>>
      BY DEF HeadObject
    <3>10. MarkChunkCompleted(h) => UNCHANGED <<store, merger>>
      BY DEF MarkChunkCompleted
    <3> QED
      BY <1>1, <3>1, <3>2, <3>3, <3>4, <3>5, <3>6, <3>7, <3>8, <3>9, <3>10 DEF RequestStep
  <2> QED
    BY <2>1
<1>2. CASE Tick
  BY <1>2 DEF Tick
<1>3. CASE Crash
  BY <1>3 DEF Crash
<1>4. CASE UNCHANGED vars
  BY <1>4 DEF vars
<1> QED
  BY <1>1, <1>2, <1>3, <1>4

\* So do mergers before the completion, and after an error.
LEMMA MergersKeepSource ==
    ASSUME MergerTypes, NEW m \in Mergers,
           \/ MergeRequested(m) \/ InitiateMultipartUpload(m)
           \/ AbortMultipartUpload(m) \/ ContextExpires(m)
    PROVE  SourceFrame /\ UNCHANGED <<object, merged>>
<1> USE DEF MergerTypes, SourceFrame, merger, store, MergeGoto, MergeReturns
<1>1. CASE MergeRequested(m)
  BY <1>1 DEF MergeRequested
<1>2. CASE InitiateMultipartUpload(m)
  BY <1>2 DEF InitiateMultipartUpload
<1>3. CASE AbortMultipartUpload(m)
  BY <1>3 DEF AbortMultipartUpload
<1>4. CASE ContextExpires(m)
  BY <1>4 DEF ContextExpires
<1> QED
  BY <1>1, <1>2, <1>3, <1>4

\* A part is copied from a chunk that is there.
LEMMA CopyKeepsSource ==
    ASSUME Types, SourceInv, NEW m \in Mergers, UploadPartCopy(m)
    PROVE  SourceInv' /\ UNCHANGED <<object, merged>>
<1>0. UNCHANGED <<object, merged>> /\ mpc[m] = "copy" /\ parts \in [Mergers -> Seq(Sizes)]
  BY DEF UploadPartCopy, store, Types, MergerTypes
<1>1. \A n \in Mergers : mpc'[n] = "delete" => mpc[n] = "delete"
  BY DEF UploadPartCopy, MergeGoto, Types, MergerTypes
<1>2. CASE UNCHANGED parts
  <2>1. SourceFrame
    BY <1>0, <1>1, <1>2 DEF SourceFrame
  <2> QED
    BY <1>0, <2>1, SourceFramed
<1>3. ASSUME NEW j \in Index, j = Len(parts[m]), object[j] # None,
             parts' = [parts EXCEPT ![m] = Append(parts[m], object[j])]
      PROVE  SourceInv'
  <2>1. object[j] \in Sizes /\ parts[m] \in Seq(Sizes)
    BY <1>0, <1>3 DEF Types, StoreTypes
  <2>2. Len(parts'[m]) = j + 1
    BY <1>0, <1>3, <2>1, AppendProperties
  <2>3. ASSUME merged = <<>>, NEW n \in Mergers, NEW i \in Index, i < Len(parts'[n])
        PROVE  object[i] # None
    <3>1. CASE n # m
      <4>1. parts'[n] = parts[n]
        BY <1>0, <1>3, <3>1
      <4> QED
        BY <2>3, <4>1 DEF SourceInv
    <3>2. CASE n = m
      <4>1. i = j \/ i < Len(parts[m])
        BY <1>3, <2>2, <2>3, <3>2, WorkloadTypes DEF Index
      <4> QED
        BY <1>3, <2>3, <4>1 DEF SourceInv
    <3> QED
      BY <3>1, <3>2
  <2> QED
    BY <1>0, <1>1, <2>3 DEF SourceInv
<1> QED
  BY <1>0, <1>2, <1>3 DEF UploadPartCopy

\* A merger that completes has a part of every chunk: unless the upload was merged
\* before, all chunks are there.
LEMMA CompletionIsMerge ==
    ASSUME Types, SourceInv, NEW m \in Mergers, CompleteMultipartUpload(m)
    PROVE  /\ SourceInv' /\ UNCHANGED object
           /\ \/ merged' = merged
              \/ merged' # <<>> /\ (merged = <<>> => Stored = Index)
<1>0. /\ mpc[m] = "complete" /\ UNCHANGED <<object, parts>>
      /\ mpc \in [Mergers -> MergePC] /\ parts \in [Mergers -> Seq(Sizes)]
  BY DEF CompleteMultipartUpload, Types, MergerTypes
<1>1. CASE merged' = parts[m]
  <2>1. Len(parts[m]) = TotalChunks /\ TotalChunks \in Nat \ {0}
    BY <1>0, WorkloadTypes DEF Types, MergerTypes
  <2>2. merged' # <<>>
    BY <1>1, <2>1, EmptySeq
  <2>3. merged = <<>> => \A i \in Index : object[i] # None
    BY <2>1 DEF SourceInv, Index
  <2>4. SourceInv'
    BY <2>2 DEF SourceInv
  <2> QED
    BY <1>0, <2>2, <2>3, <2>4 DEF Stored
<1>2. CASE mpc' = [mpc EXCEPT ![m] = "abort"] /\ UNCHANGED merged
  <2>1. SourceFrame
    BY <1>0, <1>2 DEF SourceFrame
  <2> QED
    BY <1>0, <1>2, <2>1, SourceFramed
<1> QED
  BY <1>1, <1>2 DEF CompleteMultipartUpload, MergeGoto

\* Every step handles the bytes as DurableUpload allows, or leaves them alone.
LEMMA DurableStep ==
    ASSUME Types, SourceInv, [Next]_vars
    PROVE  SourceInv' /\ [Durable!Next]_(Durable!vars)
<1> DEFINE u == "upload"
<1>1. ASSUME UNCHANGED <<object, merged>> PROVE UNCHANGED Durable!vars
  BY <1>1 DEF Durable!vars
<1>2. CASE \/ \E h \in Requests : RequestStep(h)
           \/ Tick \/ Crash \/ UNCHANGED vars
  BY <1>1, <1>2, RequestsKeepSource, SourceFramed DEF Types
<1>3. ASSUME NEW m \in Mergers,
             \/ MergeRequested(m) \/ InitiateMultipartUpload(m)
             \/ AbortMultipartUpload(m) \/ ContextExpires(m)
      PROVE  SourceInv' /\ [Durable!Next]_(Durable!vars)
  BY <1>1, <1>3, MergersKeepSource, SourceFramed DEF Types
<1>4. ASSUME NEW m \in Mergers, UploadPartCopy(m)
      PROVE  SourceInv' /\ [Durable!Next]_(Durable!vars)
  BY <1>1, <1>4, CopyKeepsSource
<1>5. ASSUME NEW m \in Mergers, CompleteMultipartUpload(m)
      PROVE  SourceInv' /\ [Durable!Next]_(Durable!vars)
  <2>1. SourceInv' /\ UNCHANGED object
    BY <1>5, CompletionIsMerge
  <2>2. CASE merged' = merged \/ (merged' # <<>> /\ merged # <<>>)
    BY <2>1, <2>2 DEF Durable!vars
  <2>3. CASE merged' # <<>> /\ merged = <<>> /\ Stored = Index
    <3>1. Durable!Merge(u)
      BY <2>1, <2>3 DEF Durable!Merge, Stored
    <3> QED
      BY <2>1, <3>1 DEF Durable!Next
  <2> QED
    BY <1>5, <2>2, <2>3, CompletionIsMerge
<1>6. ASSUME NEW m \in Mergers, DeleteChunks(m)
      PROVE  SourceInv' /\ [Durable!Next]_(Durable!vars)
  <2>1. PICK D \in SUBSET Index :
          object' = [i \in Index |-> IF i \in D THEN None ELSE object[i]]
    BY <1>6 DEF DeleteChunks
  <2>2. merged # <<>> /\ UNCHANGED merged
    BY <1>6 DEF DeleteChunks, SourceInv
  <2>3. SourceInv'
    BY <2>2 DEF SourceInv
  <2>4. {i \in Index : object'[i] # None} = {i \in Index : object[i] # None} \ D
    BY <2>1
  <2>5. Durable!Reclaim(u, D)
    BY <2>2, <2>4 DEF Durable!Reclaim
  <2> QED
    BY <2>3, <2>5 DEF Durable!Next
<1>7. ASSUME NEW i \in Index, NEW s \in Sizes, Put(i, s)
      PROVE  SourceInv' /\ [Durable!Next]_(Durable!vars)
  <2>1. /\ object' = [object EXCEPT ![i] = s] /\ UNCHANGED <<merged, mpc, parts>>
        /\ object \in [Index -> Sizes \cup {None}] /\ s # None
    BY <1>7, WorkloadTypes DEF Put, merger, Types, StoreTypes, None
  <2>2. SourceFrame
    BY <2>1 DEF SourceFrame
  <2>3. {j \in Index : object'[j] # None} = {j \in Index : object[j] # None} \cup {i}
    BY <2>1
  <2>4. Durable!Put(u, i)
    BY <2>1, <2>3 DEF Durable!Put
  <2> QED
    BY <2>2, <2>4, SourceFramed DEF Durable!Next
<1> QED
  BY <1>2, <1>3, <1>4, <1>5, <1>6, <1>7 DEF Next, MergeStep

\* With contents, expiring contexts and failing multipart uploads in view, an upload
\* is merged from a complete set of chunks only, and a chunk is deleted only once
\* its upload is merged.
THEOREM ImplementsDurableUpload == Spec => DurableSpec
<1>1. Init => Types /\ SourceInv
  BY TypesInit, SourceInit
<1>2. (Types /\ SourceInv) /\ [Next]_vars =>
        (Types /\ SourceInv)' /\ [Durable!Next]_(Durable!vars)
  BY TypesNext, DurableStep
<1>3. Init => Durable!Init
  BY DEF Init, Durable!Init
<1> QED
  BY <1>1, <1>2, <1>3, PTL DEF Spec, DurableSpec, Durable!Spec
=============================================================================
