------------------------- MODULE VideoPublishProofs -------------------------
(***************************************************************************)
(* Proofs about VideoPublish, for any number of uploads, videos, requests  *)
(* and calls of the transcoder, with or without faults.                    *)
(***************************************************************************)
EXTENDS VideoPublish, TLAPS

-----------------------------------------------------------------------------
(* What the building blocks of the actions do to the control state.        *)

\* Only process p moves.
Moves(p) ==
    /\ ControlTypeOK'
    /\ \A q \in Procs \ {p} : /\ pc'[q] = pc[q] /\ upload'[q] = upload[q]
                              /\ at'[q] = at[q] /\ to'[q] = to[q]

\* No row, announcement or message is taken back.
Grows ==
    /\ \A v \in Videos : Created(v) => Created(v)'
    /\ precreated \subseteq precreated'
    /\ topic \subseteq topic'

\* A process that returns is idle.
LEMMA DoneMoves ==
    ASSUME TypeOK, NEW p \in Procs, Done(p)
    PROVE  Moves(p) /\ pc'[p] = "idle" /\ to'[p] = "None"
BY DEF Done, Goto, Moves, TypeOK, ControlTypeOK, VideoStatus

\* A process that goes on keeps its local variables.
LEMMA GotoMoves ==
    ASSUME TypeOK, NEW p \in Procs, NEW l \in {"idle"} \cup HandlerPC \cup UpdatePC,
           Goto(p, l), UNCHANGED locals
    PROVE  Moves(p) /\ pc'[p] = l
BY DEF Goto, locals, Moves, TypeOK, ControlTypeOK

\* A process that calls UpdateVideoTranscodeInfo has its arguments.
LEMMA StartUpdateMoves ==
    ASSUME TypeOK, NEW p \in Procs, NEW v \in Videos, NEW s \in VideoStatus,
           StartUpdate(p, v, s)
    PROVE  /\ Moves(p) /\ pc'[p] = "update.find"
           /\ upload'[p] = upload[p] /\ at'[p] = v /\ to'[p] = s
BY DEF StartUpdate, Goto, Moves, TypeOK, ControlTypeOK, UpdatePC

\* When one process moves and nothing is taken back, the others still know what
\* they knew.
LEMMA OthersMatch ==
    ASSUME TypeOK, NEW p \in Procs, Moves(p), Grows, LocalsMatchPc(p)'
    PROVE  \A q \in Procs : LocalsMatchPc(q)'
<1>1. ASSUME NEW q \in Procs \ {p} PROVE LocalsMatchPc(q)'
  BY DEF Moves, Grows, TypeOK, LocalsMatchPc
<1> QED
  BY <1>1

\* An idle process knows nothing, and need not.
LEMMA IdleMatches ==
    ASSUME NEW p \in Procs, pc[p] = "idle", to[p] = "None"
    PROVE  LocalsMatchPc(p)
BY DEF LocalsMatchPc, HandlerPC, UpdatePC

\* A step that leaves rows, announcements and messages alone takes none back.
LEMMA FrameGrows ==
    ASSUME TypeOK, UNCHANGED <<video, external>>
    PROVE  Grows /\ OrderOK'
BY DEF external, Grows, Created, TypeOK, OrderOK

\* The row that CreateVideo writes.
LEMMA NewRow ==
    ASSUME NEW u \in Uploads
    PROVE  LET r == [NoRow EXCEPT !.upload = u, !.status = "Processing"]
           IN  r \in Row /\ r.upload = u /\ r.status = "Processing" /\ r.published = "null"
BY DEF NoRow, Row, VideoStatus

\* The row that UpdateRow writes: it refers to the same upload and keeps its date.
LEMMA UpdatedRow ==
    ASSUME NEW p \in Procs, NEW r \in Row, to[p] \in VideoStatus
    PROVE  LET n == [r EXCEPT !.status = to[p],
                              !.task = IF p \in Calls THEN "task" ELSE "",
                              !.published = IF to[p] = "Published" THEN "date" ELSE r.published]
           IN  /\ n \in Row /\ n.upload = r.upload /\ n.status = to[p]
               /\ to[p] = "Published" => n.published = "date"
               /\ to[p] # "Published" => n.published = r.published
BY DEF Row

\* What UpdateRow does to the table.
LEMMA UpdateRowEffect ==
    ASSUME TypeOK, NEW p \in Procs, UpdateRow(p)
    PROVE  /\ at[p] \in Videos /\ Created(at[p]) /\ to[p] \in VideoStatus \ {"None"}
           /\ to[p] = "Published" => at[p] \in topic
           /\ UNCHANGED external
           /\ video' \in [Videos -> Row]
           /\ \A w \in Videos \ {at[p]} : video'[w] = video[w]
           /\ video'[at[p]].upload = video[at[p]].upload
           /\ video'[at[p]].status = to[p]
           /\ to[p] = "Published" => video'[at[p]].published = "date"
           /\ to[p] # "Published" => video'[at[p]].published = video[at[p]].published
<1>1. /\ at[p] \in Videos /\ Created(at[p]) /\ to[p] \in VideoStatus \ {"None"}
      /\ to[p] = "Published" => at[p] \in topic
  BY DEF UpdateRow, TypeOK, ControlTypeOK, LocalsMatchPc, UpdatePC, Procs
<1>2. PICK n : /\ n \in Row /\ n.upload = video[at[p]].upload /\ n.status = to[p]
               /\ to[p] = "Published" => n.published = "date"
               /\ to[p] # "Published" => n.published = video[at[p]].published
               /\ video' = [video EXCEPT ![at[p]] = n]
  <2>1. video[at[p]] \in Row
    BY <1>1 DEF TypeOK, RowsTypeOK
  <2> QED
    <3> DEFINE n == [video[at[p]] EXCEPT
                        !.status = to[p],
                        !.task = IF p \in Calls THEN "task" ELSE "",
                        !.published = IF to[p] = "Published" THEN "date"
                                                        ELSE video[at[p]].published]
    <3>1. video' = [video EXCEPT ![at[p]] = n]
      BY DEF UpdateRow
    <3>2. /\ n \in Row /\ n.upload = video[at[p]].upload /\ n.status = to[p]
          /\ to[p] = "Published" => n.published = "date"
          /\ to[p] # "Published" => n.published = video[at[p]].published
      BY <1>1, <2>1, UpdatedRow
    <3> HIDE DEF n
    <3> QED
      BY <3>1, <3>2
<1>3. video \in [Videos -> Row]
  BY DEF TypeOK, RowsTypeOK
<1>4. video'[at[p]] = n /\ \A w \in Videos \ {at[p]} : video'[w] = video[w]
  BY <1>1, <1>2, <1>3
<1>5. video' \in [Videos -> Row]
  BY <1>1, <1>2, <1>3
<1> QED
  BY <1>1, <1>2, <1>4, <1>5 DEF UpdateRow

-----------------------------------------------------------------------------
(* TypeOK is inductive: one lemma per action.                              *)

\* No row, no message and no process at first.
LEMMA InitType == Init => TypeOK
<1> SUFFICES ASSUME Init PROVE TypeOK
  OBVIOUS
<1>1. RowsTypeOK /\ ControlTypeOK
  BY DEF Init, RowsTypeOK, ControlTypeOK, NoRow, Row, VideoStatus
<1>2. \A p \in Procs : LocalsMatchPc(p)
  BY IdleMatches DEF Init
<1>3. OrderOK
  BY DEF Init, OrderOK, Created, NoRow
<1> QED
  BY <1>1, <1>2, <1>3 DEF TypeOK

\* The request takes the upload it names.
LEMMA PublishFindType == ASSUME TypeOK, NEW p \in Requests, PublishFind(p) PROVE TypeOK'
<1>1. p \in Procs
  BY DEF Procs
<1>2. PICK u \in Uploads, l \in {"create", "merge"} :
         upload' = [upload EXCEPT ![p] = u] /\ Goto(p, l)
  BY DEF PublishFind
<1>3. Moves(p) /\ pc'[p] = l /\ upload'[p] = u
  BY <1>1, <1>2 DEF PublishFind, Goto, Moves, TypeOK, ControlTypeOK, HandlerPC
<1>4. LocalsMatchPc(p)'
  BY <1>1, <1>3, CallersAssumption
  DEF PublishFind, LocalsMatchPc, TypeOK, HandlerPC, UpdatePC
<1>5. RowsTypeOK' /\ Grows /\ OrderOK'
  BY FrameGrows DEF PublishFind, TypeOK, RowsTypeOK, external
<1> QED
  BY <1>1, <1>3, <1>4, <1>5, OthersMatch DEF TypeOK, Moves

\* Only the status of the upload changes.
LEMMA PublishMergeType == ASSUME TypeOK, NEW p \in Requests, PublishMerge(p) PROVE TypeOK'
<1>1. p \in Procs /\ p \notin Calls
  BY CallersAssumption DEF Procs
<1>2. RowsTypeOK'
  BY DEF PublishMerge, TypeOK, RowsTypeOK, external
<1>3. Grows /\ OrderOK'
  BY FrameGrows DEF PublishMerge
<1>4. Moves(p) /\ LocalsMatchPc(p)'
  <2>1. CASE Goto(p, "create") /\ UNCHANGED locals
    <3>1. Moves(p) /\ pc'[p] = "create"
      BY <1>1, <2>1, GotoMoves DEF HandlerPC
    <3> QED
      BY <1>1, <2>1, <3>1
      DEF PublishMerge, locals, TypeOK, LocalsMatchPc, HandlerPC, UpdatePC
  <2>2. CASE Done(p)
    BY <1>1, <2>2, DoneMoves, IdleMatches DEF LocalsMatchPc, HandlerPC, UpdatePC
  <2> QED
    BY <2>1, <2>2 DEF PublishMerge
<1> QED
  BY <1>1, <1>2, <1>3, <1>4, OthersMatch DEF TypeOK, Moves

\* The new row refers to the upload of the request; the other rows stay.
LEMMA CreateVideoType == ASSUME TypeOK, NEW p \in Requests, CreateVideo(p) PROVE TypeOK'
<1>1. p \in Procs /\ p \notin Calls
  BY CallersAssumption DEF Procs
<1>2. upload[p] \in Uploads /\ to[p] # "Published"
  BY <1>1 DEF CreateVideo, TypeOK, LocalsMatchPc, HandlerPC
<1>3. CASE Done(p) /\ UNCHANGED video
  <2>1. RowsTypeOK' /\ Grows /\ OrderOK'
    BY <1>3, FrameGrows DEF CreateVideo, TypeOK, RowsTypeOK, external
  <2>2. Moves(p) /\ LocalsMatchPc(p)'
    BY <1>1, <1>3, DoneMoves DEF LocalsMatchPc, HandlerPC, UpdatePC
  <2> QED
    BY <1>1, <2>1, <2>2, OthersMatch DEF TypeOK, Moves
<1>4. ASSUME NEW v \in Videos, ~Created(v),
             video' = [video EXCEPT ![v] = [NoRow EXCEPT !.upload = upload[p],
                                                         !.status = "Processing"]],
             at' = [at EXCEPT ![p] = v],
             Goto(p, "precreate"), UNCHANGED <<upload, to>>
      PROVE  TypeOK'
  <2>1. /\ video' \in [Videos -> Row]
        /\ video'[v].upload = upload[p] /\ video'[v].status = "Processing"
        /\ video'[v].published = "null"
        /\ \A w \in Videos \ {v} : video'[w] = video[w]
    BY <1>2, <1>4, NewRow DEF TypeOK, RowsTypeOK
  <2>2. RowsTypeOK'
    BY <2>1 DEF CreateVideo, external, TypeOK, RowsTypeOK
  <2>3. Grows
    BY <2>1 DEF CreateVideo, external, Grows, Created
  <2>4. OrderOK'
    BY <1>2, <1>4, <2>1 DEF CreateVideo, external, TypeOK, RowsTypeOK, OrderOK, Created
  <2>5. Moves(p) /\ pc'[p] = "precreate" /\ at'[p] = v
    BY <1>1, <1>4 DEF Goto, Moves, TypeOK, ControlTypeOK, HandlerPC
  <2>6. LocalsMatchPc(p)'
    BY <1>1, <1>2, <1>4, <2>1, <2>5 DEF LocalsMatchPc, Created, HandlerPC, UpdatePC
  <2> QED
    BY <1>1, <2>2, <2>3, <2>4, <2>5, <2>6, OthersMatch DEF TypeOK, Moves
<1> QED
  BY <1>3, <1>4 DEF CreateVideo

\* The video announced is the one of the handler, which has a row.
LEMMA PrecreateType == ASSUME TypeOK, NEW p \in Requests, Precreate(p) PROVE TypeOK'
<1>1. p \in Procs /\ p \notin Calls
  BY CallersAssumption DEF Procs
<1>2. /\ at[p] \in Videos /\ Created(at[p])
      /\ upload[p] \in Uploads /\ to[p] # "Published"
  BY <1>1 DEF Precreate, TypeOK, LocalsMatchPc, HandlerPC
<1>3. precreated' \in {precreated, precreated \cup {at[p]}} /\ UNCHANGED <<video, topic>>
  BY DEF Precreate
<1>4. RowsTypeOK' /\ Grows /\ OrderOK'
  BY <1>2, <1>3 DEF Precreate, TypeOK, RowsTypeOK, Grows, OrderOK, Created
<1>5. Moves(p) /\ LocalsMatchPc(p)'
  <2>1. CASE Goto(p, "produce") /\ UNCHANGED locals /\ precreated' = precreated \cup {at[p]}
    <3>1. Moves(p) /\ pc'[p] = "produce"
      BY <1>1, <2>1, GotoMoves DEF HandlerPC
    <3> QED
      BY <1>1, <1>2, <1>3, <2>1, <3>1
      DEF locals, LocalsMatchPc, Created, HandlerPC, UpdatePC
  <2>2. CASE Done(p)
    BY <1>1, <2>2, DoneMoves DEF LocalsMatchPc, HandlerPC, UpdatePC
  <2> QED
    BY <2>1, <2>2 DEF Precreate
<1> QED
  BY <1>1, <1>4, <1>5, OthersMatch DEF TypeOK, Moves

\* The video sent was announced; the status to write is never Published.
LEMMA ProduceType == ASSUME TypeOK, NEW p \in Requests, Produce(p) PROVE TypeOK'
<1>1. p \in Procs /\ p \notin Calls
  BY CallersAssumption DEF Procs
<1>2. at[p] \in Videos /\ Created(at[p]) /\ at[p] \in precreated
  BY <1>1 DEF Produce, TypeOK, LocalsMatchPc
<1>3. topic' \in {topic, topic \cup {at[p]}} /\ UNCHANGED <<video, precreated>>
  BY DEF Produce
<1>4. RowsTypeOK' /\ Grows /\ OrderOK'
  BY <1>2, <1>3 DEF Produce, TypeOK, RowsTypeOK, Grows, OrderOK, Created
<1>5. PICK s \in {"Processing", "Failed"} : StartUpdate(p, at[p], s)
  BY DEF Produce
<1>6. Moves(p) /\ pc'[p] = "update.find" /\ at'[p] = at[p] /\ to'[p] = s
  BY <1>1, <1>2, <1>5, StartUpdateMoves DEF VideoStatus
<1>7. LocalsMatchPc(p)'
  BY <1>1, <1>2, <1>3, <1>6 DEF LocalsMatchPc, Created, HandlerPC, UpdatePC
<1> QED
  BY <1>1, <1>4, <1>6, <1>7, OthersMatch DEF TypeOK, Moves

\* A report is about a video in the topic, and such a video has a row.
LEMMA UpdateTranscodeStatusType ==
    ASSUME TypeOK, NEW c \in Calls, UpdateTranscodeStatus(c) PROVE TypeOK'
<1>1. c \in Procs /\ c \notin Requests
  BY CallersAssumption DEF Procs
<1>2. PICK v \in topic, s \in VideoStatus \ {"None"} : StartUpdate(c, v, s)
  BY DEF UpdateTranscodeStatus
<1>3. v \in Videos /\ Created(v)
  BY DEF TypeOK, RowsTypeOK, OrderOK
<1>4. RowsTypeOK' /\ Grows /\ OrderOK'
  BY FrameGrows DEF UpdateTranscodeStatus, TypeOK, RowsTypeOK, external
<1>5. Moves(c) /\ pc'[c] = "update.find" /\ at'[c] = v /\ to'[c] = s
  BY <1>1, <1>2, <1>3, StartUpdateMoves
<1>6. LocalsMatchPc(c)'
  BY <1>1, <1>2, <1>3, <1>5
  DEF UpdateTranscodeStatus, external, LocalsMatchPc, Created, HandlerPC, UpdatePC
<1> QED
  BY <1>1, <1>4, <1>5, <1>6, OthersMatch DEF TypeOK, Moves

\* The row of the video is still there.
LEMMA UpdateFindType == ASSUME TypeOK, NEW p \in Procs, UpdateFind(p) PROVE TypeOK'
<1>1. RowsTypeOK' /\ Grows /\ OrderOK'
  BY FrameGrows DEF UpdateFind, TypeOK, RowsTypeOK, external
<1>2. Moves(p) /\ LocalsMatchPc(p)'
  <2>1. CASE Goto(p, "update.row") /\ UNCHANGED locals
    <3>1. Moves(p) /\ pc'[p] = "update.row"
      BY <2>1, GotoMoves DEF UpdatePC
    <3> QED
      BY <2>1, <3>1
      DEF UpdateFind, locals, external, TypeOK, LocalsMatchPc, Created, HandlerPC, UpdatePC
  <2>2. CASE Done(p)
    BY <2>2, DoneMoves DEF LocalsMatchPc, HandlerPC, UpdatePC
  <2> QED
    BY <2>1, <2>2 DEF UpdateFind
<1> QED
  BY <1>1, <1>2, OthersMatch DEF TypeOK, Moves

\* A date is only written by a call, whose video is in the topic.
LEMMA UpdateRowType == ASSUME TypeOK, NEW p \in Procs, UpdateRow(p) PROVE TypeOK'
<1>3. RowsTypeOK'
  BY UpdateRowEffect DEF UpdateRow, TypeOK, RowsTypeOK, external
<1>4. Grows
  BY UpdateRowEffect DEF UpdateRow, external, Grows, Created
<1>5. OrderOK'
  <2>1. \A v \in Videos : Created(v)' <=> Created(v)
    BY UpdateRowEffect DEF Created
  <2>2. \A v \in Videos : video'[v].published = "date" => v \in topic
    BY UpdateRowEffect DEF TypeOK, OrderOK
  <2>3. \A v \in Videos : Created(v) => video'[v].upload \in Uploads
    BY UpdateRowEffect DEF TypeOK, OrderOK
  <2>4. UNCHANGED external
    BY UpdateRowEffect
  <2> QED
    BY <2>1, <2>2, <2>3, <2>4 DEF external, TypeOK, RowsTypeOK, OrderOK
<1>6. Moves(p) /\ LocalsMatchPc(p)'
  <2>1. CASE Goto(p, "update.upload") /\ UNCHANGED locals
    <3>1. Moves(p) /\ pc'[p] = "update.upload"
      BY <2>1, GotoMoves DEF UpdatePC
    <3> QED
      BY <1>4, <2>1, <3>1
      DEF UpdateRow, locals, external, TypeOK, LocalsMatchPc, Grows, HandlerPC, UpdatePC
  <2>2. CASE Done(p)
    BY <2>2, DoneMoves DEF LocalsMatchPc, HandlerPC, UpdatePC
  <2> QED
    BY <2>1, <2>2 DEF UpdateRow
<1> QED
  BY <1>3, <1>4, <1>5, <1>6, OthersMatch DEF TypeOK, Moves

\* Only the status of the upload changes.
LEMMA UpdateUploadType == ASSUME TypeOK, NEW p \in Procs, UpdateUpload(p) PROVE TypeOK'
<1>1. RowsTypeOK' /\ Grows /\ OrderOK'
  BY FrameGrows DEF UpdateUpload, TypeOK, RowsTypeOK, external
<1>2. Moves(p) /\ LocalsMatchPc(p)'
  BY DoneMoves DEF UpdateUpload, LocalsMatchPc, HandlerPC, UpdatePC
<1> QED
  BY <1>1, <1>2, OthersMatch DEF TypeOK, Moves

\* The process returns.
LEMMA DbErrorType == ASSUME TypeOK, NEW p \in Procs, DbError(p) PROVE TypeOK'
<1>1. RowsTypeOK' /\ Grows /\ OrderOK'
  BY FrameGrows DEF DbError, TypeOK, RowsTypeOK, external
<1>2. Moves(p) /\ LocalsMatchPc(p)'
  BY DoneMoves DEF DbError, LocalsMatchPc, HandlerPC, UpdatePC
<1> QED
  BY <1>1, <1>2, OthersMatch DEF TypeOK, Moves

\* Every process is idle when the service starts again.
LEMMA CrashType == ASSUME TypeOK, Crash PROVE TypeOK'
<1>1. RowsTypeOK' /\ OrderOK'
  BY FrameGrows DEF Crash, TypeOK, RowsTypeOK, external
<1>2. ControlTypeOK'
  BY DEF Crash, ControlTypeOK, VideoStatus
<1>3. \A p \in Procs : LocalsMatchPc(p)'
  BY DEF Crash, LocalsMatchPc, HandlerPC, UpdatePC
<1> QED
  BY <1>1, <1>2, <1>3 DEF TypeOK

\* Every step keeps the types.
LEMMA TypeStep == TypeOK /\ [Next]_vars => TypeOK'
<1> SUFFICES ASSUME TypeOK, [Next]_vars PROVE TypeOK'
  OBVIOUS
<1>1. ASSUME NEW p \in Requests, PublishFind(p) \/ PublishStep(p) PROVE TypeOK'
  BY <1>1, PublishFindType, PublishMergeType, CreateVideoType, PrecreateType, ProduceType
  DEF PublishStep
<1>2. ASSUME NEW c \in Calls, UpdateTranscodeStatus(c) PROVE TypeOK'
  BY <1>2, UpdateTranscodeStatusType
<1>3. ASSUME NEW p \in Procs, UpdateStep(p) \/ DbError(p) PROVE TypeOK'
  BY <1>3, UpdateFindType, UpdateRowType, UpdateUploadType, DbErrorType DEF UpdateStep
<1>4. CASE Crash
  BY <1>4, CrashType
<1>5. CASE UNCHANGED vars
  BY <1>5 DEF vars, locals, external, TypeOK, RowsTypeOK, ControlTypeOK, LocalsMatchPc,
              OrderOK, Created
<1> QED
  BY <1>1, <1>2, <1>3, <1>4, <1>5 DEF Next

\* TypeOK always holds: in particular a video is only ordered after it was announced
\* and only dated after it was ordered.
THEOREM TypeCorrect == Spec => []TypeOK
<1> QED
  BY InitType, TypeStep, PTL DEF Spec

-----------------------------------------------------------------------------
(* VideoPublish implements VideoRelease.                                   *)

\* Every step creates, announces, orders or releases one video, or none of these.
LEMMA ReleaseStep == TypeOK /\ [Next]_vars => [Release!Next]_(Release!vars)
<1> SUFFICES ASSUME TypeOK, [Next]_vars, ~UNCHANGED Release!vars PROVE Release!Next
  OBVIOUS
<1> USE DEF Release!vars
<1>1. ASSUME NEW p \in Requests, CreateVideo(p) PROVE Release!Next
  <2>1. PICK v \in Videos :
           /\ ~Created(v)
           /\ video' = [video EXCEPT ![v] = [NoRow EXCEPT !.upload = upload[p],
                                                          !.status = "Processing"]]
    BY <1>1 DEF CreateVideo, external, Created
  <2>2. upload[p] \in Uploads
    BY <1>1 DEF CreateVideo, TypeOK, LocalsMatchPc, HandlerPC, Procs
  <2>3. /\ Created(v)' /\ video'[v].published = "null"
        /\ \A w \in Videos \ {v} : video'[w] = video[w]
    BY <2>1, <2>2, NewRow DEF TypeOK, RowsTypeOK, Created
  <2>4. video[v].published # "date"
    BY <2>1 DEF TypeOK, OrderOK
  <2>5. Release!Create(v)
    BY <1>1, <2>1, <2>3, <2>4 DEF CreateVideo, external, Created, Release!Create
  <2> QED
    BY <2>5 DEF Release!Next
<1>2. ASSUME NEW p \in Requests, Precreate(p) PROVE Release!Next
  <2>1. at[p] \in Videos /\ Created(at[p])
    BY <1>2 DEF Precreate, TypeOK, LocalsMatchPc, HandlerPC, Procs
  <2>2. Release!Announce(at[p])
    BY <1>2, <2>1 DEF Precreate, Created, Release!Announce
  <2> QED
    BY <2>1, <2>2 DEF Release!Next
<1>3. ASSUME NEW p \in Requests, Produce(p) PROVE Release!Next
  <2>1. at[p] \in Videos /\ at[p] \in precreated
    BY <1>3 DEF Produce, TypeOK, LocalsMatchPc, Procs, RowsTypeOK
  <2>2. Release!Order(at[p])
    BY <1>3, <2>1 DEF Produce, Created, Release!Order
  <2> QED
    BY <2>1, <2>2 DEF Release!Next
<1>4. ASSUME NEW p \in Procs, UpdateRow(p) PROVE Release!Next
  <2>1. \A w \in Videos : Created(w)' <=> Created(w)
    BY <1>4, UpdateRowEffect DEF Created
  <2>2. CASE to[p] = "Published"
    <3>1. {v \in Videos : video'[v].published = "date"}
             = {v \in Videos : video[v].published = "date"} \cup {at[p]}
      BY <1>4, <2>2, UpdateRowEffect
    <3>2. at[p] \in Videos /\ at[p] \in topic
      BY <1>4, <2>2, UpdateRowEffect
    <3>3. /\ topic' = topic /\ precreated' = precreated
          /\ {v \in Videos : Created(v)'} = {v \in Videos : Created(v)}
      BY <1>4, <2>1, UpdateRowEffect DEF external
    <3> QED
      BY <3>1, <3>2, <3>3 DEF Release!Next, Release!Publish
  <2>3. CASE to[p] # "Published"
    <3>1. {v \in Videos : video'[v].published = "date"}
             = {v \in Videos : video[v].published = "date"}
      BY <1>4, <2>3, UpdateRowEffect
    <3> QED
      BY <1>4, <2>1, <3>1 DEF UpdateRow, external
  <2> QED
    BY <2>2, <2>3
<1>5. ASSUME NEW p \in Procs,
             PublishFind(p) \/ PublishMerge(p) \/ UpdateTranscodeStatus(p)
               \/ UpdateFind(p) \/ UpdateUpload(p) \/ DbError(p)
      PROVE  FALSE
  BY <1>5 DEF PublishFind, PublishMerge, UpdateTranscodeStatus, UpdateFind, UpdateUpload,
              DbError, external, Created
<1>6. CASE Crash \/ UNCHANGED vars
  BY <1>6 DEF Crash, vars, external, Created
<1> QED
  BY <1>1, <1>2, <1>3, <1>4, <1>5, <1>6 DEF Next, PublishStep, UpdateStep, Procs

\* Whatever fails, a video is announced before its transcoding is ordered, dated only
\* after it was ordered, and nothing of this is ever taken back.
THEOREM ImplementsVideoRelease == Spec => ReleaseSpec
<1>1. Init => Release!Init
  <2> SUFFICES ASSUME Init PROVE Release!Init
    OBVIOUS
  <2>1. \A v \in Videos : ~Created(v) /\ video[v].published # "date"
    BY DEF Init, NoRow, Created
  <2>2. precreated = {} /\ topic = {}
    BY DEF Init
  <2> QED
    BY <2>1, <2>2 DEF Release!Init
<1>2. TypeOK /\ [Next]_vars => [Release!Next]_(Release!vars)
  BY ReleaseStep
<1> QED
  BY <1>1, <1>2, TypeCorrect, PTL DEF Spec, ReleaseSpec, Release!Spec
=============================================================================
