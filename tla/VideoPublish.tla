---------------------------- MODULE VideoPublish ----------------------------
(***************************************************************************)
(* Publishing a video: the handler that creates the row of the video,      *)
(* announces it to the video service, orders its transcoding through       *)
(* Kafka and writes the row again; and the gRPC method by which the        *)
(* transcoder reports, which writes the same row.  Both end in             *)
(* UpdateVideoTranscodeInfo, which updates two tables without a            *)
(* transaction.                                                            *)
(*                                                                         *)
(* The merge that publish may have to do first is one step here:           *)
(* UploadPipeline has its detail.                                          *)
(***************************************************************************)
EXTENDS Integers, FiniteSets

CONSTANTS
    Uploads,      \* uploads whose chunks were merged once
    MaxVideos,    \* bound: rows that fit in video_publish
    Requests,     \* bound: publish requests in progress at a time
    Calls,        \* bound: gRPC calls of the transcoder in progress at a time
    Faults        \* which of "db", "precreate", "kafka" and "crash" can happen

ASSUME VideosAssumption == MaxVideos \in Nat
ASSUME CallersAssumption == Requests \cap Calls = {}

Videos   == 1 .. MaxVideos            \* primary keys, in the order of creation
NoVideo  == 0
NoUpload == "no upload"
Procs    == Requests \cup Calls

\* "None" is an id that has no row yet.
VideoStatus == {"None", "Draft", "Processing", "Published", "Failed"}

VARIABLES
    video,        \* video_publish: upload_video_uuid, status, transcode_task_uuid
                  \* ("" or "task") and published_at ("null" or "date")
    status,       \* upload_video.status, as publish and the transcoder write it
    precreated,   \* the videos that the video service was told of
    topic,        \* the videos with a message in the topic transcode.tasks
    pc,           \* control point of each handler and gRPC call
    upload,       \* upload of the request
    at,           \* video of the request or call
    to            \* status that UpdateVideoTranscodeInfo was called with

external == <<precreated, topic>>
locals   == <<upload, at, to>>
vars     == <<video, status, external, pc, locals>>

Row == [upload : Uploads \cup {NoUpload}, status : VideoStatus,
        task : {"", "task"}, published : {"null", "date"}]
NoRow == [upload |-> NoUpload, status |-> "None", task |-> "", published |-> "null"]

Created(v) == video[v].status # "None"

HandlerPC == {"merge", "create", "precreate", "produce"}
UpdatePC  == {"update.find", "update.row", "update.upload"}

-----------------------------------------------------------------------------
Goto(p, l) == pc' = [pc EXCEPT ![p] = l]

Done(p) ==
    /\ Goto(p, "idle")
    /\ upload' = [upload EXCEPT ![p] = NoUpload]
    /\ at' = [at EXCEPT ![p] = NoVideo]
    /\ to' = [to EXCEPT ![p] = "None"]

\* Calls UpdateVideoTranscodeInfo for video v.
StartUpdate(p, v, s) ==
    /\ Goto(p, "update.find")
    /\ at' = [at EXCEPT ![p] = v]
    /\ to' = [to EXCEPT ![p] = s]
    /\ UNCHANGED upload

-----------------------------------------------------------------------------
(* POST publish, in VideoApp and in the service.                           *)

\* An upload that is not Success is merged first.
PublishFind(p) ==
    /\ pc[p] = "idle"
    /\ \E u \in Uploads :
         /\ upload' = [upload EXCEPT ![p] = u]
         /\ Goto(p, IF status[u] = "Success" THEN "create" ELSE "merge")
    /\ UNCHANGED <<video, status, external, at, to>>

\* Failed: the chunks were cleaned up.  Merging: a later write failed.  As it was:
\* the chunks are not all completed any more, or could not be counted.
PublishMerge(p) ==
    /\ pc[p] = "merge"
    /\ \/ /\ status' = [status EXCEPT ![upload[p]] = "Success"]
          /\ Goto(p, "create")
          /\ UNCHANGED locals
       \/ /\ \E s \in {"Failed", "Merging", status[upload[p]]} :
               status' = [status EXCEPT ![upload[p]] = s]
          /\ Done(p)
    /\ UNCHANGED <<video, external>>

\* When every id is used (MaxVideos) the insert fails like any other error.
CreateVideo(p) ==
    /\ pc[p] = "create"
    /\ \/ \E v \in Videos :
            /\ ~Created(v)
            /\ \A w \in Videos : w < v => Created(w)
            /\ video' = [video EXCEPT ![v] = [NoRow EXCEPT !.upload = upload[p],
                                                           !.status = "Processing"]]
            /\ at' = [at EXCEPT ![p] = v]
            /\ Goto(p, "precreate")
            /\ UNCHANGED <<upload, to>>
       \/ /\ (\A v \in Videos : Created(v)) \/ "db" \in Faults
          /\ Done(p)
          /\ UNCHANGED video
    /\ UNCHANGED <<status, external>>

\* Mutant: an error of the video service does not stop the handler.
PrecreateUnchecked(p) ==
    /\ pc[p] = "precreate"
    /\ \/ precreated' = precreated \cup {at[p]}
       \/ "precreate" \in Faults /\ UNCHANGED precreated
    /\ Goto(p, "produce")
    /\ UNCHANGED <<video, status, topic, locals>>

\* Mutant: a second video of an upload is not announced, nor transcoded.
PrecreateOncePerUpload(p) ==
    /\ pc[p] = "precreate"
    /\ IF \E v \in precreated : video[v].upload = upload[p]
         THEN Done(p) /\ UNCHANGED precreated
         ELSE /\ precreated' = precreated \cup {at[p]}
              /\ Goto(p, "produce")
              /\ UNCHANGED locals
    /\ UNCHANGED <<video, status, topic>>

\* On an error, after which the video service may know the video or not, the
\* handler returns and leaves the row as it created it.
Precreate(p) ==
    /\ pc[p] = "precreate"
    /\ \/ /\ precreated' = precreated \cup {at[p]}
          /\ Goto(p, "produce")
          /\ UNCHANGED locals
       \/ /\ "precreate" \in Faults
          /\ precreated' \in {precreated, precreated \cup {at[p]}}
          /\ Done(p)
    /\ UNCHANGED <<video, status, topic>>

\* An error of Kafka does not mean that the message was not delivered.
Produce(p) ==
    /\ pc[p] = "produce"
    /\ \/ /\ topic' = topic \cup {at[p]}
          /\ StartUpdate(p, at[p], "Processing")
       \/ /\ "kafka" \in Faults
          /\ topic' \in {topic, topic \cup {at[p]}}
          /\ StartUpdate(p, at[p], "Failed")
    /\ UNCHANGED <<video, status, precreated>>

-----------------------------------------------------------------------------
(* The transcoder reports on a video it found in the topic: that it        *)
(* started, is done, or failed, once or several times, in any order.       *)

UpdateTranscodeStatus(c) ==
    /\ pc[c] = "idle"
    /\ \E v \in topic, s \in VideoStatus \ {"None"} : StartUpdate(c, v, s)
    /\ UNCHANGED <<video, status, external>>

-----------------------------------------------------------------------------
(* UpdateVideoTranscodeInfo, of the handler and of the gRPC method.        *)

UpdateFind(p) ==
    /\ pc[p] = "update.find"
    /\ \/ Created(at[p]) /\ Goto(p, "update.row") /\ UNCHANGED locals
       \/ ~Created(at[p]) /\ Done(p)
    /\ UNCHANGED <<video, status, external>>

\* Mutant: the date of publication is written on every update, set or not.
UpdateRowWithDate(p) ==
    /\ pc[p] = "update.row"
    /\ video' = [video EXCEPT ![at[p]] =
                   [@ EXCEPT !.status = to[p],
                             !.task = IF p \in Calls THEN "task" ELSE "",
                             !.published = IF to[p] = "Published" THEN "date" ELSE "null"]]
    /\ IF to[p] \in {"Published", "Failed"}
         THEN Goto(p, "update.upload") /\ UNCHANGED locals
         ELSE Done(p)
    /\ UNCHANGED <<status, external>>

\* One UPDATE of the row: the handler has no task to record and writes "".
UpdateRow(p) ==
    /\ pc[p] = "update.row"
    /\ video' = [video EXCEPT ![at[p]] =
                   [@ EXCEPT !.status = to[p],
                             !.task = IF p \in Calls THEN "task" ELSE "",
                             !.published = IF to[p] = "Published" THEN "date"
                                                             ELSE video[at[p]].published]]
    /\ IF to[p] \in {"Published", "Failed"}
         THEN Goto(p, "update.upload") /\ UNCHANGED locals
         ELSE Done(p)
    /\ UNCHANGED <<status, external>>

\* The result of the video becomes that of its upload; an error is dropped.
UpdateUpload(p) ==
    /\ pc[p] = "update.upload"
    /\ \/ status' = [status EXCEPT ![video[at[p]].upload] =
                       IF to[p] = "Published" THEN "Success" ELSE "Failed"]
       \/ "db" \in Faults /\ UNCHANGED status
    /\ Done(p)
    /\ UNCHANGED <<video, external>>

UpdateStep(p) == UpdateFind(p) \/ UpdateRow(p) \/ UpdateUpload(p)

-----------------------------------------------------------------------------
\* A database call that fails and has written nothing.
DbError(p) ==
    /\ "db" \in Faults
    /\ pc[p] \in {"update.find", "update.row"}
    /\ Done(p)
    /\ UNCHANGED <<video, status, external>>

\* The process dies and starts again.
Crash ==
    /\ "crash" \in Faults
    /\ pc' = [p \in Procs |-> "idle"]
    /\ upload' = [p \in Procs |-> NoUpload]
    /\ at' = [p \in Procs |-> NoVideo]
    /\ to' = [p \in Procs |-> "None"]
    /\ UNCHANGED <<video, status, external>>

Init ==
    /\ video = [v \in Videos |-> NoRow]
    /\ status = [u \in Uploads |-> "Success"]
    /\ precreated = {}
    /\ topic = {}
    /\ pc = [p \in Procs |-> "idle"]
    /\ upload = [p \in Procs |-> NoUpload]
    /\ at = [p \in Procs |-> NoVideo]
    /\ to = [p \in Procs |-> "None"]

PublishStep(p) ==
    PublishMerge(p) \/ CreateVideo(p) \/ Precreate(p) \/ Produce(p)

Next ==
    \/ \E p \in Requests : PublishFind(p) \/ PublishStep(p)
    \/ \E c \in Calls : UpdateTranscodeStatus(c)
    \/ \E p \in Procs : UpdateStep(p) \/ DbError(p)
    \/ Crash

\* A handler that was started runs on.  Nothing is assumed of clients, of the
\* transcoder or of faults.
Fairness ==
    /\ \A p \in Requests : WF_vars(PublishStep(p) \/ UpdateStep(p))
    /\ \A c \in Calls : WF_vars(UpdateStep(c))

Spec == Init /\ [][Next]_vars

FairSpec == Spec /\ Fairness

-----------------------------------------------------------------------------
(* Properties.                                                             *)

\* What a process knows of its upload and its video, where its control point says
\* so: the video service was told before the task is sent, and the transcoder
\* reports on what it was sent.
LocalsMatchPc(p) ==
    /\ pc[p] \in HandlerPC => p \in Requests /\ upload[p] \in Uploads
    /\ pc[p] \in UpdatePC \cup {"precreate", "produce"} => at[p] \in Videos /\ Created(at[p])
    /\ pc[p] \in UpdatePC => to[p] # "None"
    /\ pc[p] = "produce" => at[p] \in precreated
    /\ p \in Calls /\ pc[p] # "idle" => at[p] \in topic
    /\ p \in Requests => to[p] # "Published"

\* Every variable keeps its type; a row refers to an upload; what was sent was
\* announced, and what was announced, or is dated, has a row (PublishVideo).
RowsTypeOK ==
    /\ video \in [Videos -> Row]
    /\ status \in [Uploads -> {"Success", "Merging", "Failed"}]
    /\ precreated \in SUBSET Videos
    /\ topic \in SUBSET Videos
ControlTypeOK ==
    /\ pc \in [Procs -> {"idle"} \cup HandlerPC \cup UpdatePC]
    /\ upload \in [Procs -> Uploads \cup {NoUpload}]
    /\ at \in [Procs -> Videos \cup {NoVideo}]
    /\ to \in [Procs -> VideoStatus]
OrderOK ==
    /\ \A v \in Videos : Created(v) => video[v].upload \in Uploads
    /\ \A v \in precreated : Created(v)
    /\ topic \subseteq precreated
    /\ \A v \in Videos : video[v].published = "date" => v \in topic
TypeOK ==
    /\ RowsTypeOK
    /\ ControlTypeOK
    /\ \A p \in Procs : LocalsMatchPc(p)
    /\ OrderOK

\* When nothing fails, a video that has a row is not forgotten: its transcoding is
\* ordered, whatever other requests for the same upload do (PublishVideo).
CreatedIsOrdered == \A v \in Videos : Created(v) ~> v \in topic

\* What the transcoder reported of a video stays in its row until it reports again
\* ("updates persisted video metadata based on the transcode result",
\* UpdateTranscodeStatus).
ReportedBy(c, v) == pc[c] = "update.row" /\ at[c] = v /\ pc'[c] # "update.row"
TranscodeResultKept ==
    [][\A v \in Videos :
         video[v].task = "task" =>
           \/ video'[v] = video[v]
           \/ \E c \in Calls : ReportedBy(c, v)]_vars

-----------------------------------------------------------------------------
\* Announced before ordered, ordered before released, and never taken back.
Release == INSTANCE VideoRelease
             WITH created   <- {v \in Videos : Created(v)},
                  announced <- precreated,
                  ordered   <- topic,
                  released  <- {v \in Videos : video[v].published = "date"}
ReleaseSpec == Release!Spec
=============================================================================
