---------------------------- MODULE AnalysisService ----------------------------
(***************************************************************************)
(* go-api's operations on analyses: Enqueue, Cancel and Retry.  Each       *)
(* round trip to Postgres or Redis is an action, so that the worker and    *)
(* the other requests may act between any two of them.                     *)
(*                                                                         *)
(* Left out: the recording's upload, sniffing and transcoding and the      *)
(* per-user rate limit (they can only refuse the request), and             *)
(* queue_position (no action of this model reads it).                      *)
(***************************************************************************)
EXTENDS JobState

InFlight(job) == \E r \in Requests : req[r].pc # "idle" /\ req[r].job = job

\* Bound of the model: leaves room in both logs for what is in flight.
RoomToAdd ==
  \A n \in Streams :
    Len(queue[n].log) + Cardinality({r \in Requests : req[r].pc # "idle"}) < MaxEntries

Begin(r, pc, job) ==
  /\ req[r].pc = "idle"
  /\ req' = [req EXCEPT ![r] = [pc |-> pc, job |-> job, id |-> 0]]

At(r, pc) == req[r].pc = pc

Goto(r, pc) == req' = [req EXCEPT ![r].pc = pc]

Finish(r) == req' = [req EXCEPT ![r] = Idle]

\* The request has an entry id to record or remove.
GotoWith(r, pc, id) == req' = [req EXCEPT ![r].pc = pc, ![r].id = id]

Publish(name, job) == queue' = [queue EXCEPT ![name] = XAdd(@, job)]

NextId(name) == Len(queue[name].log) + 1

\* Defect: the cap is reached one entry late.
HasRoomOffByOne(name) ==
  XLen(queue[name]) <= (IF name = "analyses" THEN QUEUE_MAX_LENGTH ELSE SongsPrepMaxLen)

HasRoom(name) ==
  XLen(queue[name]) < (IF name = "analyses" THEN QUEUE_MAX_LENGTH ELSE SongsPrepMaxLen)

unchangedWorker == UNCHANGED <<wk, complete, cached, faults>>
-----------------------------------------------------------------------------
\* Enqueue: read the song, refuse one whose preparation failed, and remember
\* whether it was ready.
EnqueueStart(r, a) ==
  /\ "enqueue" \in Operations
  /\ RoomToAdd
  /\ status[a] = "none" /\ a \notin known /\ ~InFlight(a)
  /\ prep[SongOf[a]] \notin {"none", "failed"}
  /\ Begin(r, IF ReadyForAnalysis(SongOf[a]) THEN "precheck" ELSE "create_waiting", a)
  /\ UNCHANGED <<status, streamId, known, prep, queue>> /\ unchangedWorker

\* The cheap look at XLEN; the request fails with QUEUE_FULL at the cap.
EnqueuePrecheck(r) ==
  /\ At(r, "precheck")
  /\ IF HasRoom("analyses") THEN Goto(r, "create") ELSE Finish(r)
  /\ UNCHANGED <<status, streamId, known, prep, queue>> /\ unchangedWorker

EnqueueCreate(r) ==
  /\ At(r, "create")
  /\ status' = [status EXCEPT ![req[r].job] = "queued"]
  /\ Goto(r, "admit")
  /\ UNCHANGED <<streamId, known, prep, queue>> /\ unchangedWorker

\* The song was not ready when it was read: the row waits, nothing is published.
\* A song deleted in between fails the INSERT's foreign key.
EnqueueCreateWaiting(r) ==
  LET a == req[r].job IN
  /\ At(r, "create_waiting")
  /\ IF prep[SongOf[a]] = "none"
     THEN UNCHANGED <<status, known>>
     ELSE /\ status' = [status EXCEPT ![a] = "waiting_for_reference"]
          /\ known' = known \cup {a}
  /\ Finish(r)
  /\ UNCHANGED <<streamId, prep, queue>> /\ unchangedWorker

\* EnqueueIfUnderLimit: the Lua script checks the cap and publishes atomically.
EnqueueAdmit(r) ==
  /\ At(r, "admit")
  /\ IF HasRoom("analyses")
     THEN /\ Publish("analyses", req[r].job)
          /\ GotoWith(r, "set_id", NextId("analyses"))
     ELSE Goto(r, "rollback") /\ UNCHANGED queue
  /\ UNCHANGED <<status, streamId, known, prep>> /\ unchangedWorker

\* Defect: the new row is not deleted.
EnqueueRollbackForgotten(r) ==
  /\ At(r, "rollback")
  /\ Finish(r)
  /\ UNCHANGED <<status, streamId, known, prep, queue>> /\ unchangedWorker

\* The queue filled up since the pre-check: the new row is deleted again.
EnqueueRollback(r) ==
  /\ At(r, "rollback")
  /\ status' = [status EXCEPT ![req[r].job] = "none"]
  /\ Finish(r)
  /\ UNCHANGED <<streamId, known, prep, queue>> /\ unchangedWorker

\* SetQueueStreamID ends Enqueue and Retry alike.  It does not look at the
\* row's status: the job may have been canceled, run or retried since.
SetQueueStreamID(r) ==
  LET a == req[r].job IN
  /\ At(r, "set_id")
  /\ IF status[a] = "none"
     THEN UNCHANGED <<streamId, known>>
     ELSE /\ streamId' = [streamId EXCEPT ![a] = req[r].id]
          /\ known' = known \cup {a}
  /\ Finish(r)
  /\ UNCHANGED <<status, prep, queue>> /\ unchangedWorker
-----------------------------------------------------------------------------
Cancelable == {"queued", "waiting_for_reference"}

\* Cancel: one conditional UPDATE, which also returns the stored entry id.
Cancel(r, a) ==
  /\ "cancel" \in Operations
  /\ a \in known /\ status[a] \in Cancelable
  /\ At(r, "idle")
  /\ SetStatus({a}, "canceled")
  /\ IF streamId[a] = 0 THEN UNCHANGED req
     ELSE req' = [req EXCEPT ![r] = [pc |-> "remove_entry", job |-> a, id |-> streamId[a]]]
  /\ UNCHANGED <<streamId, known, prep, queue>> /\ unchangedWorker

\* The best-effort XDEL of the recorded entry, whatever became of it meanwhile.
CancelRemove(r) ==
  /\ At(r, "remove_entry")
  /\ queue' = [queue EXCEPT !["analyses"] = XDel(@, req[r].id)]
  /\ Finish(r)
  /\ UNCHANGED <<status, streamId, known, prep>> /\ unchangedWorker
-----------------------------------------------------------------------------
\* Defect: the song's preparation is not asked about.
RetryStartUnchecked(r, a) ==
  /\ "retry" \in Operations
  /\ RoomToAdd
  /\ a \in known /\ status[a] # "none"
  /\ Begin(r, "retry_precheck", a)
  /\ UNCHANGED <<status, streamId, known, prep, queue>> /\ unchangedWorker

\* Retry: read the song first; a failed preparation is refused, an unfinished
\* one sends the analysis back to waiting.
RetryStart(r, a) ==
  /\ "retry" \in Operations
  /\ RoomToAdd
  /\ a \in known /\ status[a] # "none"
  /\ prep[SongOf[a]] # "failed"
  /\ Begin(r, IF ReadyForAnalysis(SongOf[a]) THEN "retry_precheck" ELSE "retry_waiting", a)
  /\ UNCHANGED <<status, streamId, known, prep, queue>> /\ unchangedWorker

RetryPrecheck(r) ==
  /\ At(r, "retry_precheck")
  /\ IF HasRoom("analyses") THEN Goto(r, "retry_update") ELSE Finish(r)
  /\ UNCHANGED <<status, streamId, known, prep, queue>> /\ unchangedWorker

Retryable == {"failed"}

\* The conditional UPDATE shared by Retry and RetryToWaitingForReference.
ResetFailed(a, new) ==
  /\ status' = [status EXCEPT ![a] = new]
  /\ streamId' = [streamId EXCEPT ![a] = 0]

RetryUpdate(r) ==
  LET a == req[r].job IN
  /\ At(r, "retry_update")
  /\ IF status[a] \in Retryable
     THEN ResetFailed(a, "queued") /\ Goto(r, "retry_add")
     ELSE Finish(r) /\ UNCHANGED <<status, streamId>>
  /\ UNCHANGED <<known, prep, queue>> /\ unchangedWorker

\* Enqueue of the producer: an XADD that asks for no room.
RetryAdd(r) ==
  /\ At(r, "retry_add")
  /\ Publish("analyses", req[r].job)
  /\ GotoWith(r, "set_id", NextId("analyses"))
  /\ UNCHANGED <<status, streamId, known, prep>> /\ unchangedWorker

RetryToWaitingForReference(r) ==
  LET a == req[r].job IN
  /\ At(r, "retry_waiting")
  /\ IF status[a] \in Retryable
     THEN ResetFailed(a, "waiting_for_reference")
     ELSE UNCHANGED <<status, streamId>>
  /\ Finish(r)
  /\ UNCHANGED <<known, prep, queue>> /\ unchangedWorker
-----------------------------------------------------------------------------
AnalysisRequest(r) ==
  \/ \E a \in Analyses : EnqueueStart(r, a) \/ Cancel(r, a) \/ RetryStart(r, a)
  \/ EnqueuePrecheck(r) \/ EnqueueCreate(r) \/ EnqueueCreateWaiting(r)
  \/ EnqueueAdmit(r) \/ EnqueueRollback(r) \/ SetQueueStreamID(r)
  \/ CancelRemove(r)
  \/ RetryPrecheck(r) \/ RetryUpdate(r) \/ RetryAdd(r)
  \/ RetryToWaitingForReference(r)
=============================================================================
