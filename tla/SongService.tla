------------------------------ MODULE SongService ------------------------------
(***************************************************************************)
(* go-api's operations on songs: adding one (AddFromUpload, AddFromYouTube)*)
(* and restarting a failed preparation (RetryPrep).  A song is identified  *)
(* with its content hash, so the dedup of GetOrCreate is the existence of  *)
(* its row: adding an existing song changes nothing and queues nothing.    *)
(***************************************************************************)
EXTENDS AnalysisService

\* Defect: a song whose preparation failed is inserted over its old row.
AddSongAgain(r, s) ==
  /\ "add_song" \in Operations
  /\ RoomToAdd
  /\ prep[s] \in {"none", "failed"} /\ ~InFlight(s)
  /\ \A a \in Analyses : SongOf[a] = s => ~InFlight(a)
  /\ prep' = [prep EXCEPT ![s] = "pending"]
  /\ Begin(r, "prep_admit", s)
  /\ UNCHANGED <<status, streamId, known, queue>> /\ unchangedWorker

\* GetOrCreate inserts a new row as 'pending' (the column's default).  The
\* YouTube path then downloads; a download that fails is an ApiFault here.
\* A deleted song comes back under a new id: the model uses an id again only
\* when no request about the old row is left in flight.
AddSong(r, s) ==
  /\ "add_song" \in Operations
  /\ RoomToAdd
  /\ prep[s] = "none" /\ ~InFlight(s)
  /\ \A a \in Analyses : SongOf[a] = s => ~InFlight(a)
  /\ prep' = [prep EXCEPT ![s] = "pending"]
  /\ Begin(r, "prep_admit", s)
  /\ UNCHANGED <<status, streamId, known, queue>> /\ unchangedWorker

\* enqueuePrep: atomic admission onto songs:prep.
EnqueuePrep(r) ==
  /\ At(r, "prep_admit")
  /\ IF HasRoom("songs")
     THEN Publish("songs", req[r].job) /\ Finish(r)
     ELSE Goto(r, "prep_rollback") /\ UNCHANGED queue
  /\ UNCHANGED <<status, streamId, known, prep>> /\ unchangedWorker

\* Defect: the row of a song whose preparation was not queued stays.
EnqueuePrepRollbackForgotten(r) ==
  /\ At(r, "prep_rollback")
  /\ Finish(r)
  /\ UNCHANGED <<status, streamId, known, prep, queue>> /\ unchangedWorker

\* Queue full: the row goes again, and ON DELETE CASCADE takes the analyses
\* other users may have submitted against it meanwhile.
EnqueuePrepRollback(r) ==
  LET s == req[r].job IN
  /\ At(r, "prep_rollback")
  /\ prep' = [prep EXCEPT ![s] = "none"]
  /\ cached' = cached \ {s}
  /\ complete' = complete \ ({s} \cup {a \in Analyses : SongOf[a] = s})
  /\ status' = [a \in Analyses |-> IF SongOf[a] = s THEN "none" ELSE status[a]]
  /\ Finish(r)
  /\ UNCHANGED <<streamId, known, queue, wk, faults>>
-----------------------------------------------------------------------------
\* RetryPrep starts with the length check.
RetryPrepStart(r, s) ==
  /\ "retry_prep" \in Operations
  /\ RoomToAdd
  /\ prep[s] # "none"
  /\ HasRoom("songs")
  /\ Begin(r, "prep_reset", s)
  /\ UNCHANGED <<status, streamId, known, prep, queue>> /\ unchangedWorker

\* The conditional UPDATE: only a failed preparation is restarted.
RetryPrepReset(r) ==
  LET s == req[r].job IN
  /\ At(r, "prep_reset")
  /\ IF prep[s] = "failed"
     THEN SetPrep(s, "pending") /\ Goto(r, "prep_add")
     ELSE Finish(r) /\ UNCHANGED prep
  /\ UNCHANGED <<status, streamId, known, queue>> /\ unchangedWorker

RetryPrepAdd(r) ==
  /\ At(r, "prep_add")
  /\ Publish("songs", req[r].job)
  /\ Finish(r)
  /\ UNCHANGED <<status, streamId, known, prep>> /\ unchangedWorker
-----------------------------------------------------------------------------
SongRequest(r) ==
  \/ \E s \in Songs : AddSong(r, s) \/ RetryPrepStart(r, s)
  \/ EnqueuePrep(r) \/ EnqueuePrepRollback(r)
  \/ RetryPrepReset(r) \/ RetryPrepAdd(r)

\* A round trip fails (Postgres or Redis unreachable, client gone, process
\* restarted): the handler returns an error and makes no further call.
ApiFault(r) ==
  /\ ~At(r, "idle")
  /\ Fault("api")
  /\ Finish(r)
  /\ UNCHANGED <<status, streamId, known, prep, queue, wk, complete, cached>>
=============================================================================
