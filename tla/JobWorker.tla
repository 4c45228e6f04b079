------------------------------- MODULE JobWorker -------------------------------
(***************************************************************************)
(* python-worker: one process, one thread.  Scheduler.run_forever reclaims *)
(* stuck jobs of both streams and then loops; Consumer.process_entry hands *)
(* an entry to the handler of its stream and, once an outcome is recorded, *)
(* acknowledges and deletes it.  An action is a round trip to Postgres or  *)
(* Redis, or the whole run of a pipeline, so that the API may act and the  *)
(* process may die between any two.                                        *)
(*                                                                         *)
(* wk.phase says what process_entry returns to: the reclaim of a stream or *)
(* the main loop.  Left out: which waiting song is the oldest (any waiting *)
(* song may have the priority), published events, files, and the batch     *)
(* size of 100, which the caps of the streams keep out of reach.           *)
(***************************************************************************)
EXTENDS JobState

WorkerAt(pc) == wk.pc = pc

Handling(stream) == wk.stream = stream

JobId == JobAt(queue[wk.stream], wk.entry)

\* The API's part of the state, and the tables, when a step leaves them alone.
unchangedAPI == UNCHANGED <<req, known, streamId>>
unchangedTables == UNCHANGED <<status, prep, complete, cached>>

\* Defect: the sweep finds nothing to reclaim.
NoIdleEntries(name) == {{}}

\* Pending entries a starting worker finds idle for long enough.
IdleEntries(name) ==
  IF RestartsAreSlow THEN {queue[name].pel} ELSE SUBSET queue[name].pel

\* process_entry returns: to the next entry to reclaim, or to the loop.
Return ==
  wk' = IF wk.phase = "main"
        THEN [wk EXCEPT !.pc = "loop"]
        ELSE [wk EXCEPT !.pc = "reclaim", !.todo = @ \ {wk.entry}]

Goes(pc) == wk' = [wk EXCEPT !.pc = pc]
-----------------------------------------------------------------------------
\* A worker process starts, under its predecessor's consumer name (a container
\* restarted) or a new one (recreated), and lists what to reclaim first.
Start ==
  /\ WorkerAt("down")
  /\ \E renamed \in BOOLEAN :
       queue' = [n \in Streams |-> IF renamed THEN RenameConsumer(queue[n]) ELSE queue[n]]
  /\ \E stuck \in IdleEntries("analyses") :
       wk' = [Down EXCEPT !.pc = "reclaim", !.phase = "analyses", !.todo = stuck]
  /\ unchangedAPI /\ unchangedTables /\ UNCHANGED faults

\* The sweep of one stream is over: on to songs:prep, then to the main loop.
ReclaimNext ==
  /\ WorkerAt("reclaim") /\ wk.todo = {}
  /\ IF wk.phase = "analyses"
     THEN \E stuck \in IdleEntries("songs") :
            wk' = [wk EXCEPT !.phase = "songs", !.stream = "songs", !.todo = stuck]
     ELSE wk' = [wk EXCEPT !.phase = "main", !.pc = "loop"]
  /\ unchangedAPI /\ unchangedTables /\ UNCHANGED <<queue, faults>>

GivesUp(times) == times > MAX_CLAIM_ATTEMPTS

\* reclaim_stuck_jobs, one entry: give it up, or claim and process it.
ReclaimEntry ==
  LET q == queue[wk.stream] IN
  /\ WorkerAt("reclaim")
  /\ \E i \in wk.todo :
       /\ IsOldest(i, wk.todo)
       /\ IF GivesUp(q.log[i].times)
          THEN /\ wk' = [wk EXCEPT !.entry = i, !.pc = IF i \in q.live THEN "give_up" ELSE "drop"]
               /\ UNCHANGED queue
          ELSE /\ queue' = [queue EXCEPT ![wk.stream] = XClaim(q, i)]
               /\ wk' = IF i \in q.live
                        THEN [wk EXCEPT !.entry = i, !.pc = "handle"]
                        ELSE [wk EXCEPT !.todo = @ \ {i}]
  /\ unchangedAPI /\ unchangedTables /\ UNCHANGED faults
-----------------------------------------------------------------------------
\* The scheduler's tick: analyses:run first.  The entry is in the PEL now.
TickAnalyses ==
  /\ WorkerAt("loop") /\ ~wk.stopping
  /\ \E i \in Undelivered(queue["analyses"]) :
       /\ IsOldest(i, Undelivered(queue["analyses"]))
       /\ queue' = [queue EXCEPT !["analyses"] = XReadGroup(@, i)]
       /\ wk' = [wk EXCEPT !.pc = "delivered", !.stream = "analyses", !.entry = i]
  /\ unchangedAPI /\ unchangedTables /\ UNCHANGED faults

\* _process_first: an entry delivered just before a shutdown stays pending.
ProcessFirst ==
  /\ WorkerAt("delivered")
  /\ Goes(IF wk.stopping THEN "loop" ELSE "handle")
  /\ unchangedAPI /\ unchangedTables /\ UNCHANGED <<queue, faults>>

\* All that is left of the stream goes to this worker's PEL.
ClaimNewEntries(q) == XReadGroup(q, Len(q.log))

\* Entries of this worker's own PEL that hold the prep job of song s.
PriorityEntries(q, s) == {i \in q.own \cap q.live : JobAt(q, i) = s}

\* A song some analysis waits for jumps the line.
PriorityPrep(q) ==
  \E a \in Analyses :
    /\ status[a] = "waiting_for_reference"
    /\ \E i \in PriorityEntries(q, SongOf[a]) :
         /\ IsOldest(i, PriorityEntries(q, SongOf[a]))
         /\ wk' = [wk EXCEPT !.pc = "handle", !.stream = "songs", !.entry = i]

\* Otherwise the oldest of this worker's pending preps, and only that one.
NextPrep(q) ==
  /\ LET waiting == {a \in Analyses : status[a] = "waiting_for_reference"} IN
       waiting = {} \/ \E a \in waiting : PriorityEntries(q, SongOf[a]) = {}
  /\ \E i \in q.own :
       /\ IsOldest(i, q.own)
       /\ i \in q.live
       /\ wk' = [wk EXCEPT !.pc = "handle", !.stream = "songs", !.entry = i]

\* With analyses:run empty, the tick claims all of songs:prep and picks one.
TickSongs ==
  LET q == ClaimNewEntries(queue["songs"]) IN
  /\ WorkerAt("loop") /\ ~wk.stopping
  /\ Undelivered(queue["analyses"]) = {}
  /\ queue' = [queue EXCEPT !["songs"] = q]
  /\ PriorityPrep(q) \/ NextPrep(q)
  /\ unchangedAPI /\ unchangedTables /\ UNCHANGED faults
-----------------------------------------------------------------------------
\* AnalysisJobHandler.handle up to the pipeline.  A missing row, or a song
\* without its cached reference, raises: the entry stays pending.  The row's
\* status is not looked at; with no stage left, the row is not written.
HandleAnalysis ==
  LET a == JobId IN
  /\ WorkerAt("handle") /\ Handling("analyses")
  /\ IF status[a] = "none" \/ SongOf[a] \notin cached
     THEN Return /\ UNCHANGED status
     ELSE IF a \in complete
     THEN Goes("finish") /\ UNCHANGED status
     ELSE Goes("run") /\ SetStatus({a}, "processing")
  /\ unchangedAPI /\ UNCHANGED <<queue, prep, complete, cached, faults>>

\* SongPrepJobHandler.handle up to the pipeline.
HandleSong ==
  LET s == JobId IN
  /\ WorkerAt("handle") /\ Handling("songs")
  /\ IF prep[s] = "none" THEN Return /\ UNCHANGED prep
     ELSE IF s \in complete THEN Goes("finish") /\ UNCHANGED prep
     ELSE Goes("run") /\ SetPrep(s, "processing")
  /\ unchangedAPI /\ UNCHANGED <<queue, status, complete, cached, faults>>

\* Defect: the stage results are not saved.
RunCompletesUnsaved ==
  /\ WorkerAt("run")
  /\ Goes("finish")
  /\ unchangedAPI /\ unchangedTables /\ UNCHANGED <<queue, faults>>

\* PipelineRunner.run finishes the remaining stages and saves each result.
RunCompletes ==
  /\ WorkerAt("run")
  /\ complete' = complete \cup {JobId}
  /\ Goes("finish")
  /\ unchangedAPI /\ UNCHANGED <<queue, status, prep, cached, faults>>

\* Defect: a failed preparation is recorded, then treated as a finished one.
RunFailsThenWakes ==
  /\ WorkerAt("run")
  /\ IF Handling("analyses")
     THEN SetStatus({JobId}, "failed") /\ Goes("ack") /\ UNCHANGED prep
     ELSE SetPrep(JobId, "failed") /\ Goes("wake") /\ UNCHANGED status
  /\ unchangedAPI /\ UNCHANGED <<queue, complete, cached, faults>>

\* A required stage fails for good: the handler records it.
RunFails ==
  /\ WorkerAt("run")
  /\ IF Handling("analyses")
     THEN SetStatus({JobId}, "failed") /\ Goes("ack") /\ UNCHANGED prep
     ELSE SetPrep(JobId, "failed") /\ Goes("fail_waiting") /\ UNCHANGED status
  /\ unchangedAPI /\ UNCHANGED <<queue, complete, cached, faults>>

\* should_stop between two stages: the entry stays pending.  A job being
\* reclaimed runs with should_stop = False.
RunInterrupted ==
  /\ WorkerAt("run") /\ wk.stopping /\ wk.phase = "main"
  /\ Return
  /\ unchangedAPI /\ unchangedTables /\ UNCHANGED <<queue, faults>>

\* The scores are stored and the row is done.
FinishAnalysis ==
  /\ WorkerAt("finish") /\ Handling("analyses")
  /\ SetStatus({JobId}, "done")
  /\ Goes("ack")
  /\ unchangedAPI /\ UNCHANGED <<queue, prep, complete, cached, faults>>

\* _persist_ready: the reference is cached on the row with the new status.
FinishSong ==
  /\ WorkerAt("finish") /\ Handling("songs")
  /\ SetPrep(JobId, "ready")
  /\ cached' = cached \cup {JobId}
  /\ Goes("wake")
  /\ unchangedAPI /\ UNCHANGED <<queue, status, complete, faults>>

\* Defect: every queued analysis of the song is published, not only those woken
\* just now.
WakeAllQueued ==
  /\ WorkerAt("wake")
  /\ SetStatus(WaitingFor(JobId), "queued")
  /\ wk' = [wk EXCEPT !.pc = "publish",
                      !.wake = {a \in Analyses : SongOf[a] = JobId /\
                                  status[a] \in {"queued", "waiting_for_reference"}}]
  /\ unchangedAPI /\ UNCHANGED <<queue, prep, complete, cached, faults>>

\* wake_waiting_for_reference: one transaction moves every waiting analysis.
Wake ==
  /\ WorkerAt("wake")
  /\ SetStatus(WaitingFor(JobId), "queued")
  /\ wk' = [wk EXCEPT !.pc = "publish", !.wake = WaitingFor(JobId)]
  /\ unchangedAPI /\ UNCHANGED <<queue, prep, complete, cached, faults>>

\* One XADD per analysis woken.  The entry's id is not recorded on the row.
PublishWoken ==
  /\ WorkerAt("publish")
  /\ IF wk.wake = {} THEN Goes("ack") /\ UNCHANGED queue
     ELSE \E a \in wk.wake :
            /\ queue' = [queue EXCEPT !["analyses"] = XAdd(@, a)]
            /\ wk' = [wk EXCEPT !.wake = @ \ {a}]
  /\ unchangedAPI /\ unchangedTables /\ UNCHANGED faults

FailWaiting ==
  /\ wk.pc \in {"fail_waiting", "give_up_waiting"}
  /\ SetStatus(WaitingFor(JobId), "failed")
  /\ Goes(IF WorkerAt("fail_waiting") THEN "ack" ELSE "drop")
  /\ unchangedAPI /\ UNCHANGED <<queue, prep, complete, cached, faults>>

\* mark_permanently_failed, whatever the row says.
GiveUp ==
  /\ WorkerAt("give_up")
  /\ IF Handling("analyses")
     THEN SetStatus({JobId}, "failed") /\ Goes("drop") /\ UNCHANGED prep
     ELSE SetPrep(JobId, "failed") /\ Goes("give_up_waiting") /\ UNCHANGED status
  /\ unchangedAPI /\ UNCHANGED <<queue, complete, cached, faults>>

\* _ack_and_remove is two commands: XACK, then XDEL.
Ack ==
  /\ wk.pc \in {"ack", "drop"}
  /\ queue' = [queue EXCEPT ![wk.stream] = XAck(@, wk.entry)]
  /\ Goes("del")
  /\ unchangedAPI /\ unchangedTables /\ UNCHANGED faults

Del ==
  /\ WorkerAt("del")
  /\ queue' = [queue EXCEPT ![wk.stream] = XDel(@, wk.entry)]
  /\ Return
  /\ unchangedAPI /\ unchangedTables /\ UNCHANGED faults
-----------------------------------------------------------------------------
\* SIGTERM: the handler only sets a flag.
RequestStop ==
  /\ ~WorkerAt("down") /\ ~wk.stopping
  /\ Fault("stop")
  /\ wk' = [wk EXCEPT !.stopping = TRUE]
  /\ unchangedAPI /\ unchangedTables /\ UNCHANGED queue

Exit ==
  /\ WorkerAt("loop") /\ wk.stopping
  /\ wk' = Down
  /\ unchangedAPI /\ unchangedTables /\ UNCHANGED <<queue, faults>>

\* The process is killed, or an exception outside a handler ends it.
Crash ==
  /\ ~WorkerAt("down")
  /\ Fault("crash")
  /\ wk' = Down
  /\ unchangedAPI /\ unchangedTables /\ UNCHANGED queue

HandlerPC == {"handle", "run", "finish", "wake", "publish", "fail_waiting", "ack"}

\* Defect: an entry whose handler raised is acknowledged.
HandlerFaultAcks ==
  /\ wk.pc \in HandlerPC
  /\ Fault("handler")
  /\ Goes("drop")
  /\ unchangedAPI /\ unchangedTables /\ UNCHANGED queue

\* A call raises inside the handler, be it what it publishes or cleans up behind
\* the outcome: process_entry leaves the entry pending.
HandlerFault ==
  /\ wk.pc \in HandlerPC
  /\ Fault("handler")
  /\ Return
  /\ unchangedAPI /\ unchangedTables /\ UNCHANGED queue

\* mark_permanently_failed raises: the entry is removed all the same.
GiveUpFault ==
  /\ wk.pc \in {"give_up", "give_up_waiting"}
  /\ Fault("give_up")
  /\ Goes("drop")
  /\ unchangedAPI /\ unchangedTables /\ UNCHANGED queue

WorkerStep ==
  \/ Start \/ ReclaimNext \/ ReclaimEntry
  \/ TickAnalyses \/ ProcessFirst \/ TickSongs
  \/ HandleAnalysis \/ HandleSong
  \/ RunCompletes \/ RunFails \/ RunInterrupted
  \/ FinishAnalysis \/ FinishSong \/ Wake \/ PublishWoken \/ FailWaiting
  \/ GiveUp \/ Ack \/ Del \/ Exit

WorkerFault == RequestStop \/ Crash \/ HandlerFault \/ GiveUpFault
=============================================================================
