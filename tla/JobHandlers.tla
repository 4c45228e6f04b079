------------------------------ MODULE JobHandlers ------------------------------
(***************************************************************************)
(* AnalysisJobHandler.handle and SongPrepJobHandler.handle around the      *)
(* runner, for one job: what is stored when its pipeline is through, the   *)
(* job's files, and the redeliveries of its entries after a stop, a death  *)
(* or an exception.  A song's row is read in the words of an analysis's:   *)
(* pending is "queued" and ready is "done".                                *)
(*                                                                         *)
(* The job's row is never canceled, its song is prepared, and a            *)
(* preparation's wake-up is left out: JobSystem has them.                  *)
(***************************************************************************)
EXTENDS PipelineRunner

CONSTANTS
  MAX_CLAIM_ATTEMPTS,  \* deliveries after which reclaim gives a job up
  MaxEntries,          \* bound: stream entries of the job, retries included
  MaxFaults            \* bound: faults in one behaviour

Entries == 1 .. MaxEntries

\* What an analysis's row and its progress chart get out of the results.
Columns == {"aspects", "curves", "overall", "snapshot"}

\* The recording or reference as uploaded, and what the stages write.
Files == {"upload", "work"}

ASSUME DeliveryAssumption ==
  /\ MAX_CLAIM_ATTEMPTS \in Nat
  /\ MaxEntries \in Nat \ {0}
  /\ MaxFaults \in Nat

VARIABLES
  entry,    \* the job's stream entries
  times,    \* how often each was delivered
  at,       \* the entry being handled, or 0
  sweep,    \* the entries the startup reclaim found and has not come to
  stored,   \* what has been stored out of the results
  pruned,   \* the dense curves are out of stages_json
  files,    \* the job's files
  faults    \* faults so far

queue == <<entry, times, at, sweep>>
products == <<stored, pruned, files>>
vars == <<row, pc, locals, watching, stopping, queue, products, faults>>

PC == {"idle", "down", "handle",
       "entries", "group", "collect", "alone", "fail",
       "finish", "curves", "overall", "snapshot", "prune", "mark_done",
       "cleanup", "publish", "ack"}

Running == {"entries", "group", "collect", "alone"}
InHandler == PC \ {"idle", "down", "ack"}

Init ==
  /\ path \in Paths
  /\ status = "queued" /\ current = NoStage
  /\ stages = [s \in Stages |-> "none"]
  /\ pc = "idle" /\ todo = {} /\ members = {} /\ result = NoResult /\ attempt = 0
  /\ watching = FALSE /\ stopping = FALSE
  /\ entry = [i \in Entries |-> IF i = 1 THEN "undelivered" ELSE "unused"]
  /\ times = [i \in Entries |-> 0]
  /\ at = 0 /\ sweep = {}
  /\ stored = {} /\ pruned = FALSE /\ files = Files
  /\ faults = 0

\* The state has the shape its comments above say.
TypeOK ==
  /\ PipelineType
  /\ pc \in PC
  /\ entry \in [Entries -> {"unused", "undelivered", "pending", "gone"}]
  /\ times \in [Entries -> Nat]
  /\ at \in Entries \cup {0}
  /\ sweep \subseteq Entries
  /\ stored \subseteq Columns \cup {"reference", "lyrics"}
  /\ pruned \in BOOLEAN
  /\ files \subseteq Files
  /\ faults \in 0 .. MaxFaults

Goes(where) == pc' = where /\ UNCHANGED locals

Pending == {i \in Entries : entry[i] = "pending"}
-----------------------------------------------------------------------------
\* The main loop takes a new entry.  Entries of songs:prep the worker already
\* holds are taken again, those of analyses:run are not.
Deliver ==
  /\ pc = "idle" /\ sweep = {} /\ ~stopping
  /\ \E i \in Entries :
       /\ entry[i] \in {"undelivered"} \cup (IF path = "prep" THEN {"pending"} ELSE {})
       /\ entry' = [entry EXCEPT ![i] = "pending"]
       /\ times' = IF entry[i] = "pending" THEN times ELSE [times EXCEPT ![i] = @ + 1]
       /\ at' = i
  /\ watching' = TRUE
  /\ Goes("handle")
  /\ UNCHANGED <<row, sweep, stopping, products, faults>>

GivesUp(i) == times[i] > MAX_CLAIM_ATTEMPTS

\* reclaim_stuck_jobs, an entry: nothing can stop the run it leads to.
Reclaim ==
  /\ pc = "idle"
  /\ \E i \in sweep :
       /\ \A j \in sweep : i <= j
       /\ ~GivesUp(i)
       /\ times' = [times EXCEPT ![i] = @ + 1]
       /\ at' = i /\ sweep' = sweep \ {i}
  /\ watching' = FALSE
  /\ Goes("handle")
  /\ UNCHANGED <<row, entry, stopping, products, faults>>

\* reclaim_stuck_jobs gives an entry up.
Abandon ==
  /\ pc = "idle"
  /\ \E i \in sweep :
       /\ \A j \in sweep : i <= j
       /\ GivesUp(i)
       /\ at' = i /\ sweep' = sweep \ {i}
  /\ Goes("ack")
  /\ UNCHANGED <<path, stages, entry, times, watching, stopping, products>>

\* mark_permanently_failed, whatever the row says.
GiveUp ==
  /\ Abandon
  /\ status' = "failed" /\ current' = NoStage
  /\ UNCHANGED faults

\* It raises: the entry is removed all the same.
GiveUpFault ==
  /\ Abandon
  /\ faults < MaxFaults /\ faults' = faults + 1
  /\ UNCHANGED <<status, current>>

\* Defect: a row that is done is not looked into again.
HandleUnlessDone ==
  /\ pc = "handle"
  /\ IF status = "done" THEN Goes("ack") /\ UNCHANGED row
     ELSE RunStart
  /\ UNCHANGED <<watching, stopping, queue, products, faults>>

\* handle reads the row, not its status, and starts the run.
Handle ==
  /\ pc = "handle"
  /\ RunStart
  /\ UNCHANGED <<watching, stopping, queue, products, faults>>

\* The runner, between the handler's calls.
Run == RunnerStep /\ UNCHANGED <<queue, products, faults>>

Record(outcome) == status' = outcome /\ current' = NoStage

\* Defect: a failed job's working directory is removed like a finished one's.
MarkFailedRemovesWork ==
  /\ pc = "fail"
  /\ Record("failed")
  /\ files' = files \ {"work"}
  /\ Leaves("publish")
  /\ UNCHANGED <<path, stages, watching, stopping, queue, stored, pruned, faults>>

\* The run failed for good.  The files stay: a retry resumes from them.
MarkFailed ==
  /\ pc = "fail"
  /\ Record("failed")
  /\ Leaves("publish")
  /\ UNCHANGED <<path, stages, watching, stopping, queue, products, faults>>

\* publish_failed, which may still raise behind the outcome.
PublishFailed ==
  /\ pc = "publish" /\ Goes("ack")
  /\ UNCHANGED <<row, watching, stopping, queue, products, faults>>
-----------------------------------------------------------------------------
Store(columns, next) ==
  /\ stored' = stored \cup columns
  /\ Goes(next)
  /\ UNCHANGED <<row, watching, stopping, queue, pruned, files, faults>>

\* Defect: the results are pruned first.
SaveAspectScoresAndPrune ==
  /\ pc = "finish" /\ path # "prep"
  /\ stored' = stored \cup {"aspects"} /\ pruned' = TRUE
  /\ Goes("curves")
  /\ UNCHANGED <<row, watching, stopping, queue, files, faults>>

\* _persist_scores: each aspect's score,
SaveAspectScores ==
  pc = "finish" /\ path # "prep" /\ Store({"aspects"}, "curves")

\* the curves, if stages_json still has them,
SavePitchCurves ==
  pc = "curves" /\ Store(IF pruned THEN {} ELSE {"curves"}, "overall")

\* the overall score with its diagnostics, and the point of the progress chart.
SaveScoringResult == pc = "overall" /\ Store({"overall"}, "snapshot")

RecordProgressSnapshot == pc = "snapshot" /\ Store({"snapshot"}, "prune")

PruneDenseStageFields ==
  /\ pc = "prune"
  /\ pruned' = TRUE
  /\ Goes("mark_done")
  /\ UNCHANGED <<row, watching, stopping, queue, stored, files, faults>>

MarkDone ==
  /\ pc = "mark_done"
  /\ Record("done")
  /\ Goes("cleanup")
  /\ UNCHANGED <<path, stages, watching, stopping, queue, products, faults>>

\* lyrics_available: the optional stages' results are not skipped ones.
LyricsAvailable == \A s \in Active \ Required : stages[s] = "done"

\* _persist_ready: all of a song's reference in one transaction.
PersistReady ==
  /\ pc = "finish" /\ path = "prep"
  /\ stored' = {"reference"} \cup (IF LyricsAvailable THEN {"lyrics"} ELSE {})
  /\ Record("done")
  /\ Goes("cleanup")
  /\ UNCHANGED <<path, stages, watching, stopping, queue, pruned, files, faults>>

\* _cleanup of a finished job: the working directory and the upload.
Cleanup ==
  /\ pc = "cleanup"
  /\ files' = {}
  /\ Goes("ack")
  /\ UNCHANGED <<row, watching, stopping, queue, stored, pruned, faults>>

\* _ack_and_remove, and process_entry returns.
Ack ==
  /\ pc = "ack"
  /\ entry' = [entry EXCEPT ![at] = "gone"] /\ at' = 0
  /\ Goes("idle")
  /\ UNCHANGED <<row, watching, stopping, times, sweep, products, faults>>
-----------------------------------------------------------------------------
\* The worker, stopped in time, leaves its loop.
Exit ==
  /\ pc = "idle" /\ stopping /\ sweep = {}
  /\ Goes("down") /\ at' = 0
  /\ UNCHANGED <<row, watching, stopping, entry, times, sweep, products, faults>>

\* A new worker; what it finds idle for long enough may be any pending entries.
Restart ==
  /\ pc = "down"
  /\ sweep' \in SUBSET Pending
  /\ stopping' = FALSE /\ at' = 0
  /\ Goes("idle")
  /\ UNCHANGED <<row, watching, entry, times, products, faults>>

\* A failed job is put back, behind whatever its first entry still goes through.
Retry ==
  /\ status = "failed"
  /\ Record("queued")
  /\ \E i \in Entries :
       /\ entry[i] = "unused" /\ \A j \in 1 .. i - 1 : entry[j] # "unused"
       /\ entry' = [entry EXCEPT ![i] = "undelivered"]
  /\ UNCHANGED <<path, stages, pc, locals, watching, stopping, times, at, sweep,
                 products, faults>>

Fault == faults < MaxFaults /\ faults' = faults + 1

RequestStop ==
  /\ pc # "down" /\ ~stopping
  /\ Fault
  /\ stopping' = TRUE
  /\ UNCHANGED <<row, pc, locals, watching, queue, products>>

Dies ==
  /\ pc # "down"
  /\ Fault
  /\ Leaves("down")
  /\ at' = 0 /\ sweep' = {}
  /\ UNCHANGED <<row, watching, stopping, entry, times, products>>

\* A round trip of the handler raises what is no PipelineError.
Raises ==
  /\ pc \in InHandler
  /\ Fault
  /\ Leaves("idle")
  /\ at' = 0
  /\ UNCHANGED <<row, watching, stopping, entry, times, sweep, products>>

WorkerStep ==
  \/ Deliver \/ Reclaim \/ GiveUp \/ Handle \/ Run \/ MarkFailed \/ PublishFailed
  \/ SaveAspectScores \/ SavePitchCurves \/ SaveScoringResult
  \/ RecordProgressSnapshot \/ PruneDenseStageFields \/ MarkDone
  \/ PersistReady \/ Cleanup \/ Ack \/ Exit \/ Restart

Next == WorkerStep \/ Retry \/ RequestStop \/ Dies \/ Raises \/ GiveUpFault

Spec == Init /\ [][Next]_vars

\* The worker's single thread goes on; only that is assumed.
FairSpec == Spec /\ WF_vars(WorkerStep)
-----------------------------------------------------------------------------
complete == Active \subseteq Saved

\* The saved results are always those of the first stages of the order, however
\* deliveries, groups and failures cut the runs short: resuming behind them
\* (_remaining_entries) leaves no gap a later stage would read through.
ResultsInOrder ==
  \A s, t \in Active : Place[s] < Place[t] /\ t \in Saved => s \in Saved

\* A processing row names the stage that comes next, through redeliveries and
\* a death between the saves of one group (save_stage_progress).
ProgressIsNext ==
  status = "processing" => current = NameOfFirst(Active \ Saved)

\* A stage whose result is in never runs again: a retried job resumes from the
\* first unfinished stage, "not from zero" (PipelineRunner.run).
NoRerun == pc \in Running => members \cap Saved = {}

\* Done, or ready, means all of it: every stage has a result, the required ones
\* not a skipped one, and everything read from them is stored, although the
\* curves were pruned and the handler died any number of times in between.
DoneIsWhole ==
  status = "done" =>
    /\ complete
    /\ \A s \in Active \cap Required : stages[s] = "done"
    /\ IF path = "prep"
       THEN "reference" \in stored /\ ("lyrics" \in stored <=> LyricsAvailable)
       ELSE stored = Columns

\* As long as a stage is left to run, the files it may read are there, also for
\* the retry of a failed job (the handlers' _cleanup).
FilesKept == complete \/ files = Files

\* FR-43: once a finished job's entries are gone, so are its files, unless one
\* of them was given up.
AudioRemoved ==
  (/\ status = "done"
   /\ \A i \in Entries : entry[i] \in {"unused", "gone"} /\ ~GivesUp(i))
  => files = {}

\* The remaining parts of the inductive invariant.  A run knows what is left to
\* save, and of an entry that has begun what is left of it;
RunnerOK ==
  /\ pc \in Running => todo = Active \ Saved
  /\ pc \in Running \ {"entries"} => todo # {} /\ members = FirstEntry(todo)
  /\ pc = "alone" => Uncollected # {}

\* no required stage is skipped;
NothingSkipped == \A s \in Required : stages[s] # "skipped" /\ result[s] # "skipped"

\* what follows the run comes after all of it, and each step of the finish
\* after the one before it.
Finishing ==
  {"finish", "curves", "overall", "snapshot", "prune", "mark_done", "cleanup"}

FinishOK ==
  /\ pc \in Finishing => complete
  /\ pc \in Finishing \ {"finish", "cleanup"} => path # "prep"
  /\ path # "prep" => stored \subseteq Columns
  /\ pruned => path # "prep" /\ "curves" \in stored
  /\ pc \in Finishing \ {"finish", "cleanup"} => "aspects" \in stored
  /\ pc \in {"overall", "snapshot", "prune", "mark_done"} => "curves" \in stored
  /\ pc \in {"snapshot", "prune", "mark_done"} => "overall" \in stored
  /\ pc \in {"prune", "mark_done"} => "snapshot" \in stored

\* The inductive invariant: above all, a run resumes where the saved results
\* end (_remaining_entries) and finishes only behind all of them.
Inv ==
  /\ TypeOK /\ RunnerOK /\ NothingSkipped /\ FinishOK
  /\ ResultsInOrder /\ ProgressIsNext /\ DoneIsWhole /\ FilesKept

\* A pipeline run ends, whatever its stages answer: retries are bounded.
RunSettles == pc \in Running ~> pc \notin Running

\* How far the delivery under way has come.
HowFar ==
  CASE pc \in Running -> IF complete THEN "finish" ELSE "run"
    [] pc = "fail" -> "run"
    [] pc \in {"finish", "curves", "overall", "snapshot", "prune", "mark_done"} -> "finish"
    [] pc \in {"cleanup", "publish", "ack"} -> "ack"
    [] OTHER -> "away"

Job == INSTANCE JobRun WITH at <- HowFar

\* The handlers do what JobWorker assumes of them in its one-step runs.
ImplementsJobRun == Job!Spec
=============================================================================
