------------------------------- MODULE JobSystem -------------------------------
(***************************************************************************)
(* The job system as a whole: API requests and the worker over one         *)
(* database and one Redis, and what has to be true of them together.       *)
(***************************************************************************)
EXTENDS SongService, JobWorker

RequestStep(r) == AnalysisRequest(r) \/ SongRequest(r)

Next ==
  \/ \E r \in Requests : RequestStep(r) \/ ApiFault(r)
  \/ WorkerStep
  \/ WorkerFault

Spec == Init /\ [][Next]_vars

(***************************************************************************)
(* Fairness.  The worker's loop and go-api's handlers run on until they    *)
(* return, and the container runtime restarts a worker that exited         *)
(* (restart: unless-stopped); nothing obliges a client to submit, cancel   *)
(* or retry anything, and no fault has to happen.                          *)
(***************************************************************************)
Continue(r) == ~At(r, "idle") /\ RequestStep(r)

Fairness ==
  /\ WF_vars(WorkerStep)
  /\ \A r \in Requests : WF_vars(Continue(r))

FairSpec == Spec /\ Fairness
-----------------------------------------------------------------------------
\* The worker is between taking up an entry and acknowledging it.
Processing(stream, job) ==
  /\ wk.pc \in {"delivered", "handle", "run", "finish", "wake", "publish",
                "fail_waiting", "give_up", "give_up_waiting", "ack", "drop"}
  /\ wk.stream = stream
  /\ JobId = job

\* Somebody is about to publish the job: a request, or the worker's wake-up.
BeingPublished(job) ==
  \/ \E r \in Requests : /\ req[r].pc \in {"admit", "rollback", "retry_add", "prep_admit",
                                           "prep_rollback", "prep_add"}
                         /\ req[r].job = job
  \/ WorkerAt("publish") /\ job \in wk.wake

(***************************************************************************)
(* A job whose row promises work (queued or processing) is never lost: a   *)
(* worker can still be handed an entry for it, or is at it, or somebody is *)
(* about to publish it.  About the order of the writes in Enqueue, Retry,  *)
(* process_entry and _ack_and_remove, under any death of the worker.       *)
(***************************************************************************)
JobNotLost ==
  \A a \in Analyses :
    status[a] \in {"queued", "processing"} =>
      \/ EntriesOf(queue["analyses"], a) # {}
      \/ Processing("analyses", a)
      \/ BeingPublished(a)

\* The same of a song's preparation: pending or processing only while its job
\* is on songs:prep or about to be.
PrepNotLost ==
  \A s \in Songs :
    prep[s] \in {"pending", "processing"} =>
      \/ EntriesOf(queue["songs"], s) # {}
      \/ Processing("songs", s)
      \/ BeingPublished(s)

(***************************************************************************)
(* An analysis is on analyses:run only if its song's reference is cached:  *)
(* the invariant AnalysisJobHandler.handle relies on and does not check    *)
(* for itself ("that is the scheduler's invariant to hold").               *)
(***************************************************************************)
ReferenceReady ==
  \A i \in 1 .. Len(queue["analyses"].log) :
    SongOf[JobAt(queue["analyses"], i)] \in cached

(***************************************************************************)
(* A song is deleted only while nobody can have worked on it: the rollback *)
(* of a full queue (enqueuePrep) never takes a reference that was prepared *)
(* or a song whose job was ever published, although it does not look.      *)
(***************************************************************************)
NeverPublished(s) ==
  \A i \in 1 .. Len(queue["songs"].log) : JobAt(queue["songs"], i) # s

RollbackSparesPrepared ==
  [][\A s \in Songs :
       prep[s] # "none" /\ prep'[s] = "none" => s \notin cached /\ NeverPublished(s)]_vars

(***************************************************************************)
(* A finished analysis is never run again, however often its entry is      *)
(* redelivered or it is retried: only give-up may take `done' away.        *)
(***************************************************************************)
DoneIsNotRerun ==
  [][\A a \in Analyses :
       status[a] = "done" => \/ status'[a] = "done"
                             \/ WorkerAt("give_up")]_vars

(***************************************************************************)
(* A job has at most one entry in circulation, apart from one whose        *)
(* failure the worker has recorded and is about to acknowledge: "a second  *)
(* stream entry for the same job_id would make the consumer see it twice"  *)
(* (wake_waiting_for_reference).                                           *)
(***************************************************************************)
Settling(n, i) ==
  /\ wk.pc \in {"fail_waiting", "give_up_waiting", "ack", "drop"}
  /\ wk.stream = n /\ wk.entry = i

OneEntryPerJob ==
  \A n \in Streams : \A job \in JobsOf(n) :
    Cardinality({i \in EntriesOf(queue[n], job) : ~Settling(n, i)}) <= 1

(***************************************************************************)
(* The caps.  Enqueue and POST /songs never exceed them; a retry publishes *)
(* without asking, after a look at the length that other requests in       *)
(* flight may have made stale, so each of those may add one too many.      *)
(***************************************************************************)
Overshoot == Cardinality(Requests) - 1

AnalysesQueueBounded == XLen(queue["analyses"]) <= QUEUE_MAX_LENGTH + Overshoot

PrepQueueBounded == XLen(queue["songs"]) <= SongsPrepMaxLen + Overshoot

(***************************************************************************)
(* Once a worker's startup reclaim is over, no analysis an earlier         *)
(* instance left behind is still pending: nothing in the main loop would   *)
(* look at it again.                                                       *)
(***************************************************************************)
ReclaimedAtStartup ==
  WorkerAt("loop") /\ ~wk.stopping => queue["analyses"].pel = {}

(***************************************************************************)
(* Every analysis that is queued or being processed is eventually settled. *)
(***************************************************************************)
JobEnds ==
  \A a \in Analyses :
    status[a] \in {"queued", "processing"}
      ~> status[a] \in {"done", "failed", "canceled", "none"}
-----------------------------------------------------------------------------
(***************************************************************************)
(* What holds of every reachable state besides, so that TypeOK,            *)
(* ReferenceReady and RollbackSparesPrepared follow by induction.          *)
(***************************************************************************)
AnalysisPC == {"precheck", "create", "create_waiting", "admit", "rollback", "set_id",
               "remove_entry", "retry_precheck", "retry_update", "retry_add",
               "retry_waiting"}
PrepPC == {"prep_admit", "prep_rollback", "prep_reset", "prep_add"}
NewSongPC == {"prep_admit", "prep_rollback"}
CheckedPC == {"precheck", "create", "admit", "rollback", "retry_precheck", "retry_update",
              "retry_add"}

\* A request names a job of its kind, and one that read a ready song is right.
RequestOK ==
  \A r \in Requests :
    /\ req[r].pc \in AnalysisPC => req[r].job \in Analyses
    /\ req[r].pc \in PrepPC => req[r].job \in Songs
    /\ req[r].pc \in CheckedPC => SongOf[req[r].job] \in cached

EntryPC == WorkerPC \ {"down", "reclaim", "loop"}

\* The worker's entry exists, and what it has still to reclaim is pending.
WorkerOK ==
  /\ wk.pc \in EntryPC => wk.entry \in 1 .. Len(queue[wk.stream].log)
  /\ wk.pc \in {"wake", "publish", "fail_waiting", "give_up_waiting"} => wk.stream = "songs"
  /\ wk.pc = "wake" => JobId \in cached
  /\ wk.pc = "publish" => \A a \in wk.wake : SongOf[a] \in cached
  /\ wk.pc = "reclaim" => wk.phase # "main"
  /\ wk.pc \in {"loop", "delivered"} => wk.phase = "main"
  /\ wk.phase # "main" =>
       wk.todo \ (IF wk.pc = "del" THEN {wk.entry} ELSE {}) \subseteq queue[wk.stream].pel

\* The life of a song's row agrees with its cached reference and its stream.
SongOK ==
  /\ \A s \in Songs :
       /\ prep[s] = "none" => s \notin cached /\ NeverPublished(s)
       /\ prep[s] = "ready" => s \in cached
       /\ prep[s] = "failed" => ~NeverPublished(s)
  /\ \A r \in Requests :
       /\ req[r].pc \in NewSongPC =>
            /\ prep[req[r].job] = "pending"
            /\ req[r].job \notin cached /\ NeverPublished(req[r].job)
       /\ req[r].pc = "prep_add" => ~NeverPublished(req[r].job)
  /\ \A r, t \in Requests :
       req[r].pc \in NewSongPC /\ req[t].pc \in NewSongPC /\ req[r].job = req[t].job
         => r = t

Inv == TypeOK /\ RequestOK /\ WorkerOK /\ SongOK /\ ReferenceReady
-----------------------------------------------------------------------------
(***************************************************************************)
(* What the documents and comments of the repository say, and the code     *)
(* does not do: canceled_runs and missed_wake refute the first two, the    *)
(* README says which configurations refute the others.                     *)
(***************************************************************************)

\* Cancel: "a future worker double-checks status before processing".
CanceledIsFinal ==
  [][\A a \in Analyses : status[a] = "canceled" => status'[a] = "canceled"]_vars

\* Enqueue, of a row created waiting: "the song's cold path wakes this row into
\* queued and publishes it itself once prep_status reaches ready".
WaitingIsWoken ==
  \A a \in Analyses :
    status[a] = "waiting_for_reference" /\ ReadyForAnalysis(SongOf[a]) =>
      \/ EntriesOf(queue["songs"], SongOf[a]) # {}
      \/ Processing("songs", SongOf[a])

\* _ack_and_remove: an entry with a recorded outcome "must not keep counting
\* against Producer.Length's XLEN-based queue-full check".
AckedIsRemoved ==
  \A n \in Streams : \A i \in queue[n].live :
    \/ i \in Recoverable(queue[n])
    \/ WorkerAt("del") /\ wk.stream = n /\ wk.entry = i

\* An accepted analysis does not vanish: its row outlives other requests.
AcceptedIsKept ==
  [][\A a \in known : status[a] # "none" => status'[a] # "none"]_vars
=============================================================================
