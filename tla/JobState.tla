------------------------------- MODULE JobState -------------------------------
(***************************************************************************)
(* What the Go API and the Python worker share: the analyses and songs     *)
(* tables in Postgres and the two Redis streams, together with the local   *)
(* state of the API requests in flight and of the worker process.  The     *)
(* modules that extend this one hold the actions; JobSystem composes them. *)
(*                                                                         *)
(* Rows are abstracted to the columns that decide what happens next.  The  *)
(* stage results of a row (stages_json) become one bit, "every stage is    *)
(* in": a partial result only changes where the pipeline resumes.          *)
(***************************************************************************)
EXTENDS Integers, Sequences, FiniteSets, RedisStream

CONSTANTS
  Analyses,          \* analysis ids clients may submit
  Songs,             \* song ids
  SongOf,            \* the song each analysis is a performance of
  PreparedAtStart,   \* songs whose cold path finished before the behaviour starts
  Requests,          \* API requests that may be in flight at the same time
  QUEUE_MAX_LENGTH,  \* cap of analyses:run
  SongsPrepMaxLen,   \* cap of songs:prep
  MAX_CLAIM_ATTEMPTS,\* deliveries after which reclaim gives a job up
  Operations,        \* the API operations clients use
  Faults,            \* the kinds of fault that occur
  MaxFaults,         \* bound: faults in one behaviour
  MaxEntries,        \* bound: entries ever added to one stream by the API
  RestartsAreSlow,   \* a restarted worker finds every pending entry idle long enough
  NoJob              \* the absence of a job id

OperationNames == {"enqueue", "cancel", "retry", "add_song", "retry_prep"}

\* crash: the worker process dies; stop: it is asked to shut down; handler:
\* a call inside a job handler raises; give_up: recording a give-up raises;
\* api: a round trip of an API request fails.
FaultNames == {"crash", "stop", "handler", "give_up", "api"}

Job == Analyses \cup Songs

ASSUME JobAssumption ==
  /\ SongOf \in [Analyses -> Songs]
  /\ PreparedAtStart \subseteq Songs
  /\ NoJob \notin Job
  /\ Analyses \cap Songs = {}

ASSUME BoundAssumption ==
  /\ QUEUE_MAX_LENGTH \in Nat
  /\ SongsPrepMaxLen \in Nat
  /\ MAX_CLAIM_ATTEMPTS \in Nat
  /\ MaxFaults \in Nat
  /\ MaxEntries \in Nat

ASSUME ChoiceAssumption ==
  /\ Operations \subseteq OperationNames
  /\ Faults \subseteq FaultNames
  /\ RestartsAreSlow \in BOOLEAN

ASSUME RequestsAssumption == IsFiniteSet(Requests) /\ Requests # {}

VARIABLES
  status,     \* analyses.status, or "none" while there is no such row
  streamId,   \* analyses.queue_stream_id, 0 for NULL
  complete,   \* jobs whose stages_json / prep_stages_json holds every stage
  known,      \* analyses whose id a response has told the client
  prep,       \* songs.prep_status, or "none" while there is no such row
  cached,     \* songs with vocal_stem_path and reference_pitch set
  queue,      \* the two Redis streams
  req,        \* API requests in flight
  wk,         \* the worker process
  faults      \* faults so far

vars == <<status, streamId, complete, known, prep, cached, queue, req, wk, faults>>
postgres == <<status, streamId, complete, prep, cached>>
-----------------------------------------------------------------------------
AnalysisStatus ==
  {"queued", "waiting_for_reference", "processing", "done", "failed", "canceled"}

PrepStatus == {"pending", "processing", "ready", "failed"}

Streams == {"analyses", "songs"}

\* Where an API request stands: the round trip it makes next.
RequestPC ==
  {"idle",
   "precheck", "create", "create_waiting", "admit", "rollback", "set_id",
   "remove_entry",
   "retry_precheck", "retry_update", "retry_add", "retry_waiting",
   "prep_admit", "prep_rollback", "prep_reset", "prep_add"}

RequestType == [pc : RequestPC, job : Job \cup {NoJob}, id : Nat]

Idle == [pc |-> "idle", job |-> NoJob, id |-> 0]

\* Where the worker stands: in its loop, or inside the processing of one entry
\* ("ack" behind an outcome the handler recorded, "drop" behind a give-up).
WorkerPC ==
  {"down", "reclaim", "loop", "delivered",
   "handle", "run", "finish", "wake", "publish", "fail_waiting",
   "give_up", "give_up_waiting", "ack", "drop", "del"}

WorkerType ==
  [pc : WorkerPC, phase : {"analyses", "songs", "main"}, stream : Streams,
   entry : Nat, todo : SUBSET Nat, wake : SUBSET Analyses, stopping : BOOLEAN]

Down == [pc |-> "down", phase |-> "main", stream |-> "analyses", entry |-> 0,
         todo |-> {}, wake |-> {}, stopping |-> FALSE]

Init ==
  /\ status = [a \in Analyses |-> "none"]
  /\ streamId = [a \in Analyses |-> 0]
  /\ complete = PreparedAtStart
  /\ known = {}
  /\ prep = [s \in Songs |-> IF s \in PreparedAtStart THEN "ready" ELSE "none"]
  /\ cached = PreparedAtStart
  /\ queue = [n \in Streams |-> EmptyStream]
  /\ req = [r \in Requests |-> Idle]
  /\ wk = Down
  /\ faults = 0

\* What each stream's entries name.
JobsOf(stream) == IF stream = "analyses" THEN Analyses ELSE Songs

\* The state has the shape its comments above say.
TypeOK ==
  /\ status \in [Analyses -> AnalysisStatus \cup {"none"}]
  /\ streamId \in [Analyses -> Nat]
  /\ complete \subseteq Job
  /\ known \subseteq Analyses
  /\ prep \in [Songs -> PrepStatus \cup {"none"}]
  /\ cached \subseteq Songs
  /\ DOMAIN queue = Streams
  /\ \A n \in Streams : WellFormed(queue[n], JobsOf(n))
  /\ req \in [Requests -> RequestType]
  /\ wk \in WorkerType
  /\ faults \in 0 .. MaxFaults
-----------------------------------------------------------------------------
\* Statements on the two tables.  An UPDATE whose row is gone changes nothing.
SetStatus(ids, new) ==
  status' = [a \in Analyses |-> IF a \in ids /\ status[a] # "none" THEN new
                                ELSE status[a]]

SetPrep(s, new) ==
  prep' = [t \in Songs |-> IF t = s /\ prep[t] # "none" THEN new ELSE prep[t]]

WaitingFor(s) ==
  {a \in Analyses : SongOf[a] = s /\ status[a] = "waiting_for_reference"}

\* domain.Song.ReadyForAnalysis
ReadyForAnalysis(s) == prep[s] = "ready"

Fault(kind) ==
  /\ kind \in Faults
  /\ faults < MaxFaults
  /\ faults' = faults + 1
=============================================================================
