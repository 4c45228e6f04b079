# A TLA+ development of the AI Vocal Coach job system

AI Vocal Coach takes a user's recording of a song, compares it with the original
vocal and scores it. A Go API (`src/api`) accepts songs and recordings, a Python
worker (`src/worker`) does the slow work, Postgres holds the rows and Redis
Streams carries the jobs; a web client (`src/web`) shows the result. Nothing in
the system takes a lock across two of these parts. What keeps a job from being
lost, doubled, run unprepared or forgotten is the *order* in which each part
writes to Postgres and Redis, and that is what this development models, checks
and proves first. What makes its answer right is a second matter: the alignment of
a recording to its reference and the stages that score what was aligned, and the
subprocesses they run in, are modelled beside it.

All line references are to `src/`. The table from definitions to lines is
`PROJECT.json`, "map".

## The system

| Component | State it keeps | Operations | Modelled in |
|---|---|---|---|
| Analysis job API (`api/internal/service/analysis`, `repository/postgres/analysis_repository.go`) | `analyses` rows: status, queue_stream_id, queue_position, stages | Enqueue, Cancel, Retry | `AnalysisService` |
| Song API (`api/internal/service/song`, `song_repository.go`) | `songs` rows: prep_status, cached reference | AddFromUpload, AddFromYouTube, RetryPrep | `SongService` |
| Producer (`api/internal/queue/producer.go`) | the streams `analyses:run`, `songs:prep` | Length, Enqueue, EnqueueIfUnderLimit, Remove | `RedisStream`, `AnalysisService` |
| Consumer (`worker/.../queue/consumer.py`) | the consumer group's pending entries | read_next, claim_new_entries, process_entry, reclaim_stuck_jobs, ack and remove | `JobWorker`, `RedisStream` |
| Scheduler (`queue/scheduler.py`, `worker.py`) | a stop flag, what to do next | startup reclaim, tick (analyses first, then one preparation), SIGTERM | `JobWorker`; the order of the jobs in `Scheduler` |
| Handlers (`queue/handler.py`, `queue/prep_handler.py`, `repositories/postgres.py`) | rows of both tables | handle, persist, wake and fail waiting analyses, store results, clean up, give up | `JobWorker`, `JobHandlers` |
| Pipeline runner (`pipeline/runner.py`, `base.py`) | stage results of one job | run stages, retry, skip optional ones, parallel groups, resume | `PipelineRunner`; its outcomes alone in `JobWorker`; the subprocesses of one entry in `StageProcess` |
| Progress events and WebSocket hub (`queue/events.*`, `transport/ws`) | registered clients and their buffers | publish, snapshot, register, broadcast | planned |
| Refresh tokens, sessions (`redisrepo/refresh_token_store.go`, `service/auth`) | token families | issue, rotate, revoke | planned |
| Throttles (`redisrepo/*throttle*.go`, `analysis_rate_limiter.go`) | counters with expiry | check, record | planned |
| Recording files (`storage/filestore.go`) | files on the shared volume | write temp, commit, remove, sweep | planned |
| Registration, login, Google OAuth | users, codes | register, verify, login | after the token store |
| Alignment (`dsp/dtw.py`, `dsp/pitch_embedding.py`, `audio/timemap.py`, `stages/align.py`) | the warping path of one analysis | coarse and fine DTW pass, crop to the overlap, search for a start offset, time map | `Alignment`, `AlignStage` |
| Scoring and report (`stages/pitch.py` to `stages/aggregate.py`, `scoring`, `pipeline/report.py`) | the stage results of one analysis | compare, shift, score, weigh, phrase | `Aspects`, `Scoring`, `Report`, `WarmAnalysis` |
| Signal processing (separation, transcription, pitch and feature detection) | none | what the stages above start from | not modelled (floating-point signals) |
| HTTP transport | none | maps requests to services | not planned (stateless) |
| Web client | access token, queue socket | refresh, reconnect | refresh sharing planned |
| Deployment scripts | image tags | deploy, roll back, back up | rollback planned |

How the parts interact:

* **go-api → Postgres → Redis.** Every operation is a sequence of round trips
  without a transaction around them: Enqueue reads the song, looks at XLEN,
  inserts the row, runs a Lua script that checks the cap and publishes, and
  stores the entry's id; on a full queue it deletes the row again. Cancel is a
  conditional UPDATE followed by an XDEL of the stored id. Retry is a
  conditional UPDATE followed by an XADD that asks for no room.
* **Redis → worker.** One process, one thread. On startup it reclaims the
  pending entries of both streams that have been idle for 20 minutes; then it
  loops, taking an analysis if there is one and otherwise claiming all of
  `songs:prep` and processing one preparation, preferring a song some analysis
  waits for.
* **worker → Postgres → Redis.** A finished preparation stores the reference,
  moves all waiting analyses of the song to `queued` in one transaction and
  publishes them one by one. An entry whose outcome is recorded is XACKed and
  then XDELed. An exception in a handler leaves the entry pending.

What is hard here: two processes interleave at every round trip; the worker may
die between any two of them; entries are delivered more than once; a value read
from a row (prep_status, XLEN, queue_stream_id) is used after it has changed; and
a job is recovered by nothing but the startup reclaim. `PROJECT.json`, "hazards",
lists each at its line, with the property that covers it or the reason none does.

What makes each part correct:

* *API*: a job whose row promises work has an entry or somebody about to publish
  one (`JobNotLost`, `PrepNotLost`), at most one (`OneEntryPerJob`), within the
  cap up to the requests in flight (`AnalysesQueueBounded`, `PrepQueueBounded`);
  a rollback deletes nothing others depend on (`RollbackSparesPrepared`).
* *Worker*: an analysis runs only with its reference cached (`ReferenceReady`);
  a finished one is not run again (`DoneIsNotRerun`); startup leaves nothing of a
  predecessor behind (`ReclaimedAtStartup`); every analysis settles (`JobEnds`), and
  every preparation unless analyses, raising handlers or songs waited for go before
  it for ever (`PrepEnds`).
* *Runner and handlers*: the results saved by any sequence of cut-short runs are
  a prefix of the job's stages (`ResultsInOrder`), the row names the stage that
  comes next (`ProgressIsNext`), nothing saved is run again (`NoRerun`), a run
  ends (`RunSettles`); a done job is whole (`DoneIsWhole`), its files stay as
  long as a stage may read them (`FilesKept`) and no longer (`AudioRemoved`).
* *Subprocesses*: an answer that begins in time is taken, whatever the other members
  do (`AnswerIsTaken`), whole and under its own name (`OutcomesAreOwn`), without
  waiting for a timeout (`PromptWithoutTimeout`); a process is gone when its outcome
  is there (`GoneWhenReturned`), and timeouts end the other waits (`TimeoutsSuffice`).
* *Alignment*: each pass finds a cheapest path of its band (`PathsAreCheapest`); the
  band always reaches the corner (`CenterReachesCorner`); an attempt has a path
  unless it is too large or the fine band jumps, whatever the lengths
  (`OnlyAJumpFails`); a start offset is the last resort (`StartOffsetIsLastResort`)
  and looking for one fails in no new way (`SearchRaisesNothingNew`); the octave does
  not matter (`SameMelodyAligns`).
* *Scoring*: the reference sung back gets full marks (`OwnTakeIsPerfect`), forgiving a
  shift never costs points (`AdjustedNeverWorse`), high confidence is earned
  (`ConfidenceIsHonest`), and nothing fails behind the alignment
  (`OnlyAlignmentFails`).

## The modules

| Module | What it is | Correspondence |
|---|---|---|
| `RedisStream` | a stream with one consumer group, as operators on a record | Redis is external; the operators say what XADD, XREADGROUP, XCLAIM, XACK, XDEL, XLEN do to the part both programs observe |
| `JobState` | the shared state: rows, streams, requests in flight, the worker | one variable per column that decides what happens next; `req[r].pc` is the round trip a request makes next, `wk.pc` the worker's place in its code |
| `AnalysisService` | Enqueue, Cancel, Retry | one action per round trip; a failed one is `ApiFault` in `SongService` |
| `SongService` | adding a song, RetryPrep | as above; the rollback's DELETE cascades to analyses |
| `JobWorker` | scheduler, consumer and both handlers | one action per round trip, and one for a whole pipeline run |
| `Scheduler`, `MCScheduler` | which job is next: analyses first, then the song the oldest waiting analysis needs, then the oldest entry; three songs for TLC | entries are on a stream or gone, so clients may submit for ever; `pc` is the place in `_tick`, `waiting` the waiting rows by `queue_seq`; a run is one step, nothing stops or dies |
| `JobSystem` | their composition, fairness, properties, `Inv` | |
| `JobInvariants` | what else holds of every reachable state of `JobSystem`, part by part, and the faults and operations under which it does | definitions of the proofs only: who knows a row, who holds a job, who is about to publish or to remove an entry |
| `JobSystemProofs` | theorems about `JobSystem`: types, references, the rollback | |
| `JobOrderProofs` | `LifeInv`; a finished analysis stays so | extends the one above |
| `JobQueueProofs` | the caps and the startup reclaim | extends the one above |
| `JobLossProofs` | nothing is lost, nothing is doubled | extends the one above |
| `MCJobSystem` | model values and small sets for TLC | |
| `PipelineRunner` | `PipelineRunner.run`: mode filter, resume, the parallel group, retries, optional stages, `should_stop` | one action per outcome of a stage and per transaction; `pc` is the place in `run` and its helpers, `todo` is `remaining_flat` behind `flat_position` |
| `JobHandlers` | both handlers around the runner, and the deliveries of one job's entries | one action per call of `handle` that changes the row, the stored results or the files |
| `JobRun` | what the queue may assume of a run: it begins, completes or fails, finishes or is left | the abstract specification `JobHandlers` implements; `JobWorker` has the same steps |
| `JobHandlersProofs` | theorems about `JobHandlers` | |
| `MCJobHandlers` | the stage lists of `build_stages` and `build_prep_stages` | order, modes, `required`, the one `ParallelGroup` |
| `StageProcess` | `_start_group`, `_join_subprocess`, `_stage_worker`: one entry's children, their pipes and the parent that starts, reads, terminates and joins them | `pc` is the parent's place in `_join_subprocess`, `cur` the member it is at, `child` a process' state; one action per blocking call |
| `StageProcessProofs`, `MCStageProcess` | theorems about it; a group of three for TLC | |
| `Alignment` | `banded_dtw`, its backtracking, `refine_center`, `locate_start_offset_scores` and `TimeMap` as functions | a row of the table is a function of the previous one, as in the kernel |
| `AlignStage` | `AlignStage.run` and `_find_reference_start_offset` | one action per attempt; `at` is the attempt that comes next, or how the stage ended |
| `Aspects`, `Scoring`, `Report` | the results of the scoring stages; weights, recording condition and confidence; the report's phrases by their keys | operators, one per stage or rule |
| `WarmAnalysis` | the stages of a warm run in the order of `build_stages` | `results` is the context's dictionary of stage results; one action per stage, the parallel group is one |
| `AlignmentProofs` | lemmas about the alignment's functions: the table, the way back, the bands | extends `AlignStage` |
| `WarmAnalysisProofs`, `MCWarmAnalysis` | theorems about it; small recordings and references for TLC | |

`AnalysisService` and `JobWorker` extend `JobState`; `SongService` extends
`AnalysisService` (a song's rollback and its analyses share the requests);
`JobSystem` extends `SongService` and `JobWorker`. `JobHandlers` extends
`PipelineRunner` and maps to `JobRun` by the place of the worker (`HowFar`): a job
is through with its run from the save of its last result on.

Two models of one program meet here. `JobSystem` has many jobs, all the actors
and a one-step run; `JobHandlers` has one job and every step of its run. A step
of `JobRun` is a step the worker of `JobWorker` makes: `Begin` is
`HandleAnalysis` or `HandleSong`, `Completes` and `RunFails` are the actions of
those names, `Finish` is `FinishAnalysis` or `FinishSong`, `Leave` an interrupt, a
death, a handler's exception or the acknowledgement, `GiveUp` and `Retry` are theirs.

Abstractions that a reader should know:

* A row is reduced to status, stored entry id, and one bit "all stage results
  are in" (`complete`). Partial results only change where a rerun resumes.
* An entry's id is its position in the stream's log: ids grow and are never
  reused, as in Redis. XPENDING's delivery counter is kept per entry.
* A pipeline run is one action with three outcomes (completes, fails for good,
  is interrupted by shutdown between stages) or dies with the worker.
* A consumer's name is its host name: a restarted container keeps it, a
  recreated one does not (`Start`, `renamed`). Idle time is one bit,
  `RestartsAreSlow`: whether a restarted worker finds all pending entries
  idle for 20 minutes; when FALSE any subset of them may be.
* In `JobSystem` any waiting song may be preferred; `Scheduler` has the oldest.
* An exception in a handler may come at any place of it, behind the recorded outcome
  too (`publish_failed`, `publish_done`, `_cleanup`): `HandlerFault` in `JobWorker`,
  `Raises` in `JobHandlers`. What `_give_up` removes after an exception is at `drop`.
* An id names one analysis or song for the whole behaviour: a song deleted by
  the rollback comes back under its old name only when no request about the old
  row is in flight.

* `StageProcess` counts an answer in pieces; a pipe holds `Capacity` of them. A child
  answers, raises, hangs, crashes, sticks behind its answer (a library's thread or
  `atexit` handler) or loses an answer that cannot be pickled. What an answer says is
  its kind. Time is not counted: a timeout may expire whenever the pipe is empty.
  How the runner goes on with an outcome is the subject of `PipelineRunner`.
* A pitch is a number of semitones, 0 an unvoiced frame; `PitchDistance` is the chord
  between two points of the embedding, in hundredths, from a table. Deviations and
  scores are integers of the code's own units (cents, tenths of a point), rounded where
  the code rounds. Moments are not rounded: an onset lies on a frame and so does its
  counterpart on the path, and the middle of a pause counts in half fine hops. What the detectors find in the
  audio (onsets, silent frames, vibrato, correlation, timbre similarity, loudness) is
  part of the initial state, `take`.
* Of the report, the model has which phrase an aspect gets, by its key; a missing key
  is the exception it would be. The wording, the sections and the focus are left out.
* Weights are integers that sum to `Whole` (100 in the runs), of any sign, as
  `ScoringWeights.parse` lets them be. Its tolerance for the sum, and that NaN passes
  it, are not modelled.
* `JobHandlers`: the job's row is never canceled and its song is prepared, and a
  preparation wakes nobody (`JobSystem` has these). The five aspects' scores are
  stored in one step and the piano roll and the pitch curve in another, although
  each column is a transaction of its own: they are rewritten together by every
  delivery, from the same results. What a stage computes is left out; its run is
  its outcome. The age-based sweep of abandoned recordings is not modelled.

Definitions introduced by a comment starting with "Defect" are variants of the
definition below them with a plausible bug. They are used to see that each
property can fail, and by nothing else.

## The runs

`tlc -config X.cfg MCJobSystem`, unless the table names another module. Passing runs:

| Run | Question | Bounds |
|---|---|---|
| `cold_race` | Two songs are added and prepared while an analysis of each is enqueued, canceled and retried. Is a job lost, doubled, or published unprepared? What may the rollback of a full queue delete? | 2 songs, 2 analyses, 2 requests in flight, both caps 1, no faults |
| `worker_faults` | The same questions for an analysis of a prepared song and the preparation of another, when the worker dies, is stopped or a handler raises, anywhere, and restarts before or after the idle threshold. | 2 faults of 3 kinds |
| `all_faults` | Every operation and every kind of fault: the inductive invariant of the proofs. | 1 song, 1 analysis, 3 faults of 5 kinds: two deaths bring a job to its give-up, which the third lets fail |
| `warm_live` | Does every analysis settle in spite of crashes and stops, if restarts come after the idle threshold? How far do racing retries push the queue over its cap? | 2 analyses, cap 1, 2 requests, 2 faults |
| `preparations` (module `MCScheduler`) | Does every preparation settle while clients submit, add and retry for ever, and what may hold it up? | 3 songs on a cap of 2, a queue of 1, 2 waiting analyses, any number of submissions, retries and failing handlers |
| `handlers` (module `MCJobHandlers`) | What do a job's row, its stored results and its files hold when its runs are stopped, killed, redelivered, given up and retried? Is a run what `JobWorker` takes it to be? | the real stages, 2 retries each as in the code, both modes and the cold path; 2 entries, 1 redelivery before give-up, 3 faults |
| `stage_process` (module `MCStageProcess`) | Whose answer is taken, what is left running, which waits end, when children answer at length, hang, crash, stick, lose their answer or do not start? | 3 members with answers of 3, 1 and 2 pieces, pipes of 2, any number of faults |
| `analysis` (module `MCWarmAnalysis`) | Which path do the passes take, when does the stage fail, which offset does it report, and what do scores, confidence and report say of the take? | curves of 2 to 6 frames of rests and a few notes, all pairs; stride 2, bands of 1, `DTW_MAX_CELLS` 20, 3 candidates up to offset 3; 10 pairs with every mode, locale, onset set, silence, vibrato and likeness in turn |

Caps of 1 make "full" happen at once; two requests in flight are enough for
each check-then-act pair to interleave with another of itself; two faults are
enough for a fault during the recovery from the first; `MaxEntries` (entries ever
added to a stream) leaves room for the first entry, a retry's and one more, so
that entries of different age of one job coexist. `MAX_CLAIM_ATTEMPTS` is 1 (3 in the
code), so that giving up happens after one redelivery. An answer of three pieces
in a pipe of two is the smallest one whose writer waits for its reader, with one
that fits before or behind it in the order of the joins. A stride of 2 gives coarse curves
of one to three frames (a take of 2 frames against 4 finds no path in the fine pass, for
one), so that both hops round, lengths differ by more and by less than
the band of 1, and `MaxCells` lies between the sizes that occur; longer curves add
length, no new relation of band, hop and length. Weights are the code's own
(`config.py`, v1). Deadlock is not checked: with no
entry and no request the worker idles (XREADGROUP times out and nothing changes)
and clients need not do anything, so a state without successors is a legal rest; an
analysis and a group of subprocesses end.

What the passing runs do *not* include, because the code does not hold it: an API
fault between a commit and its XADD (documented gaps of the code,
`enqueue.go:117-121`), `cancel` together with worker crashes, and a wake-up
together with worker crashes.

Runs that refute what a comment of the repository says:

| Run | Property | What happens |
|---|---|---|
| `canceled_runs` | `CanceledIsFinal` | A job canceled after its delivery runs all the same: `handle` never looks at the status. |
| `missed_wake` | `WaitingIsWoken` | Enqueue reads the song as pending, the preparation finishes and wakes its waiters, then Enqueue inserts the waiting row. Nobody looks at it again. |
| `offset_ignored` (`MCWarmAnalysis`) | `ComparedWhereAligned` | The path of an accepted start offset counts from that offset (`align.py:157`), and pitch, rhythm and breath use it with the whole reference: they compare with the introduction the search skipped. |
| `transposed` (`MCWarmAnalysis`) | `TransposedIsScored` | A take 3 or 5 semitones away costs at least 0.52 a step, the ceiling is 0.45: the alignment fails it before key normalization can forgive the shift. |

Five more refutations need nothing but another configuration, of `MCJobSystem`
but for the last:

* *The wake-up is lost.* `JobNotLost` with the operations `enqueue` and `add_song`,
  nothing prepared and one `crash`: the worker dies between the commit of the wake-up
  and its XADDs (`prep_handler.py:213`); on redelivery nothing is waiting any more,
  although "Claimed jobs resume normally" (`consumer.py:190-192`).
* *A quick restart strands a job.* `ReclaimedAtStartup` with one `stop` and
  `RestartsAreSlow = FALSE`: reclaim runs once and skips what has not been idle for
  20 minutes, although "the next worker instance's startup reclaim picks it back up"
  (`handler.py:157-159`).
* *A slot leaks.* `AckedIsRemoved` with one `crash`: between XACK and XDEL the entry
  leaves every PEL and stays in XLEN, which a finished entry "must not"
  (`consumer.py:261-268`).
* *A rollback takes others' analyses.* `AcceptedIsKept` with two songs, `enqueue` and
  `add_song`: a song is visible before its preparation is admitted, and the rollback's
  DELETE cascades (`service.go:80`, against `upload.go:71-74`).
* *A song that is waited for does not jump.* `WaitedForJumps`, on `preparations`: only
  the oldest waiting analysis is looked at, and if that is one the wake-up missed
  (`missed_wake`), its song is on no stream, and the tick falls through to plain FIFO,
  although "a `songs:prep` entry whose song an analysis is waiting on jumps that stream's
  own FIFO order" (`scheduler.py:1-4`). A stranded row so switches the priority off for
  everybody.

Other deviations met and not given a run:

* A give-up overwrites `done` (`mark_permanently_failed` does not look at the row;
  `DoneIsNotRerun` exempts exactly this); a wake-up publishes beyond the cap
  (`prep_handler.py:213-218`); a request that fails at `SetQueueStreamID` leaves an
  entry for a row the client was never told of.
* "a stage cannot hang the worker past its declared budget" (`docs/SECURITY.md:283-286`,
  likewise ADR-0012) does not hold of a child killed in the middle of its answer, whose
  rest is read without a timeout because the parent holds the pipe's writing end
  too, nor of one that does not end behind its answer (`process.join()`).
  `TimeoutsSuffice` says that these two are all. A child that crashes before its answer
  is noticed only when the timeout expires.
* The `WEAK_ALIGNMENT` caveat cannot occur: its threshold (`constants.py:210`) is "deliberately
  below the hard-failure threshold" (204-208) in the units of another distance, and far
  above it since ADR-0033. The accompaniment warning of a clean recording appears twice.
* A take an octave away aligns (ADR-0033) and then scores 0 for pitch: neither the pitch
  stage nor key normalization folds octaves.
* The score behind a forgiven shift counts in the overall score only; the stored pitch
  score and the report's words and focus are those of the raw one.
* A reference without onsets gives rhythm 0 to a perfect take. Frames past a cropped
  overlap are compared with the last frame of it, where `align_and_compare` says None.
* A coarse path that waits may leave the fine band no path at all: the attempt fails,
  although `align.py:119-121` calls the difference "already absorbed by the band". A take
  of 2 frames against 4 does so whatever its contents. `OnlyAJumpFails` says of which
  attempts this is true, and that nothing else but the size fails one.
* A negative weight, or NaN, passes `ScoringWeights.parse` (`config.py:66-68`) and takes
  the overall score out of 0 to 100, where the CHECK of its column refuses it
  (`00004_create_analyses_table.sql:18`): a finished analysis then raises whenever it is
  stored. `WarmTypeOK` bounds the overall score only where no weight of the mode is
  negative.
* ADR-0024:86-90 accepts that a preparation waits while analyses keep coming; `PrepEnds`
  sets this aside and does not refute it.

## Fairness

`FairSpec` adds weak fairness of the worker's step as a whole and of each request
in flight. The worker is one thread that goes on until it is stopped, and the
container runtime restarts it (`restart: unless-stopped` in
`deploy/docker-compose.yml`), so `Start` is part of it; a request handler runs to
its end. Weak fairness of the disjunction, not of each action, is all the code
gives: it does not promise, for one thing, that a pipeline ever succeeds. No
client is obliged to do anything and no fault has to occur. Liveness is checked
without symmetry. In `JobHandlers`, `FairSpec` assumes the same of the worker alone:
weak fairness of `WorkerStep`.

In `Scheduler` the worker's loop goes on, as above, and a request that has read its
song inserts its row. Clients have no fairness and no limit: what they may do for ever
is in the property. `PrepEnds` has three exceptions, each of which the code allows:
analyses are served first (`scheduler.py:107-110`), an entry whose handler raises
stays the oldest (`consumer.py:137-142`), and a song that is waited for overtakes
(`scheduler.py:113`). Without any of them TLC finds the starvation it names; with them,
neither songs added or retried later nor a waiting row whose song is on no stream holds
a preparation up for ever.

`StageProcess` has weak fairness of the parent where it can go on, of a child's
answer, its writing and its end, and of the kernel's obedience to SIGKILL (not of a
process' to SIGTERM). That a timeout passes is not part of it: `PromptWithoutTimeout`
is what holds without, and `TimeoutsSuffice` assumes it in the property. Nothing
temporal is asked of `WarmAnalysis`; it is a sequence of functions.

## Proofs

`JobSystemProofs` proves for every set of analyses, songs and requests, every
cap, every choice of operations, faults and restart speed:

| Theorem | Statement |
|---|---|
| `InvAlways` | `Spec => []Inv` |
| `TypeCorrect` | `Spec => []TypeOK` |
| `ReferenceAlwaysReady` | `Spec => []ReferenceReady`: nothing is published to `analyses:run` before its song's reference is cached |
| `RollbackIsSafe` | `Spec => RollbackSparesPrepared`: a song's row is deleted only if nothing was ever published or cached for it |

Assumptions: those named in `JobState` (songs and analyses are disjoint, `NoJob`
is neither, bounds are natural numbers). Nothing is assumed of Redis beyond the
operators of `RedisStream`.

The argument. `ReferenceReady` is not inductive: whoever publishes must know that
the song is cached. Enqueue and Retry read `prep_status` several round trips
before they publish, so `RequestOK` says that a request past that read still has
a cached song, which holds because no step takes a reference away. That in turn
needs the one DELETE on songs to be harmless: `SongOK` ties the life of a row to
its stream (no row: nothing cached, nothing ever published; a request that may
still roll back: row pending, never published, and no second request of its
kind). The worker wakes analyses only behind the FinishSong of the entry it
holds, so `WorkerOK` carries the cached reference from `finish` to `publish`, and
that the entry exists, which needs the entries to be reclaimed to be pending
ones. `Inv` is the conjunction of these with `TypeOK`. The lemmas go bottom up:
what each Redis command does to a well-formed stream; what a change of queue
leaves of the invariant; one lemma per action or group of actions; `NextOK`.

### Nothing lost, doubled or run again

These hold only where the code holds them, so all but the first two have a hypothesis
about the constants, named in `JobInvariants` and shown where it is stated. They are
again for all sets of analyses, songs and requests and all caps.

| Theorem | Statement | Hypothesis, and what happens without it |
|---|---|---|
| `FinishedStaysFinished` | `DoneIsNotRerun` | none: every operation and every fault |
| `PrepQueueIsBounded` | `[]PrepQueueBounded` | none |
| `AnalysesQueueIsBounded` | `[]AnalysesQueueBounded` | `NothingToWake`: every song is prepared at the start; a wake-up publishes any number of analyses without a look at the length (`prep_handler.py:213-218`) |
| `StartReclaimsAll` | `[]ReclaimedAtStartup` | `SweepsAll`: restarts are slow and no handler raises; after a quick one an entry is not idle enough for the sweep, and an exception in the sweep leaves the entry pending behind it |
| `NoPreparationIsLost` | `[]PrepNotLost` | `NoGap`: no failing API request, no failing give-up; the first leaves a committed row without its XADD (`enqueue.go:117-121`), the second removes the entry and leaves the row (`consumer.py:246`) |
| `NoAnalysisIsLost` | `[]JobNotLost` | `NoGap`; `CancelIsSafe`: no cancel where anything fails, since it may delete the entry the worker just started on; `WakeIsWhole`: no death or exception while there is anything to wake |
| `NoJobIsDoubled` | `[]OneEntryPerJob` | `RecordedIsAcked`: no death and no exception in a handler, between the recorded outcome and the acknowledgement, since a retry then publishes beside an entry that is redelivered |

Every hypothesis is one of a run's configuration: `cold_race` has no faults and meets
all but `NothingToWake`; `worker_faults`
meets `NoGap`, `CancelIsSafe` and `WakeIsWhole` with deaths, stops and exceptions;
`warm_live` meets `NothingToWake` and `SweepsAll` with deaths and stops.
`NoJobIsDoubled` allows failing requests, stops and failing give-ups, which no run
combines with it. `Requests` is finite and not empty (`RequestsAssumption`), as `Overshoot`
counts them.

`LifeInv` is what they rest on, and holds whatever fails. Until Enqueue has published
or given up, nobody else knows the row it made (`EnqueueOK`): a client learns an id
only from the answer, so no cancel and no retry races with it. The entry id a cancel
deletes is one of the same analysis (`EntryIdOK`), however late a slow request stores it. What a status
says of the past (`RowOK`), and what the worker's place says of the row and of the
entry it holds (`RunOK`, `HandOK`). `FinishedStaysFinished` needs three of these: a
retry and a failing run require another status than done; whoever moves a waiting row does not
meet a done one; and an Enqueue that creates or rolls back a row is the only one to know it.

*Loss.* `Held` says who has a job whose row promises work: an entry that is not
`Doomed`, the worker before its outcome is on the row, or somebody about to publish.
`JobNotLost` speaks of any entry, and one a cancel or an acknowledgement is about to
delete would do; that is why it is not inductive. Each step that dooms an entry has
to find the row settled first, or the job in other hands: a cancel writes `canceled`
before its XDEL, and the entry it deletes is the row's own; the worker records the
outcome before the XACK.

*Doubling.* `OneOf` says that entries in circulation, requests about to publish and
the wake-up are together at most one, `NoneOf` that there is none at all while the row is in a status from
which it may be published again. The second is what an UPDATE that is conditional on
the status buys. The entry in the worker's hands counts although a cancel may
have deleted it: the run goes on and would otherwise meet the entry of a retry.

*Caps.* A retry looks at the length several round trips before its XADD, so the length
alone is not inductive either. Counted with the retries that have looked and not
yet published (`PrepCap`, `AnalysesCap`) it is: the last to look saw a free place,
and there are at most all the others besides.

*Reclaim.* `ReclaimInv`: during the sweep of `analyses:run` what is pending is before it, and
nothing is pending afterwards but the entry in the worker's hands.

TLC checked `OrderInv`, all of `JobInvariants` with each part under its condition, on the
configurations `cold_race`, `worker_faults`, `warm_live` and `all_faults`
before it was proved; to repeat it, add `OrderInv` to the INVARIANTS of one of them.

`JobHandlersProofs` proves for every list of stages, every assignment to modes and
groups, every retry bound and any number of entries, redeliveries and faults:

| Theorem | Statement |
|---|---|
| `HandlersInvAlways`, `HandlersTypeOK` | `Spec => []Inv`, `Spec => []TypeOK` |
| `ResultsAlwaysInOrder` | `Spec => []ResultsInOrder` |
| `ProgressAlwaysNext` | `Spec => []ProgressIsNext` |
| `NeverRerun` | `Spec => []NoRerun` |
| `DoneAlwaysWhole` | `Spec => []DoneIsWhole` |
| `FilesAlwaysKept` | `Spec => []FilesKept` |
| `AudioAlwaysRemoved` | `Spec => []AudioRemoved` |
| `HandlersImplementJobRun` | `Spec => ImplementsJobRun`: the refinement of `JobRun` |

Assumptions (`StageAssumption`): places in the order are distinct natural numbers,
entries are contiguous in it, an entry of several stages is a group, and every
pipeline has a stage. The argument: the worker's locals are a second copy of what
the row says, and both are needed. `RunnerOK` says they agree: what the run has
left is exactly what has no result, and the members not yet saved are those of
the first entry left. So each save takes the first stage without a result, which
keeps the results a prefix and makes the next name right; the crux is that the
rest of an entry, behind its first member, is again what is left of the first
entry (`RestOfEntry`, from the contiguity of entries). That a set of stages has a
first one is well-foundedness of the natural numbers (`FirstExists`).
`NothingSkipped` and `FinishOK` carry `DoneIsWhole` through the finish: a step
behind the run knows that every result is in, and pruning is only ever behind the
curves' save, so that a redelivery that finds them pruned has them stored. The
step map of the refinement needs `RunnerOK` once more: a run that fails has not
all results, one that completes has. `AudioAlwaysRemoved` has an invariant of its own,
`HandlingOK`: an entry stays pending while it is handled or awaits its reclaim, and
only a given-up entry, or one of a failed job, is acknowledged with files left.

`StageProcessProofs` proves for every number of members, every length of their answers
and every capacity:

| Theorem | Statement |
|---|---|
| `TypeCorrect` | `Spec => []TypeOK`, with the bound of each pipe |
| `NoneLeftBehind` | `Spec => []GoneWhenReturned` |
| `NothingMixedUp` | `Spec => []OutcomesAreOwn` |
| `NoAnswerIsDropped` | `Spec => AnswerIsTaken` |

The inductive invariant `IInv` adds what the parent knows by its place: outcomes are
taken in the order of the members (`Turns`), a process is joined only when its answer
was read to the end (`Complete`), one that has sent something has put something
(`Answering`), and before its turn to start a member has neither process nor signal
(`Fresh`). `AnswerIsTaken` is temporal: once a piece is in a member's pipe before
its `check`, that stays so until its outcome is the answer; the step of that argument
that matters is that `Expire` needs an empty pipe.

`WarmAnalysisProofs` proves for all curves of any length, all bands, limits and takes:

| Theorem | Statement |
|---|---|
| `LastResort` | `WarmSpec => []StartOffsetIsLastResort` |
| `SearchNeverTooLarge` | `WarmSpec => []SearchRaisesNothingNew`: looking for an offset never fails by its size |
| `AttemptsFailByJumps` | `WarmSpec => []OnlyAJumpFails`: from any start, the coarse pass finds a path or is too large, and the fine pass finds one unless it is too large or its band jumps, and then never |
| `PassesAreCheapest` | `WarmSpec => []PathsAreCheapest`: no path through its band costs less than the one a pass returns |
| `CenterRunsThrough` | `WarmSpec => []CenterReachesCorner`: the projected centre moves forward, from the near corner to the far one |
| `SameMelodyAccepted` | `WarmSpec => []SameMelodyAligns`: a take of the same notes, in any octave each, needs no search and costs nothing |
| `HighConfidenceIsEarned` | `WarmSpec => []ConfidenceIsHonest`: high confidence is for an a cappella take, half of it voiced at least, compared from its first frame to its last with the whole reference |
| `ReportNeverFails` | `WarmSpec => []OnlyAlignmentFails` |
| `ScoresInRange` | `WarmSpec => []WarmTypeOK`: every score is between 0 and 100 points, their weighted sum too if no weight of the mode is negative, every confidence one of the three levels |
| `ShiftNeverCosts` | `WarmSpec => []AdjustedNeverWorse`: forgiving the shift of a whole take costs no points |
| `OwnTakeGetsFullMarks` | `WarmSpec => []OwnTakeIsPerfect`: the reference sung back scores 100 |

Assumptions, each named beside the constants it is about, and why the code gives them:

* `AlignAssumption`: curves are sequences of natural numbers, limits are natural numbers.
* `BandAssumption`: the fine band is at least a frame and no narrower than the hop it
  follows, less one.
* `VoiceAssumption`: some share of voiced frames is required (5 % in
  `constants.py`), so that a recording without any voice is never compared.
* `PauseAssumption`: a pause is a coarse frame at least (`_pause_regions` takes
  `max(1, ...)` of them), and the tolerance for meeting it is half a coarse frame at least
  (0.5 s against a hop of 0.05 s). Without the second a pause's middle
  could be rounded out of reach of itself.
* `ToleranceAssumption`: nothing divides by zero, and the score for a vibrato only one of
  the two has is a score.
* `WeightsAssumption`: the weights of a mode are integers, one for each of its aspects,
  and sum to `Whole`, which `ScoringWeights` refuses to start without. They may be
  negative.
* `TakesAssumption`: a take's mode and locale are among those there are; onsets
  are within their curve, silence is known for each coarse frame, a correlation and a similarity
  are 1 at most. It is what the detectors return.
* `ConfidenceAssumption`: the caveat for few voiced frames starts at half of them or above
  (50 of 100 in the code).

*The search.* `StageInv` says when it is on (`SearchIsJustified`: the
direct attempt failed, and not by its size) and that nothing is found before something
is accepted; that the number of tried offsets is bounded needs that they are
finitely many. A later start leaves no more of the recording than an earlier one, and
so no larger a table: that is all `SearchNeverTooLarge` needs.

*The passes.* What a pass computes is a recursive function, row by row and cell by cell.
Theorems with an operator for a parameter cannot be used here, so `AlignmentProofs`
has induction and recursion with a set instead: `Induct` and `Recursion` along a row,
`GridInduct` and `GridRecursion` over the table, in the order in which the kernel fills it. From them each
recursive definition has the value its equation says, and two inductions over the
grid follow: a cell's value is the cost of some path through the band to it
(so the way back walks one), and it is at most the cost of any (`PassIsCheapest`).
The one thing that could spoil either is the kernel's `Infinity`: it has to exceed the
cost of every path, which it does since a path has at most as many steps as the table has
cells and `MaxCells` bounds those. For `CenterReachesCorner` the coarse path's projection is
shown to be monotone and to start and end in the corners (`CenterIs`).
For `OnlyAJumpFails`, a cell is reached if one of its three predecessors is
(`ReachedCells`): where no band begins past the column behind the one before, each row
has a reached cell at its far end (`NoJumpReaches`), and where one does, no later
row has any (`JumpStops`). The coarse centre is the diagonal and never jumps.
`SameMelodyAligns` exhibits the diagonal: it costs nothing, the coarse
pass therefore finds a path that costs nothing, of all frames voiced at equal pitch classes,
and the fine pass has the diagonal inside its band again (`SameSoundAligns`).

*Confidence.* `ResultsInv` carries each stage's result to the stages that read it and
to the aggregate. High confidence leaves no caveat (`HighIsUnreserved`: two levels are
below it and every caveat takes at least one), hence neither a start offset nor a crop;
a path of the whole curves runs from corner to corner
(`WholeIsCompared`), which is what `ConfidenceIsHonest` asks.

*Scores.* The library proves nothing about `SumFunction`, so `WarmAnalysisProofs` begins with
its order and its scaling (`SumOrder`, `SumScaled`), by an induction over finite sets that has a
set for its hypothesis (`SetInduct`). A score is a `Decay` of such a sum: it is in
range (`DecayIs`) whatever the sum, and 1000 when the sum is 0; a mean with weights that sum
to 1 keeps full marks, and stays in range if none of them is negative. A quartile is stated by what it is, the
value with fewer than k values below it and at least k not above (`NthIs`), not by a sort.
For `ShiftNeverCosts` the median has at most half of the deviations on either side (`MedianIs`);
moving the origin from 0 to it gains on one half at least what it loses on the other
(`MedianIsBest`), and the scores fall with the sum, at either scale
(`DecayScaled`). For `OwnTakeGetsFullMarks` the path has to be the diagonal (`OwnPath`, on top
of `SameMelodyAligns`), then the time map is the identity, and one lemma per
aspect follows: each frame, onset and pause meets itself (`OwnPitch`, `OwnRhythm`,
`OwnBreath`, `OwnVibrato`).

`OnlyAlignmentFails` goes through the keys of every aspect: each
tier, tendency and vibrato outcome has its phrase in both locales.

Only model-checked: the liveness properties (`RunSettles`, `JobEnds`,
`PrepEnds`, `PromptWithoutTimeout`, `TimeoutsSuffice`), which are out of the prover's
reach. Every invariant that a passing run checks is a theorem, those of
`JobSystem`'s caps, loss and doubling under the hypotheses shown with them. The violations
are TLC's: a counterexample on a small instance is all they need.

## Plan

In this order; what is above is done.

1. `AnalysisLifecycle`: the row's life as a client sees it; `JobSystem`
   implements it.
2. `QueuePositions`: two RecalculatePositions under READ COMMITTED
   (`analysis_repository.go:234-266`), the ranking and the update as two
   steps. The property to state: without a failing statement every queued row
   has a position or a recalculation that will give it one. Order, density and
   "nil once it left the queue" are not invariants of two recalculations that
   interleave, so they are not what to start from.
3. `RefreshTokens`: families, rotation, reuse, revocation in several commands.
4. `ProgressEvents`: snapshot before registration, best-effort buffers, the
   page's cache and its poll. It needs an abstract row: composed with the
   positions the state space is beyond 20 million states.
5. `Throttles`, `RecordingFiles`.
6. Proofs: the refinement of `AnalysisLifecycle`, with `LifeInv` as its invariant.

## Not modelled

The consumer's answer to a group that disappeared (`consumer.py:103-117`: create it again from
the first entry the stream still has) and an entry without a job id
(`consumer.py:122-129`). How correlation and similarity are computed, with 0 for a constant
envelope (`dynamics.py:23-26`), is part of the input. What the report says beyond one
phrase per aspect.

The API's sessions, throttles, files and event hub are planned above. Not planned:
separation, transcription and detection (floating-point signals without state of their
own; what they return is an input of `WarmAnalysis`), rendering, mail, HTTP mapping.
