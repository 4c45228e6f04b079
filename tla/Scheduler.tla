------------------------------- MODULE Scheduler -------------------------------
(***************************************************************************)
(* The scheduler's order (queue/scheduler.py): analyses:run before         *)
(* songs:prep, there the song the oldest waiting analysis needs, otherwise *)
(* the oldest entry.  JobSystem has every entry and every fault for a      *)
(* bounded number of entries; this module has no entry but those still on  *)
(* the streams, so that clients may go on submitting for ever.             *)
(*                                                                         *)
(* The worker neither stops nor dies here, a run is one step, and so are   *)
(* an outcome, what it does to those who wait, and the acknowledgement.    *)
(* A song that finds its queue full is not added: the rollback is in       *)
(* SongService.                                                            *)
(***************************************************************************)
EXTENDS Integers, Sequences, FiniteSets, SequencesExt

CONSTANTS
  Songs,
  QUEUE_MAX_LENGTH,  \* cap of analyses:run
  SongsPrepMaxLen,   \* cap of songs:prep
  MaxWaiting,        \* bound: analyses that wait at one time
  NoSong             \* the absence of a song id

ASSUME SchedulerAssumption ==
  /\ NoSong \notin Songs
  /\ {QUEUE_MAX_LENGTH, SongsPrepMaxLen, MaxWaiting} \subseteq Nat

VARIABLES
  prep,      \* songs.prep_status, "none" while there is no row
  analyses,  \* how many entries analyses:run holds
  entries,   \* the songs on songs:prep, oldest entry first
  waiting,   \* the songs of the analyses waiting_for_reference, by queue_seq
  asked,     \* a song some request found unprepared and has no row for yet
  pc,        \* the worker's place in _tick
  target     \* the song it looks for or prepares

apiVars == <<prep, entries>>
workerVars == <<pc, target>>
vars == <<prep, analyses, entries, waiting, asked, pc, target>>

Init ==
  /\ prep = [s \in Songs |-> "none"]
  /\ analyses = 0 /\ entries = <<>> /\ waiting = <<>> /\ asked = NoSong
  /\ pc = "tick" /\ target = NoSong

HasRoom == Len(entries) < SongsPrepMaxLen

Without(seq, s) == SelectSeq(seq, LAMBDA t : t # s)
-----------------------------------------------------------------------------
\* A new song, or a failed one whose preparation is asked for again.
AddSong(s) ==
  /\ prep[s] = "none" /\ HasRoom
  /\ prep' = [prep EXCEPT ![s] = "pending"] /\ entries' = Append(entries, s)
  /\ UNCHANGED <<analyses, waiting, asked>> /\ UNCHANGED workerVars

RetryPrep(s) ==
  /\ prep[s] = "failed" /\ HasRoom
  /\ prep' = [prep EXCEPT ![s] = "pending"] /\ entries' = Append(entries, s)
  /\ UNCHANGED <<analyses, waiting, asked>> /\ UNCHANGED workerVars

\* Enqueue or Retry of an analysis whose song is ready.
Submit(s) ==
  /\ prep[s] = "ready" /\ analyses < QUEUE_MAX_LENGTH
  /\ analyses' = analyses + 1
  /\ UNCHANGED <<waiting, asked>> /\ UNCHANGED apiVars /\ UNCHANGED workerVars

\* Enqueue or Retry reads a song that is not ready, and inserts the row later,
\* whatever became of the song meanwhile.
FindUnprepared(s) ==
  /\ asked = NoSong /\ Len(waiting) < MaxWaiting
  /\ prep[s] \in {"pending", "processing"}
  /\ asked' = s
  /\ UNCHANGED <<analyses, waiting>> /\ UNCHANGED apiVars /\ UNCHANGED workerVars

InsertWaiting ==
  /\ asked # NoSong
  /\ waiting' = Append(waiting, asked) /\ asked' = NoSong
  /\ UNCHANGED analyses /\ UNCHANGED apiVars /\ UNCHANGED workerVars

\* A waiting analysis is canceled.
Cancel(k) ==
  /\ waiting' = RemoveAt(waiting, k)
  /\ UNCHANGED <<analyses, asked>> /\ UNCHANGED apiVars /\ UNCHANGED workerVars

Client ==
  \/ \E s \in Songs : AddSong(s) \/ RetryPrep(s) \/ Submit(s) \/ FindUnprepared(s)
  \/ \E k \in DOMAIN waiting : Cancel(k)
-----------------------------------------------------------------------------
\* analyses:run is served first, whatever becomes of the analysis.
ServeAnalysis ==
  /\ pc = "tick" /\ analyses > 0
  /\ analyses' = analyses - 1
  /\ UNCHANGED <<waiting, asked>> /\ UNCHANGED apiVars /\ UNCHANGED workerVars

OldestWaitingSong ==
  /\ pc = "tick" /\ analyses = 0
  /\ pc' = "claim" /\ target' = IF waiting = <<>> THEN NoSong ELSE Head(waiting)
  /\ UNCHANGED <<analyses, waiting, asked>> /\ UNCHANGED apiVars

Prepare(s) ==
  /\ pc' = "run" /\ target' = s
  /\ prep' = [prep EXCEPT ![s] = "processing"]
  /\ UNCHANGED <<analyses, entries, waiting, asked>>

IsOnStream(s) == \E k \in DOMAIN entries : entries[k] = s

\* Every entry is claimed, and the one of the song somebody waits for is run.
PriorityPrep ==
  /\ pc = "claim" /\ IsOnStream(target)
  /\ Prepare(target)

\* Defect: it waits for the song to turn up instead.
NextPrepUnlessWaiting ==
  /\ pc = "claim" /\ ~IsOnStream(target)
  /\ IF entries = <<>> \/ target # NoSong
     THEN pc' = "tick" /\ target' = NoSong /\ UNCHANGED <<prep, analyses, entries, waiting, asked>>
     ELSE Prepare(Head(entries))

\* It is not there: plain FIFO.
NextPrep ==
  /\ pc = "claim" /\ ~IsOnStream(target)
  /\ IF entries = <<>>
     THEN pc' = "tick" /\ target' = NoSong /\ UNCHANGED <<prep, analyses, entries, waiting, asked>>
     ELSE Prepare(Head(entries))

Ends(new) ==
  /\ pc = "run"
  /\ prep' = [prep EXCEPT ![target] = new]
  /\ entries' = Without(entries, target) /\ waiting' = Without(waiting, target)
  /\ pc' = "tick" /\ target' = NoSong
  /\ UNCHANGED asked

\* The analyses that wait are published without a look at the cap.
PrepSucceeds == Ends("ready") /\ analyses' = analyses + Len(waiting) - Len(waiting')

PrepFails == Ends("failed") /\ UNCHANGED analyses

\* The handler raises: the entry stays where it is.
PrepRaises ==
  /\ pc = "run" /\ pc' = "tick" /\ target' = NoSong
  /\ UNCHANGED <<analyses, waiting, asked>> /\ UNCHANGED apiVars

Worker ==
  \/ ServeAnalysis \/ OldestWaitingSong \/ PriorityPrep \/ NextPrep
  \/ PrepSucceeds \/ PrepFails \/ PrepRaises

Next == Client \/ InsertWaiting \/ Worker

(***************************************************************************)
(* The worker's loop goes on, and a request runs to its end; no client has *)
(* to do anything, and none is ever kept from submitting.                  *)
(***************************************************************************)
Spec == Init /\ [][Next]_vars /\ WF_vars(Worker) /\ WF_vars(InsertWaiting)
-----------------------------------------------------------------------------
Overtakes == PriorityPrep /\ target # Head(entries)

(***************************************************************************)
(* A preparation settles unless, for ever, analyses keep coming (which go  *)
(* first, ADR-0024), handlers keep raising (the entry stays the oldest) or *)
(* others keep being waited for.  Nothing else holds it up: neither songs  *)
(* added or retried after it, nor an analysis that waits for a song which  *)
(* is not on the stream (_process_priority_prep falls through to FIFO).    *)
(***************************************************************************)
PrepEnds ==
  \/ []<><<ServeAnalysis>>_vars
  \/ []<><<PrepRaises>>_vars
  \/ []<><<Overtakes>>_vars
  \/ \A s \in Songs :
       prep[s] \in {"pending", "processing"} ~> prep[s] \in {"ready", "failed"}

(***************************************************************************)
(* What scheduler.py says and the code does not do: "a songs:prep entry    *)
(* whose song an analysis is waiting on jumps that stream's own FIFO       *)
(* order".  Only the oldest waiting analysis is looked at; if nobody wakes *)
(* it (missed_wake), no other song jumps.  The README says how it fails.   *)
(***************************************************************************)
WaitedForJumps ==
  [][NextPrep /\ pc' = "run" /\ target # NoSong =>
       \A k \in DOMAIN waiting : waiting[k] = target' \/ ~IsOnStream(waiting[k])]_vars
=============================================================================
