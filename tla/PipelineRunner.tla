---------------------------- MODULE PipelineRunner ----------------------------
(***************************************************************************)
(* PipelineRunner.run (worker/src/vocalcoach/pipeline/runner.py): the      *)
(* stages of one job in their fixed order, resumed behind the results the  *)
(* row already holds.  An entry of the list is one stage or a              *)
(* ParallelGroup; a result is saved in a transaction of its own.           *)
(*                                                                         *)
(* A stage's run is its outcome: "ok", "logical" (a property of the audio) *)
(* or "transient" (a timeout, a crash of its process, any other            *)
(* exception).  Left out: what a result contains, published events, the    *)
(* delay between retries, and the environment of the subprocesses.         *)
(***************************************************************************)
EXTENDS Integers, FiniteSets

CONSTANTS
  Stages,            \* the stages of all pipelines
  PathsOf,           \* the paths each stage is part of
  Place,             \* its place in the flattened order
  EntryOf,           \* the entry of the list it is in
  Groups,            \* the entries that are ParallelGroups
  Required,          \* the stages whose failure is fatal
  MAX_STAGE_RETRIES,
  NoStage            \* NULL, for a stage name

\* An analysis runs under its mode; a song's preparation runs unfiltered.
Paths == {"clean", "mixed", "prep"}

ASSUME StageAssumption ==
  /\ PathsOf \in [Stages -> SUBSET Paths]
  /\ Place \in [Stages -> Nat]
  /\ EntryOf \in [Stages -> Nat]
  /\ \A s, t \in Stages : EntryOf[s] < EntryOf[t] => Place[s] < Place[t]
  /\ \A s, t \in Stages : Place[s] = Place[t] => s = t
  /\ \A s, t \in Stages : EntryOf[s] = EntryOf[t] => s = t \/ EntryOf[s] \in Groups
  /\ \A p \in Paths : \E s \in Stages : p \in PathsOf[s]
  /\ Required \subseteq Stages
  /\ MAX_STAGE_RETRIES \in Nat
  /\ NoStage \notin Stages

VARIABLES
  path,      \* which pipeline the job runs
  status,    \* the row's status
  current,   \* the row's current_stage / prep_stage
  stages,    \* the row's stages_json / prep_stages_json, "none" for no result
  pc,        \* where the worker stands
  todo,      \* remaining_entries: the stages this run has left to save
  members,   \* of the current entry, those not saved yet
  result,    \* of this entry: raw outcomes, then results to save
  attempt,   \* retries of the stage that runs alone
  watching,  \* should_stop is the scheduler's flag, not reclaim's constant False
  stopping   \* the scheduler's flag

row == <<path, status, current, stages>>
locals == <<todo, members, result, attempt>>

Outcomes == {"ok", "logical", "transient"}

\* _stages_for_mode
Active == {s \in Stages : path \in PathsOf[s]}

Saved == {s \in Stages : stages[s] # "none"}

First(S) == CHOOSE s \in S : \A t \in S : Place[s] <= Place[t]

\* The stages of S in the entry of the first one.
FirstEntry(S) == {s \in S : EntryOf[s] = EntryOf[First(S)]}

NameOfFirst(S) == IF S = {} THEN NoStage ELSE First(S)

NoResult == [s \in Stages |-> "none"]

\* What one run knows ends with it.
Leaves(where) ==
  /\ pc' = where
  /\ todo' = {} /\ members' = {} /\ result' = NoResult /\ attempt' = 0

ShouldStop == watching /\ stopping

PipelineType ==
  /\ path \in Paths
  /\ status \in {"queued", "processing", "done", "failed"}
  /\ current \in Stages \cup {NoStage}
  /\ stages \in [Stages -> {"none", "done", "skipped"}]
  /\ todo \subseteq Stages
  /\ members \subseteq todo
  /\ result \in [Stages -> Outcomes \cup {"none", "done", "skipped"}]
  /\ attempt \in 0 .. MAX_STAGE_RETRIES
  /\ watching \in BOOLEAN
  /\ stopping \in BOOLEAN
-----------------------------------------------------------------------------
\* Defect: a job's saved results are not looked at.
RemainingAll == Active

\* _remaining_entries, flattened.
Remaining == Active \ Saved

\* The run starts: with nothing left to do, the row is not written.
RunStart ==
  /\ todo' = Remaining /\ members' = {}
  /\ IF Remaining = {} THEN UNCHANGED <<status, current>>
     ELSE status' = "processing" /\ current' = First(Remaining)
  /\ pc' = "entries"
  /\ UNCHANGED <<path, stages, result, attempt>>

\* RunOutcome.COMPLETED: there is no entry left, whether or not it should stop.
Completed ==
  /\ pc = "entries" /\ todo = {}
  /\ Leaves("finish")
  /\ UNCHANGED <<row, watching, stopping>>

\* Defect: a run told to stop counts as a completed one.
InterruptedAsCompleted ==
  /\ pc = "entries" /\ todo # {}
  /\ ShouldStop
  /\ Leaves("finish")
  /\ UNCHANGED <<row, watching, stopping>>

\* RunOutcome.INTERRUPTED, only ever between two entries.
Interrupted ==
  /\ pc = "entries" /\ todo # {}
  /\ ShouldStop
  /\ Leaves("idle")
  /\ UNCHANGED <<row, watching, stopping>>

NextEntry ==
  /\ pc = "entries" /\ todo # {}
  /\ ~ShouldStop
  /\ members' = FirstEntry(todo)
  /\ result' = NoResult /\ attempt' = 0
  /\ pc' = IF EntryOf[First(todo)] \in Groups THEN "group" ELSE "alone"
  /\ UNCHANGED <<row, todo, watching, stopping>>

\* _start_group: all members at once, and every outcome is waited for.
RunGroup ==
  /\ pc = "group"
  /\ \E outcome \in [members -> Outcomes] :
       result' = [s \in Stages |-> IF s \in members THEN outcome[s] ELSE "none"]
  /\ pc' = "collect"
  /\ UNCHANGED <<row, todo, members, attempt, watching, stopping>>

Uncollected == {s \in members : result[s] \notin {"done", "skipped"}}

Succeeds(s) ==
  /\ result' = [result EXCEPT ![s] = "done"]
  /\ pc' = "collect"

\* A required stage's failure ends the run; an optional stage is skipped.
Fails(s) ==
  IF s \in Required
  THEN pc' = "fail" /\ UNCHANGED result
  ELSE result' = [result EXCEPT ![s] = "skipped"] /\ pc' = "collect"

\* _run_group_with_retries looks at the outcomes in order; a member whose
\* failure was transient runs again by itself, with all its retries.
Collect ==
  LET s == First(Uncollected) IN
  /\ pc = "collect" /\ Uncollected # {}
  /\ \/ result[s] = "ok" /\ Succeeds(s) /\ UNCHANGED attempt
     \/ result[s] = "logical" /\ Fails(s) /\ UNCHANGED attempt
     \/ result[s] = "transient" /\ pc' = "alone" /\ attempt' = 0 /\ UNCHANGED result
  /\ UNCHANGED <<row, todo, members, watching, stopping>>

\* Defect: every retry starts with a fresh counter.
RunAloneUncounted ==
  LET s == First(Uncollected) IN
  /\ pc = "alone"
  /\ \/ (Succeeds(s) \/ Fails(s)) /\ UNCHANGED attempt
     \/ pc' = "collect" /\ result' = [result EXCEPT ![s] = "transient"] /\ UNCHANGED attempt
  /\ UNCHANGED <<row, todo, members, watching, stopping>>

\* _run_stage_with_retries, one attempt: it succeeds, fails for good (a logical
\* error, or a transient one on the last attempt), or is tried once more.
RunAlone ==
  LET s == First(Uncollected) IN
  /\ pc = "alone"
  /\ \/ (Succeeds(s) \/ Fails(s)) /\ UNCHANGED attempt
     \/ attempt < MAX_STAGE_RETRIES /\ attempt' = attempt + 1 /\ UNCHANGED <<pc, result>>
  /\ UNCHANGED <<row, todo, members, watching, stopping>>

\* Defect: the members of an entry are saved as they come.
SaveInAnyOrder ==
  /\ pc = "collect" /\ Uncollected = {}
  /\ \E s \in members :
       /\ stages' = [stages EXCEPT ![s] = result[s]]
       /\ current' = NameOfFirst(todo \ {s})
       /\ todo' = todo \ {s} /\ members' = members \ {s}
       /\ pc' = IF members = {s} THEN "entries" ELSE "collect"
  /\ UNCHANGED <<path, status, result, attempt, watching, stopping>>

\* Defect: the stage named next is the next of the same entry.
SaveNamesMember ==
  LET s == First(members) IN
  /\ pc = "collect" /\ Uncollected = {}
  /\ stages' = [stages EXCEPT ![s] = result[s]]
  /\ current' = NameOfFirst(members \ {s})
  /\ todo' = todo \ {s} /\ members' = members \ {s}
  /\ pc' = IF members = {s} THEN "entries" ELSE "collect"
  /\ UNCHANGED <<path, status, result, attempt, watching, stopping>>

\* save_stage_progress: a result and the name of the stage after it, in one
\* transaction, member by member once all of the entry are in.
Save ==
  LET s == First(members) IN
  /\ pc = "collect" /\ Uncollected = {}
  /\ stages' = [stages EXCEPT ![s] = result[s]]
  /\ current' = NameOfFirst(todo \ {s})
  /\ todo' = todo \ {s} /\ members' = members \ {s}
  /\ pc' = IF members = {s} THEN "entries" ELSE "collect"
  /\ UNCHANGED <<path, status, result, attempt, watching, stopping>>

RunnerStep ==
  \/ Completed \/ Interrupted \/ NextEntry \/ RunGroup \/ Collect \/ RunAlone \/ Save
=============================================================================
