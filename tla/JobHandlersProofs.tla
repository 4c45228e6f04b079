--------------------------- MODULE JobHandlersProofs ---------------------------
(***************************************************************************)
(* Theorems about JobHandlers, for every list of stages and every bound.   *)
(***************************************************************************)
EXTENDS JobHandlers, WellFoundedInduction, TLAPS

\* A nonempty set of stages has a first one: First, of the runner, is defined.
LEMMA FirstExists ==
  ASSUME NEW S \in SUBSET Stages, S # {}
  PROVE  First(S) \in S /\ \A t \in S : Place[First(S)] <= Place[t]
<1> DEFINE T == {Place[s] : s \in S}
<1>1. T \subseteq Nat /\ T # {}
  BY StageAssumption
<1>2. \E x \in T : \A y \in T : ~ (<<y, x>> \in OpToRel(<, Nat))
  <2> HIDE DEF T
  <2> QED BY <1>1, WFMin, NatLessThanWellFounded
<1>3. PICK x \in T : \A y \in T : ~ (y < x)
  BY <1>1, <1>2 DEF OpToRel
<1>4. PICK s \in S : Place[s] = x
  BY <1>3
<1>5. \A t \in S : Place[s] <= Place[t]
  BY <1>1, <1>3, <1>4, StageAssumption
<1> QED BY <1>4, <1>5 DEF First
-----------------------------------------------------------------------------
\* The sets computed from the row.
LEMMA RowSets ==
  ASSUME TypeOK
  PROVE  /\ Active \subseteq Stages /\ Saved \subseteq Stages
         /\ Remaining \subseteq Active /\ (Remaining = {} <=> complete)
BY DEF Active, Saved, Remaining, complete

\* What only speaks of the row and of what is stored is kept with them.
LEMMA RowKept ==
  ASSUME Inv, UNCHANGED <<row, products>>
  PROVE  /\ ResultsInOrder' /\ ProgressIsNext' /\ DoneIsWhole' /\ FilesKept'
         /\ Active' = Active /\ Saved' = Saved /\ complete' = complete
         /\ \A s \in Required : stages'[s] # "skipped"
<1> USE DEF row, products
<1>1. Active' = Active /\ Saved' = Saved
  BY DEF Active, Saved
<1>2. complete' = complete
  BY <1>1 DEF complete
<1>3. ResultsInOrder'
  BY <1>1 DEF Inv, ResultsInOrder
<1>4. ProgressIsNext'
  BY <1>1 DEF Inv, ProgressIsNext, NameOfFirst
<1>5. DoneIsWhole'
  BY <1>1, <1>2 DEF Inv, DoneIsWhole, LyricsAvailable
<1>6. FilesKept'
  BY <1>2 DEF Inv, FilesKept
<1>7. \A s \in Required : stages'[s] # "skipped"
  BY DEF Inv, NothingSkipped
<1> QED BY <1>1, <1>2, <1>3, <1>4, <1>5, <1>6, <1>7

\* A step in which the worker is in none of the run's or the finish's places
\* afterwards, and leaves the row as it is.
LEMMA QuietStep ==
  ASSUME Inv, UNCHANGED <<row, products>>,
         pc' \in {"idle", "down", "handle", "publish", "ack", "fail"},
         NothingSkipped', TypeOK'
  PROVE  Inv'
<1>1. RunnerOK'
  BY DEF RunnerOK, Running
<1>2. FinishOK'
  BY DEF Inv, FinishOK, Finishing, row, products
<1> QED BY <1>1, <1>2, RowKept DEF Inv

LEMMA InitOK == ASSUME Init PROVE Inv
<1> USE DEF Init
<1>1. TypeOK
  <2>1. PipelineType
    <3>1. attempt \in 0 .. MAX_STAGE_RETRIES
      BY StageAssumption
    <3>2. result \in [Stages -> Outcomes \cup {"none", "done", "skipped"}]
      BY DEF NoResult
    <3>3. stages \in [Stages -> {"none", "done", "skipped"}]
      OBVIOUS
    <3> QED BY <3>1, <3>2, <3>3 DEF PipelineType
  <2>2. /\ entry \in [Entries -> {"unused", "undelivered", "pending", "gone"}]
        /\ times \in [Entries -> Nat]
    OBVIOUS
  <2>3. faults \in 0 .. MaxFaults
    BY DeliveryAssumption
  <2> QED BY <2>1, <2>2, <2>3 DEF TypeOK, PC
<1>2. RunnerOK
  BY DEF RunnerOK, Running
<1>3. NothingSkipped
  BY StageAssumption DEF NothingSkipped, NoResult
<1>4. FinishOK
  BY DEF FinishOK, Finishing
<1>5. Saved = {}
  BY DEF Saved
<1>6. ResultsInOrder
  BY <1>5 DEF ResultsInOrder
<1>7. ProgressIsNext /\ DoneIsWhole /\ FilesKept
  BY DEF ProgressIsNext, DoneIsWhole, FilesKept
<1> QED BY <1>1, <1>2, <1>3, <1>4, <1>6, <1>7 DEF Inv
-----------------------------------------------------------------------------
\* How the locals of a run change when it leaves off, or does nothing.
LEMMA LocalTypes ==
  ASSUME TypeOK, UNCHANGED locals \/ Leaves(pc')
  PROVE  /\ todo' \subseteq Stages /\ members' \subseteq todo'
         /\ result' \in [Stages -> Outcomes \cup {"none", "done", "skipped"}]
         /\ attempt' \in 0 .. MAX_STAGE_RETRIES
         /\ NothingSkipped /\ UNCHANGED stages => NothingSkipped'
<1>1. CASE UNCHANGED locals
  BY <1>1 DEF TypeOK, PipelineType, locals, NothingSkipped
<1>2. CASE Leaves(pc')
  <2>1. 0 \in 0 .. MAX_STAGE_RETRIES
    BY StageAssumption
  <2>2. NoResult \in [Stages -> Outcomes \cup {"none", "done", "skipped"}]
    BY DEF NoResult
  <2>3. \A s \in Required : NoResult[s] # "skipped"
    BY StageAssumption DEF NoResult
  <2> QED BY <1>2, <2>1, <2>2, <2>3 DEF Leaves, NothingSkipped
<1> QED BY <1>1, <1>2

LEMMA QuietTypes ==
  ASSUME TypeOK, UNCHANGED <<row, products>>, UNCHANGED locals \/ Leaves(pc'),
         pc' \in PC, watching' \in BOOLEAN, stopping' \in BOOLEAN,
         entry' \in [Entries -> {"unused", "undelivered", "pending", "gone"}],
         times' \in [Entries -> Nat], at' \in Entries \cup {0},
         sweep' \subseteq Entries, faults' \in 0 .. MaxFaults
  PROVE  TypeOK'
<1>1. PipelineType'
  BY LocalTypes DEF TypeOK, PipelineType, row
<1> QED BY <1>1 DEF TypeOK, products

\* A fault stays within its bound.
LEMMA FaultTypes ==
  ASSUME TypeOK, faults < MaxFaults, faults' = faults + 1
  PROVE  faults' \in 0 .. MaxFaults
BY DeliveryAssumption DEF TypeOK

\* The queue's actions and the faults: none touches the row or what is stored.
LEMMA DeliverOK == ASSUME Inv, Deliver PROVE Inv'
<1> USE DEF Deliver, Goes
<1>1. TypeOK
  BY DEF Inv
<1>2. PICK i \in Entries :
        /\ entry' = [entry EXCEPT ![i] = "pending"]
        /\ times' = IF entry[i] = "pending" THEN times ELSE [times EXCEPT ![i] = @ + 1]
        /\ at' = i
  OBVIOUS
<1>3. entry' \in [Entries -> {"unused", "undelivered", "pending", "gone"}]
  BY <1>1, <1>2 DEF TypeOK
<1>4. times' \in [Entries -> Nat]
  BY <1>1, <1>2 DEF TypeOK
<1>5. TypeOK'
  BY <1>1, <1>2, <1>3, <1>4, QuietTypes DEF TypeOK, PipelineType, PC
<1> QED BY <1>1, <1>5, LocalTypes, QuietStep DEF Inv, row

LEMMA ReclaimOK == ASSUME Inv, Reclaim PROVE Inv'
<1> USE DEF Reclaim, Goes
<1>1. TypeOK
  BY DEF Inv
<1>2. PICK i \in Entries :
        /\ times' = [times EXCEPT ![i] = @ + 1]
        /\ at' = i /\ sweep' = sweep \ {i}
  BY <1>1 DEF TypeOK
<1>3. times' \in [Entries -> Nat]
  BY <1>1, <1>2 DEF TypeOK
<1>4. TypeOK'
  BY <1>1, <1>2, <1>3, QuietTypes DEF TypeOK, PipelineType, PC
<1> QED BY <1>1, <1>4, LocalTypes, QuietStep DEF Inv, row

LEMMA AckOK == ASSUME Inv, Ack PROVE Inv'
<1> USE DEF Ack, Goes
<1>1. TypeOK
  BY DEF Inv
<1>2. entry' \in [Entries -> {"unused", "undelivered", "pending", "gone"}]
  BY <1>1 DEF TypeOK
<1>3. TypeOK'
  BY <1>1, <1>2, QuietTypes DEF TypeOK, PipelineType, PC
<1> QED BY <1>1, <1>3, LocalTypes, QuietStep DEF Inv, row

LEMMA ExitOK == ASSUME Inv, Exit PROVE Inv'
<1> USE DEF Exit, Goes
<1>1. TypeOK
  BY DEF Inv
<1>2. TypeOK'
  BY <1>1, QuietTypes DEF TypeOK, PipelineType, PC
<1> QED BY <1>1, <1>2, LocalTypes, QuietStep DEF Inv, row

LEMMA RestartOK == ASSUME Inv, Restart PROVE Inv'
<1> USE DEF Restart, Goes
<1>1. TypeOK
  BY DEF Inv
<1>2. TypeOK'
  BY <1>1, QuietTypes DEF TypeOK, PipelineType, PC, Pending
<1> QED BY <1>1, <1>2, LocalTypes, QuietStep DEF Inv, row

LEMMA DiesOK == ASSUME Inv, Dies PROVE Inv'
<1> USE DEF Dies, Fault
<1>1. TypeOK
  BY DEF Inv
<1>2. Leaves(pc') /\ pc' = "down"
  BY DEF Leaves
<1>3. TypeOK'
  BY <1>1, <1>2, FaultTypes, QuietTypes DEF TypeOK, PipelineType, PC
<1> QED BY <1>1, <1>2, <1>3, LocalTypes, QuietStep DEF Inv, row

LEMMA RaisesOK == ASSUME Inv, Raises PROVE Inv'
<1> USE DEF Raises, Fault
<1>1. TypeOK
  BY DEF Inv
<1>2. Leaves(pc') /\ pc' = "idle"
  BY DEF Leaves
<1>3. TypeOK'
  BY <1>1, <1>2, FaultTypes, QuietTypes DEF TypeOK, PipelineType, PC
<1> QED BY <1>1, <1>2, <1>3, LocalTypes, QuietStep DEF Inv, row

LEMMA GiveUpFaultOK == ASSUME Inv, GiveUpFault PROVE Inv'
<1> USE DEF GiveUpFault, Abandon, Goes
<1>1. TypeOK
  BY DEF Inv
<1>2. TypeOK'
  BY <1>1, FaultTypes, QuietTypes DEF TypeOK, PipelineType, PC, row
<1> QED BY <1>1, <1>2, LocalTypes, QuietStep DEF Inv, row
-----------------------------------------------------------------------------
\* What neither reads the status nor the current stage is kept with the rest.
LEMMA PlaceKept ==
  ASSUME Inv, UNCHANGED <<path, stages, pc, locals, products>>
  PROVE  RunnerOK' /\ NothingSkipped' /\ FinishOK'
<1> USE DEF locals, products
<1>1. Active' = Active /\ Saved' = Saved
  BY DEF Active, Saved
<1>2. RunnerOK'
  BY <1>1 DEF Inv, RunnerOK, First, Uncollected
<1>3. NothingSkipped'
  BY DEF Inv, NothingSkipped
<1>4. FinishOK'
  BY <1>1 DEF Inv, FinishOK, complete
<1> QED BY <1>2, <1>3, <1>4

LEMMA RequestStopOK == ASSUME Inv, RequestStop PROVE Inv'
<1> USE DEF RequestStop, Fault
<1>1. TypeOK
  BY DEF Inv
<1>2. TypeOK'
  BY <1>1, FaultTypes, QuietTypes DEF TypeOK, PipelineType, queue
<1> QED BY <1>2, RowKept, PlaceKept DEF Inv, row

\* A row put back or failed for good: it promises neither progress nor a result.
LEMMA RecordStep ==
  ASSUME Inv, UNCHANGED <<path, stages, products>>,
         status' \in {"queued", "failed"}
  PROVE  ResultsInOrder' /\ ProgressIsNext' /\ DoneIsWhole' /\ FilesKept'
<1>1. Active' = Active /\ Saved' = Saved
  BY DEF Active, Saved
<1>2. complete' = complete
  BY <1>1 DEF complete
<1>3. ResultsInOrder'
  BY <1>1 DEF Inv, ResultsInOrder
<1>4. ProgressIsNext' /\ DoneIsWhole'
  BY DEF ProgressIsNext, DoneIsWhole
<1>5. FilesKept'
  BY <1>2 DEF Inv, FilesKept, products
<1> QED BY <1>3, <1>4, <1>5

LEMMA RetryOK == ASSUME Inv, Retry PROVE Inv'
<1> USE DEF Retry, Record
<1>1. TypeOK
  BY DEF Inv
<1>2. PipelineType'
  BY <1>1, LocalTypes DEF TypeOK, PipelineType, locals
<1>3. entry' \in [Entries -> {"unused", "undelivered", "pending", "gone"}]
  BY <1>1 DEF TypeOK
<1>4. TypeOK'
  BY <1>1, <1>2, <1>3 DEF TypeOK, products
<1> QED BY <1>4, RecordStep, PlaceKept DEF Inv

LEMMA GiveUpOK == ASSUME Inv, GiveUp PROVE Inv'
<1> USE DEF GiveUp, Abandon, Goes
<1>1. TypeOK
  BY DEF Inv
<1>2. PipelineType'
  BY <1>1, LocalTypes DEF TypeOK, PipelineType, locals
<1>3. TypeOK'
  BY <1>1, <1>2 DEF TypeOK, products, PC
<1>4. RunnerOK'
  BY DEF RunnerOK, Running
<1>5. NothingSkipped'
  BY <1>1, LocalTypes DEF Inv
<1>6. FinishOK'
  BY DEF Inv, FinishOK, Finishing, products
<1> QED BY <1>3, <1>4, <1>5, <1>6, RecordStep DEF Inv

LEMMA PublishFailedOK == ASSUME Inv, PublishFailed PROVE Inv'
<1> USE DEF PublishFailed, Goes
<1>1. PipelineType'
  BY LocalTypes DEF Inv, TypeOK, PipelineType, row
<1>2. TypeOK'
  BY <1>1 DEF Inv, TypeOK, row, products, queue, PC
<1>3. NothingSkipped'
  BY DEF Inv, NothingSkipped, row, locals
<1> QED BY <1>2, <1>3, QuietStep

LEMMA MarkFailedOK == ASSUME Inv, MarkFailed PROVE Inv'
<1> USE DEF MarkFailed, Record
<1>1. TypeOK /\ Leaves(pc') /\ pc' = "publish"
  BY DEF Inv, Leaves
<1>2. PipelineType'
  BY <1>1, LocalTypes DEF TypeOK, PipelineType
<1>3. TypeOK'
  BY <1>1, <1>2 DEF TypeOK, products, queue, PC
<1>4. RunnerOK'
  BY <1>1 DEF RunnerOK, Running
<1>5. NothingSkipped'
  BY <1>1, LocalTypes DEF Inv
<1>6. FinishOK'
  BY <1>1 DEF Inv, FinishOK, Finishing, products
<1> QED BY <1>3, <1>4, <1>5, <1>6, RecordStep DEF Inv
-----------------------------------------------------------------------------
\* The finish: the run's locals are left alone, and so are its results.
LEMMA StoreOK ==
  ASSUME Inv, NEW C \in SUBSET Columns, NEW next \in PC,
         pc \in Finishing \ {"cleanup"}, path # "prep", Store(C, next),
         next \in Finishing \ {"finish", "cleanup"},
         "aspects" \in stored',
         next \in {"overall", "snapshot", "prune", "mark_done"} => "curves" \in stored',
         next \in {"snapshot", "prune", "mark_done"} => "overall" \in stored',
         next \in {"prune", "mark_done"} => "snapshot" \in stored'
  PROVE  Inv'
<1> USE DEF Store, Goes, row
<1>1. TypeOK
  BY DEF Inv
<1>2. PipelineType'
  BY <1>1, LocalTypes DEF TypeOK, PipelineType
<1>3. TypeOK'
  BY <1>1, <1>2 DEF TypeOK, queue
<1>4. RunnerOK'
  BY DEF RunnerOK, Running, Finishing
<1>5. NothingSkipped'
  BY <1>1, LocalTypes DEF Inv
<1>6. Active' = Active /\ Saved' = Saved
  BY DEF Active, Saved
<1>7. complete' = complete
  BY <1>6 DEF complete
<1>8. FinishOK'
  BY <1>7 DEF Inv, FinishOK, Finishing
<1>9. ResultsInOrder' /\ ProgressIsNext' /\ FilesKept'
  BY <1>6, <1>7 DEF Inv, ResultsInOrder, ProgressIsNext, NameOfFirst, FilesKept
<1>10. DoneIsWhole'
  BY <1>6, <1>7 DEF Inv, DoneIsWhole
<1> QED BY <1>3, <1>4, <1>5, <1>8, <1>9, <1>10 DEF Inv

LEMMA SaveAspectScoresOK == ASSUME Inv, SaveAspectScores PROVE Inv'
BY StoreOK DEF SaveAspectScores, Store, Columns, PC, Finishing

LEMMA SavePitchCurvesOK == ASSUME Inv, SavePitchCurves PROVE Inv'
<1> DEFINE C == IF pruned THEN {} ELSE {"curves"}
<1>1. path # "prep" /\ "aspects" \in stored /\ (pruned => "curves" \in stored)
  BY DEF Inv, FinishOK, Finishing, SavePitchCurves
<1>2. "curves" \in stored' /\ "aspects" \in stored'
  BY <1>1 DEF SavePitchCurves, Store
<1>3. C \in SUBSET Columns
  BY DEF Columns
<1> QED BY <1>1, <1>2, <1>3, StoreOK DEF SavePitchCurves, PC, Finishing

LEMMA SaveScoringResultOK == ASSUME Inv, SaveScoringResult PROVE Inv'
<1>1. path # "prep" /\ {"aspects", "curves"} \subseteq stored
  BY DEF Inv, FinishOK, Finishing, SaveScoringResult
<1>2. {"aspects", "curves", "overall"} \subseteq stored'
  BY <1>1 DEF SaveScoringResult, Store
<1> QED BY <1>1, <1>2, StoreOK DEF SaveScoringResult, PC, Finishing, Columns

LEMMA RecordProgressSnapshotOK == ASSUME Inv, RecordProgressSnapshot PROVE Inv'
<1>1. path # "prep" /\ {"aspects", "curves", "overall"} \subseteq stored
  BY DEF Inv, FinishOK, Finishing, RecordProgressSnapshot
<1>2. Columns \subseteq stored'
  BY <1>1 DEF RecordProgressSnapshot, Store, Columns
<1> QED BY <1>1, <1>2, StoreOK DEF RecordProgressSnapshot, PC, Finishing, Columns

\* A step of the finish that leaves the results as they are.
LEMMA FinishStep ==
  ASSUME Inv, UNCHANGED <<path, stages, locals, watching, stopping, queue, faults>>,
         pc' \notin Running, pc' \in PC, status' = status \/ status' = "done",
         current' \in {current, NoStage},
         stored' \subseteq Columns \cup {"reference", "lyrics"},
         pruned' \in BOOLEAN, files' \subseteq Files
  PROVE  /\ TypeOK' /\ RunnerOK' /\ NothingSkipped' /\ ResultsInOrder'
         /\ Active' = Active /\ Saved' = Saved /\ complete' = complete
<1>1. TypeOK
  BY DEF Inv
<1>2. PipelineType'
  BY <1>1, LocalTypes DEF TypeOK, PipelineType, locals
<1>3. TypeOK'
  BY <1>1, <1>2 DEF TypeOK, queue
<1>4. RunnerOK'
  BY DEF RunnerOK, Running
<1>5. NothingSkipped'
  BY <1>1, LocalTypes DEF Inv
<1>6. Active' = Active /\ Saved' = Saved
  BY DEF Active, Saved
<1>7. complete' = complete
  BY <1>6 DEF complete
<1>8. ResultsInOrder'
  BY <1>6 DEF Inv, ResultsInOrder
<1> QED BY <1>3, <1>4, <1>5, <1>6, <1>7, <1>8

\* With every result in and no required stage skipped, the required ones are done.
LEMMA RequiredDone ==
  ASSUME Inv, complete
  PROVE  \A s \in Active \cap Required : stages[s] = "done"
BY DEF Inv, TypeOK, PipelineType, complete, Saved, Active, NothingSkipped

LEMMA PruneOK == ASSUME Inv, PruneDenseStageFields PROVE Inv'
<1> USE DEF PruneDenseStageFields, Goes, row
<1>1. /\ TypeOK' /\ RunnerOK' /\ NothingSkipped' /\ ResultsInOrder'
      /\ Active' = Active /\ Saved' = Saved /\ complete' = complete
  BY FinishStep DEF Inv, TypeOK, Running, PC
<1>2. FinishOK'
  BY <1>1 DEF Inv, FinishOK, Finishing
<1>3. ProgressIsNext' /\ FilesKept'
  BY <1>1 DEF Inv, ProgressIsNext, NameOfFirst, FilesKept
<1>4. DoneIsWhole'
  BY <1>1 DEF Inv, DoneIsWhole, LyricsAvailable
<1> QED BY <1>1, <1>2, <1>3, <1>4 DEF Inv

LEMMA CleanupOK == ASSUME Inv, Cleanup PROVE Inv'
<1> USE DEF Cleanup, Goes, row
<1>1. /\ TypeOK' /\ RunnerOK' /\ NothingSkipped' /\ ResultsInOrder'
      /\ Active' = Active /\ Saved' = Saved /\ complete' = complete
  BY FinishStep DEF Inv, TypeOK, Running, PC
<1>2. complete
  BY DEF Inv, FinishOK, Finishing
<1>3. FinishOK'
  BY <1>1 DEF Inv, FinishOK, Finishing
<1>4. ProgressIsNext' /\ FilesKept'
  BY <1>1, <1>2 DEF Inv, ProgressIsNext, NameOfFirst, FilesKept
<1>5. DoneIsWhole'
  BY <1>1 DEF Inv, DoneIsWhole, LyricsAvailable
<1> QED BY <1>1, <1>3, <1>4, <1>5 DEF Inv

LEMMA MarkDoneOK == ASSUME Inv, MarkDone PROVE Inv'
<1> USE DEF MarkDone, Record, products
<1>1. /\ TypeOK' /\ RunnerOK' /\ NothingSkipped' /\ ResultsInOrder'
      /\ Active' = Active /\ Saved' = Saved /\ complete' = complete
  BY FinishStep DEF Inv, TypeOK, Running, PC, Goes
<1>2. complete /\ path # "prep" /\ stored = Columns
  BY DEF Inv, FinishOK, Finishing, Columns
<1>3. FinishOK'
  BY <1>1, <1>2 DEF Inv, FinishOK, Finishing, Goes
<1>4. ProgressIsNext' /\ FilesKept'
  BY <1>1, <1>2 DEF ProgressIsNext, FilesKept
<1>5. DoneIsWhole'
  BY <1>1, <1>2, RequiredDone DEF DoneIsWhole
<1> QED BY <1>1, <1>3, <1>4, <1>5 DEF Inv

LEMMA PersistReadyOK == ASSUME Inv, PersistReady PROVE Inv'
<1> USE DEF PersistReady, Record
<1>1. /\ TypeOK' /\ RunnerOK' /\ NothingSkipped' /\ ResultsInOrder'
      /\ Active' = Active /\ Saved' = Saved /\ complete' = complete
  BY FinishStep DEF Inv, TypeOK, Running, PC, Goes
<1>2. complete
  BY DEF Inv, FinishOK, Finishing
<1>3. ~pruned
  BY DEF Inv, FinishOK
<1>4. FinishOK'
  BY <1>1, <1>2, <1>3 DEF Inv, FinishOK, Finishing, Goes
<1>5. ProgressIsNext' /\ FilesKept'
  BY <1>1, <1>2 DEF ProgressIsNext, FilesKept
<1>6. DoneIsWhole'
  BY <1>1, <1>2, RequiredDone DEF DoneIsWhole, LyricsAvailable
<1> QED BY <1>1, <1>4, <1>5, <1>6 DEF Inv
-----------------------------------------------------------------------------
\* The start of a run.
LEMMA HandleOK == ASSUME Inv, Handle PROVE Inv'
<1> USE DEF Handle, RunStart, queue, products
<1>1. TypeOK /\ Active \subseteq Stages /\ Remaining \subseteq Active
  BY RowSets DEF Inv
<1>2. Remaining # {} => First(Remaining) \in Stages
  BY <1>1, FirstExists
<1>3. PipelineType'
  BY <1>1, <1>2 DEF TypeOK, PipelineType
<1>4. TypeOK'
  BY <1>1, <1>3 DEF TypeOK, PC
<1>5. Active' = Active /\ Saved' = Saved
  BY DEF Active, Saved
<1>6. complete' = complete /\ Remaining' = Remaining
  BY <1>5 DEF complete, Remaining
<1>7. RunnerOK'
  BY <1>5 DEF RunnerOK, Running, Remaining
<1>8. NothingSkipped'
  BY DEF Inv, NothingSkipped
<1>9. FinishOK'
  BY DEF Inv, FinishOK, Finishing
<1>10. ResultsInOrder' /\ FilesKept'
  BY <1>5, <1>6 DEF Inv, ResultsInOrder, FilesKept
<1>11. ProgressIsNext'
  BY <1>5 DEF Inv, ProgressIsNext, NameOfFirst, Remaining
<1>12. DoneIsWhole'
  BY <1>5, <1>6 DEF Inv, DoneIsWhole, LyricsAvailable
<1> QED BY <1>4, <1>7, <1>8, <1>9, <1>10, <1>11, <1>12 DEF Inv

\* A step of the runner that saves nothing.
LEMMA RunnerStepOK ==
  ASSUME Inv,
         UNCHANGED <<row, todo, watching, stopping, queue, products, faults>>,
         pc' \in Running \cup {"fail"}, members' \subseteq todo, attempt' \in 0 .. MAX_STAGE_RETRIES,
         result' \in [Stages -> Outcomes \cup {"none", "done", "skipped"}],
         RunnerOK', \A s \in Required : result'[s] # "skipped"
  PROVE  Inv'
<1> USE DEF row, queue
<1>1. PipelineType'
  BY DEF Inv, TypeOK, PipelineType
<1>2. TypeOK'
  BY <1>1 DEF Inv, TypeOK, PC, Running, products
<1>3. NothingSkipped'
  BY RowKept DEF NothingSkipped
<1>4. FinishOK'
  BY DEF Inv, FinishOK, Finishing, products, Running
<1> QED BY <1>2, <1>3, <1>4, RowKept DEF Inv

LEMMA NextEntryOK ==
  ASSUME Inv, NextEntry, UNCHANGED <<queue, products, faults>>
  PROVE  Inv'
<1> USE DEF NextEntry
<1>1. TypeOK /\ todo \subseteq Stages
  BY DEF Inv, TypeOK, PipelineType
<1>2. First(todo) \in todo
  BY <1>1, FirstExists
<1>3. members' \subseteq todo /\ First(todo) \in members'
  BY <1>2 DEF FirstEntry
<1>4. result' \in [Stages -> Outcomes \cup {"none", "done", "skipped"}]
      /\ \A s \in Stages : result'[s] = "none"
  BY DEF NoResult
<1>5. Uncollected' # {}
  BY <1>1, <1>3, <1>4 DEF Uncollected
<1>6. Active' = Active /\ Saved' = Saved
  BY DEF Active, Saved, row
<1>7. RunnerOK'
  BY <1>5, <1>6 DEF Inv, RunnerOK, Running, First, FirstEntry
<1>8. attempt' \in 0 .. MAX_STAGE_RETRIES
  BY StageAssumption
<1> QED BY <1>3, <1>4, <1>7, <1>8, StageAssumption, RunnerStepOK DEF Running

\* Within an entry only the outcomes, the place and the count of retries change.
LEMMA EntryStepOK ==
  ASSUME Inv, pc \in Running \ {"entries"},
         UNCHANGED <<row, todo, members, watching, stopping, queue, products, faults>>,
         pc' \in {"collect", "alone", "fail"}, attempt' \in 0 .. MAX_STAGE_RETRIES,
         result' \in [Stages -> Outcomes \cup {"none", "done", "skipped"}],
         pc' = "alone" => Uncollected' # {},
         \A s \in Required : result'[s] # "skipped"
  PROVE  Inv'
<1>1. Active' = Active /\ Saved' = Saved
  BY DEF Active, Saved, row
<1>2. RunnerOK'
  BY <1>1 DEF Inv, RunnerOK, Running, First, FirstEntry
<1>3. members \subseteq todo
  BY DEF Inv, TypeOK, PipelineType
<1> QED BY <1>2, <1>3, RunnerStepOK DEF Running

LEMMA RunGroupOK ==
  ASSUME Inv, RunGroup, UNCHANGED <<queue, products, faults>>
  PROVE  Inv'
<1> USE DEF RunGroup
<1>1. PICK outcome \in [members -> Outcomes] :
        result' = [s \in Stages |-> IF s \in members THEN outcome[s] ELSE "none"]
  OBVIOUS
<1>2. result' \in [Stages -> Outcomes \cup {"none", "done", "skipped"}]
      /\ \A s \in Stages : result'[s] # "skipped"
  BY <1>1 DEF Outcomes
<1> QED BY <1>2, StageAssumption, EntryStepOK DEF Running, Inv, TypeOK, PipelineType

\* What becomes of a stage's result when it succeeds, or fails for good.
LEMMA OutcomeOK ==
  ASSUME Inv, NEW s \in Stages, Succeeds(s) \/ Fails(s)
  PROVE  /\ result' \in [Stages -> Outcomes \cup {"none", "done", "skipped"}]
         /\ \A t \in Required : result'[t] # "skipped"
         /\ pc' \in {"collect", "fail"}
BY StageAssumption
   DEF Inv, TypeOK, PipelineType, NothingSkipped, Succeeds, Fails

LEMMA FirstUncollected ==
  ASSUME Inv, Uncollected # {}
  PROVE  First(Uncollected) \in Stages /\ First(Uncollected) \in Uncollected
<1>1. Uncollected \subseteq Stages
  BY DEF Inv, TypeOK, PipelineType, Uncollected
<1> QED BY <1>1, FirstExists

LEMMA CollectOK ==
  ASSUME Inv, Collect, UNCHANGED <<queue, products, faults>>
  PROVE  Inv'
<1> DEFINE s == First(Uncollected)
<1>1. s \in Stages
  BY FirstUncollected DEF Collect
<1>2. CASE Succeeds(s) \/ Fails(s)
  <2>1. attempt' \in 0 .. MAX_STAGE_RETRIES
    <3>1. CASE UNCHANGED attempt
      BY <3>1 DEF Inv, TypeOK, PipelineType
    <3>2. CASE attempt' = 0
      BY <3>2, StageAssumption
    <3> QED BY <3>1, <3>2 DEF Collect
  <2> QED BY <1>1, <1>2, <2>1, OutcomeOK, EntryStepOK DEF Collect, Running
<1>3. CASE pc' = "alone" /\ attempt' = 0 /\ UNCHANGED result
  <2>1. attempt' \in 0 .. MAX_STAGE_RETRIES
    BY <1>3, StageAssumption
  <2>2. Uncollected' # {}
    BY <1>3 DEF Collect, Uncollected
  <2> QED BY <1>3, <2>1, <2>2, EntryStepOK
             DEF Collect, Running, Inv, TypeOK, PipelineType, NothingSkipped
<1> QED BY <1>2, <1>3 DEF Collect

LEMMA RunAloneOK ==
  ASSUME Inv, RunAlone, UNCHANGED <<queue, products, faults>>
  PROVE  Inv'
<1> DEFINE s == First(Uncollected)
<1>1. s \in Stages /\ Uncollected # {}
  BY FirstUncollected DEF RunAlone, Inv, RunnerOK
<1>2. CASE (Succeeds(s) \/ Fails(s)) /\ UNCHANGED attempt
  BY <1>1, <1>2, OutcomeOK, EntryStepOK
     DEF RunAlone, Running, Inv, TypeOK, PipelineType
<1>3. CASE attempt < MAX_STAGE_RETRIES /\ attempt' = attempt + 1 /\ UNCHANGED <<pc, result>>
  <2>1. attempt' \in 0 .. MAX_STAGE_RETRIES
    BY <1>3, StageAssumption DEF Inv, TypeOK, PipelineType
  <2>2. Uncollected' # {}
    BY <1>1, <1>3 DEF RunAlone, Uncollected
  <2> QED BY <1>3, <2>1, <2>2, EntryStepOK
             DEF RunAlone, Running, Inv, TypeOK, PipelineType, NothingSkipped
<1> QED BY <1>2, <1>3 DEF RunAlone

\* The run is over, or told to stop: the job's results are as they were.
LEMMA CompletedOK ==
  ASSUME Inv, Completed, UNCHANGED <<queue, products, faults>>
  PROVE  Inv'
<1>1. TypeOK /\ Leaves(pc') /\ pc' = "finish"
  BY DEF Inv, Completed, Leaves
<1>2. PipelineType'
  BY <1>1, LocalTypes DEF Completed, TypeOK, PipelineType, row
<1>3. TypeOK'
  BY <1>1, <1>2 DEF TypeOK, PC, queue, products
<1>4. complete
  BY RowSets DEF Inv, RunnerOK, Running, Completed, Remaining
<1>5. RunnerOK'
  BY <1>1 DEF RunnerOK, Running
<1>6. NothingSkipped'
  BY <1>1, LocalTypes DEF Inv, Completed, row
<1>7. complete'
  BY <1>4, RowKept DEF Completed
<1>8. FinishOK'
  BY <1>1, <1>7 DEF Inv, FinishOK, Finishing, Completed, row, products
<1> QED BY <1>3, <1>5, <1>6, <1>8, RowKept DEF Inv, Completed

LEMMA InterruptedOK ==
  ASSUME Inv, Interrupted, UNCHANGED <<queue, products, faults>>
  PROVE  Inv'
<1>1. TypeOK /\ Leaves(pc') /\ pc' = "idle"
  BY DEF Inv, Interrupted, Leaves
<1>2. PipelineType'
  BY <1>1, LocalTypes DEF Interrupted, TypeOK, PipelineType, row
<1>3. TypeOK'
  BY <1>1, <1>2 DEF TypeOK, PC, queue, products
<1>4. NothingSkipped'
  BY <1>1, LocalTypes DEF Inv, Interrupted, row
<1> QED BY <1>1, <1>3, <1>4, QuietStep DEF Interrupted

\* The first member of the current entry is the first stage left to save.
LEMMA FirstMember ==
  ASSUME Inv, pc \in Running \ {"entries"}, members # {}
  PROVE  /\ First(members) = First(todo)
         /\ First(todo) \in members
         /\ \A t \in todo : Place[First(todo)] <= Place[t]
<1>1. todo \subseteq Stages /\ members \subseteq todo /\ todo # {}
  BY DEF Inv, TypeOK, PipelineType, RunnerOK
<1>2. First(todo) \in todo /\ \A t \in todo : Place[First(todo)] <= Place[t]
  BY <1>1, FirstExists
<1>3. First(todo) \in members
  BY <1>2 DEF Inv, RunnerOK, FirstEntry
<1>4. First(members) \in members /\ \A t \in members : Place[First(members)] <= Place[t]
  BY <1>1, FirstExists
<1>5. Place[First(members)] = Place[First(todo)]
  BY <1>1, <1>2, <1>3, <1>4, StageAssumption
<1> QED BY <1>1, <1>2, <1>3, <1>4, <1>5, StageAssumption

\* What is left of an entry is, after its first member, still an entry's rest.
LEMMA RestOfEntry ==
  ASSUME NEW T \in SUBSET Stages, T # {}, NEW f, f = First(T), FirstEntry(T) # {f}
  PROVE  T \ {f} # {} /\ FirstEntry(T \ {f}) = FirstEntry(T) \ {f}
<1> DEFINE R == T \ {f}
           g == First(R)
<1>1. f \in T /\ \A t \in T : Place[f] <= Place[t]
  BY FirstExists
<1>2. PICK m \in T : EntryOf[m] = EntryOf[f] /\ m # f
  BY <1>1 DEF FirstEntry
<1>3. R # {} /\ R \subseteq Stages
  BY <1>2
<1>4. g \in R /\ \A t \in R : Place[g] <= Place[t]
  BY <1>3, FirstExists
<1> HIDE DEF g
<1>5. Place[f] <= Place[g] /\ Place[g] <= Place[m]
  BY <1>1, <1>2, <1>4
<1>6. EntryOf[g] = EntryOf[f]
  BY <1>1, <1>2, <1>3, <1>4, <1>5, StageAssumption
<1>7. FirstEntry(R) = {t \in R : EntryOf[t] = EntryOf[g]}
  BY DEF FirstEntry, g
<1>8. FirstEntry(T) = {t \in T : EntryOf[t] = EntryOf[f]}
  BY DEF FirstEntry
<1> QED BY <1>3, <1>6, <1>7, <1>8

LEMMA SaveOK ==
  ASSUME Inv, Save, UNCHANGED <<queue, products, faults>>
  PROVE  Inv'
<1> DEFINE s == First(members)
<1> USE DEF Save
<1>1. /\ TypeOK /\ todo = Active \ Saved /\ todo # {} /\ todo \subseteq Stages
      /\ members = FirstEntry(todo)
  BY DEF Inv, TypeOK, PipelineType, RunnerOK, Running
<1>2. First(todo) \in members
  BY <1>1, FirstExists DEF FirstEntry
<1>3. s = First(todo) /\ s \in members /\ s \in Stages
      /\ \A t \in todo : Place[s] <= Place[t]
  <2>1. pc \in Running \ {"entries"} /\ members # {}
    BY <1>2 DEF Running
  <2>2. First(members) = First(todo)
        /\ \A t \in todo : Place[First(todo)] <= Place[t]
    BY <2>1, FirstMember
  <2>3. First(todo) \in todo
    BY <1>1, FirstExists
  <2> QED BY <1>1, <1>2, <2>2, <2>3
<1>4. result[s] \in {"done", "skipped"} /\ (s \in Required => result[s] = "done")
  BY <1>3 DEF Uncollected, Inv, NothingSkipped
<1>5. Active' = Active /\ Saved' = Saved \cup {s}
  BY <1>1, <1>3, <1>4 DEF TypeOK, PipelineType, Active, Saved
<1>6. todo' = Active' \ Saved'
  BY <1>1, <1>5
<1>7. TypeOK'
  <2>1. stages' \in [Stages -> {"none", "done", "skipped"}]
    BY <1>1, <1>4 DEF TypeOK, PipelineType
  <2>2. current' \in Stages \cup {NoStage}
    <3>1. CASE todo \ {s} = {}
      BY <3>1 DEF NameOfFirst
    <3>2. CASE todo \ {s} # {}
      BY <1>1, <3>2, FirstExists DEF NameOfFirst
    <3> QED BY <3>1, <3>2
  <2>3. PipelineType'
    BY <1>1, <2>1, <2>2 DEF TypeOK, PipelineType
  <2> QED BY <1>1, <2>3 DEF TypeOK, PC, queue, products
<1>8. RunnerOK'
  <2>1. CASE members = {s}
    BY <1>6, <2>1 DEF RunnerOK, Running
  <2>2. CASE members # {s}
    <3>1. todo' # {} /\ members' = FirstEntry(todo')
      <4>1. todo \ {s} # {} /\ FirstEntry(todo \ {s}) = members \ {s}
        <5> HIDE DEF Save, s
        <5> QED BY <1>1, <1>3, <2>2, RestOfEntry
      <4> QED BY <4>1
    <3>2. pc' = "collect"
      BY <2>2
    <3> HIDE DEF Save, s
    <3> QED BY <1>6, <3>1, <3>2 DEF RunnerOK, Running, First
  <2> QED BY <2>1, <2>2
<1>9. NothingSkipped'
  BY <1>1, <1>4, StageAssumption DEF Inv, NothingSkipped, TypeOK, PipelineType
<1>10. FinishOK'
  BY DEF Inv, FinishOK, Finishing, products
<1>11. ResultsInOrder'
  <2> SUFFICES ASSUME NEW t \in Active, NEW u \in Active,
                      Place[t] < Place[u], u \in Saved \cup {s}
               PROVE  t \in Saved \cup {s}
    BY <1>5 DEF ResultsInOrder
  <2>1. CASE u \in Saved
    BY <2>1 DEF Inv, ResultsInOrder
  <2>2. CASE u = s
    <3>1. t \in Stages /\ Place[t] \in Nat /\ Place[s] \in Nat
      BY <1>3, StageAssumption DEF Active
    <3>2. t \notin todo
      <4> HIDE DEF Save, s
      <4> QED BY <1>3, <2>2, <3>1
    <3> QED BY <1>1, <3>2
  <2> QED BY <2>1, <2>2
<1>12. ProgressIsNext'
  <2>1. Active' \ Saved' = todo \ {s} /\ current' = NameOfFirst(todo \ {s})
    BY <1>6
  <2> HIDE DEF Save, s
  <2>2. current' = NameOfFirst(Active' \ Saved')
    BY <2>1
  <2> QED BY <2>2 DEF ProgressIsNext
<1>13. ~complete
  BY <1>1 DEF complete
<1>14. DoneIsWhole'
  BY <1>13 DEF Inv, DoneIsWhole
<1>15. FilesKept'
  BY <1>13 DEF Inv, FilesKept, products
<1> QED BY <1>7, <1>8, <1>9, <1>10, <1>11, <1>12, <1>14, <1>15 DEF Inv

LEMMA RunOK == ASSUME Inv, Run PROVE Inv'
BY CompletedOK, InterruptedOK, NextEntryOK, RunGroupOK, CollectOK, RunAloneOK, SaveOK
   DEF Run, RunnerStep

LEMMA WorkerStepOK == ASSUME Inv, WorkerStep PROVE Inv'
<1>1. CASE Deliver \/ Reclaim \/ GiveUp \/ Ack \/ Exit \/ Restart
  BY <1>1, DeliverOK, ReclaimOK, GiveUpOK, AckOK, ExitOK, RestartOK
<1>2. CASE Handle \/ Run \/ MarkFailed \/ PublishFailed
  BY <1>2, HandleOK, RunOK, MarkFailedOK, PublishFailedOK
<1>3. CASE SaveAspectScores \/ SavePitchCurves \/ SaveScoringResult
           \/ RecordProgressSnapshot
  BY <1>3, SaveAspectScoresOK, SavePitchCurvesOK, SaveScoringResultOK,
     RecordProgressSnapshotOK
<1>4. CASE PruneDenseStageFields \/ MarkDone \/ PersistReady \/ Cleanup
  BY <1>4, PruneOK, MarkDoneOK, PersistReadyOK, CleanupOK
<1> QED BY <1>1, <1>2, <1>3, <1>4 DEF WorkerStep

LEMMA StutterOK == ASSUME Inv, UNCHANGED vars PROVE Inv'
<1> USE DEF vars
<1>1. TypeOK
  BY DEF Inv
<1>2. TypeOK'
  <2>1. /\ pc' \in PC /\ watching' \in BOOLEAN /\ stopping' \in BOOLEAN
        /\ faults' \in 0 .. MaxFaults
    BY <1>1 DEF TypeOK, PipelineType
  <2>2. /\ entry' \in [Entries -> {"unused", "undelivered", "pending", "gone"}]
        /\ times' \in [Entries -> Nat]
        /\ at' \in Entries \cup {0} /\ sweep' \subseteq Entries
    BY <1>1 DEF TypeOK, queue
  <2>3. UNCHANGED <<row, products>> /\ UNCHANGED locals
    OBVIOUS
  <2> HIDE DEF vars
  <2> QED BY <1>1, <2>1, <2>2, <2>3, QuietTypes
<1>3. UNCHANGED <<path, stages, pc, locals, products>> /\ UNCHANGED <<row, products>>
  BY DEF row
<1> HIDE DEF vars
<1> QED BY <1>2, <1>3, RowKept, PlaceKept DEF Inv

LEMMA NextOK == ASSUME Inv, [Next]_vars PROVE Inv'
BY WorkerStepOK, RetryOK, RequestStopOK, DiesOK, RaisesOK, GiveUpFaultOK, StutterOK
   DEF Next
-----------------------------------------------------------------------------
\* Every state the handlers reach satisfies Inv: above all, a run starts where
\* the saved results end and finishes only behind all of them.
THEOREM HandlersInvAlways == Spec => []Inv
<1>1. Init => Inv
  BY InitOK
<1>2. Inv /\ [Next]_vars => Inv'
  BY NextOK
<1> QED BY <1>1, <1>2, PTL DEF Spec

\* The state of the handlers and the runner keeps its shape.
THEOREM HandlersTypeOK == Spec => []TypeOK
<1>1. Inv => TypeOK
  BY DEF Inv
<1> QED BY <1>1, HandlersInvAlways, PTL

\* save_stage_progress: whatever cuts a run short, the saved results are those
\* of the first stages of the order, so resuming behind them leaves no gap.
THEOREM ResultsAlwaysInOrder == Spec => []ResultsInOrder
<1>1. Inv => ResultsInOrder
  BY DEF Inv
<1> QED BY <1>1, HandlersInvAlways, PTL

\* mark_processing and save_stage_progress: a processing row names the first
\* stage without a result.
THEOREM ProgressAlwaysNext == Spec => []ProgressIsNext
<1>1. Inv => ProgressIsNext
  BY DEF Inv
<1> QED BY <1>1, HandlersInvAlways, PTL

\* _remaining_entries: a stage whose result is saved is never run again, by a
\* redelivery or a retry.
THEOREM NeverRerun == Spec => []NoRerun
<1>1. Inv => NoRerun
  <2> SUFFICES ASSUME Inv, pc \in Running
               PROVE  members \cap Saved = {}
    BY DEF NoRerun
  <2>1. members \subseteq todo /\ todo = Active \ Saved
    BY DEF Inv, TypeOK, PipelineType, RunnerOK
  <2> QED BY <2>1
<1> QED BY <1>1, HandlersInvAlways, PTL

\* handle and _persist_scores, _persist_ready: a done row has every result and
\* everything read from them, however often the handler died in between.
THEOREM DoneAlwaysWhole == Spec => []DoneIsWhole
<1>1. Inv => DoneIsWhole
  BY DEF Inv
<1> QED BY <1>1, HandlersInvAlways, PTL

\* _cleanup: the files are there as long as a stage is left that may read them.
THEOREM FilesAlwaysKept == Spec => []FilesKept
<1>1. Inv => FilesKept
  BY DEF Inv
<1> QED BY <1>1, HandlersInvAlways, PTL
-----------------------------------------------------------------------------
\* An entry stays pending while it is handled or waits for its reclaim, and only
\* one that is given up, or whose job failed, is acknowledged with files left.
Away == {"idle", "down"}

HandlingOK ==
  /\ pc \notin Away => at \in Entries \ sweep /\ entry[at] = "pending"
  /\ sweep \subseteq Pending
  /\ pc = "publish" => status # "done"
  /\ pc = "ack" => status # "done" \/ files = {} \/ GivesUp(at)
  /\ AudioRemoved

\* A step of the delivery under way, or one that ends it without acknowledging.
LEMMA HandlingKept ==
  ASSUME HandlingOK, UNCHANGED <<entry, times, files>>, sweep' \subseteq sweep, pc' \notin {"publish", "ack"},
         pc' \in Away \/ (pc \notin Away /\ UNCHANGED <<at, sweep>>),
         status' = "done" => status = "done" \/ pc \notin Away
  PROVE  HandlingOK'
<1>1. sweep' \subseteq Pending'
  BY DEF HandlingOK, Pending
<1>2. pc' \notin Away => at' \in Entries \ sweep' /\ entry'[at'] = "pending"
  BY DEF HandlingOK
<1>3. AudioRemoved'
  BY DEF HandlingOK, AudioRemoved, GivesUp
<1> QED BY <1>1, <1>2, <1>3 DEF HandlingOK

LEMMA RunHandling == ASSUME Inv, HandlingOK, Run PROVE HandlingOK'
<1>1. UNCHANGED <<entry, times, at, sweep, files, status>>
  BY DEF Run, RunnerStep, Completed, Interrupted, NextEntry, RunGroup, Collect, RunAlone,
         Save, row, queue, products
<1>2. pc \notin Away
  BY DEF Run, RunnerStep, Completed, Interrupted, NextEntry, RunGroup, Collect, RunAlone,
         Save, Away
<1>3. pc' \notin {"publish", "ack"}
  BY DEF Run, RunnerStep, Completed, Interrupted, NextEntry, RunGroup, Collect, RunAlone,
         Save, Leaves, Succeeds, Fails
<1> QED BY <1>1, <1>2, <1>3, HandlingKept

\* What the worker does between the delivery and the acknowledgement.
LEMMA DeliveryHandling ==
  ASSUME HandlingOK,
         \/ Handle \/ SaveAspectScores \/ SavePitchCurves \/ SaveScoringResult
         \/ RecordProgressSnapshot \/ PruneDenseStageFields \/ MarkDone \/ PersistReady
  PROVE  HandlingOK'
<1>1. /\ UNCHANGED <<entry, times, at, sweep, files>>
      /\ pc \notin Away /\ pc' \notin {"publish", "ack"}
  BY DEF Handle, RunStart, SaveAspectScores, SavePitchCurves, SaveScoringResult,
         RecordProgressSnapshot, PruneDenseStageFields, MarkDone, PersistReady, Store, Goes,
         Away, queue, products
<1> QED BY <1>1, HandlingKept

LEMMA LeavingHandling ==
  ASSUME HandlingOK, Exit \/ Dies \/ Raises
  PROVE  HandlingOK'
<1>1. /\ UNCHANGED <<entry, times, files, status>>
      /\ sweep' \subseteq sweep /\ pc' \in Away /\ pc' \notin {"publish", "ack"}
  BY DEF Exit, Dies, Raises, Goes, Leaves, Away, row, products
<1> QED BY <1>1, HandlingKept

LEMMA TakingHandling ==
  ASSUME Inv, HandlingOK, Deliver \/ Reclaim
  PROVE  HandlingOK'
<1> USE DEF HandlingOK, AudioRemoved, Pending, Goes, Away, Inv, TypeOK
<1>1. CASE Deliver
  <2>1. PICK i \in Entries : entry' = [entry EXCEPT ![i] = "pending"] /\ at' = i
    BY <1>1 DEF Deliver
  <2>2. entry'[i] = "pending" /\ sweep' = {} /\ pc' = "handle"
    BY <1>1, <2>1 DEF Deliver
  <2> QED BY <2>1, <2>2
<1>2. CASE Reclaim
  <2>1. PICK i \in sweep : at' = i /\ sweep' = sweep \ {i}
    BY <1>2 DEF Reclaim
  <2>2. UNCHANGED entry /\ pc' = "handle"
    BY <1>2 DEF Reclaim
  <2> QED BY <2>1, <2>2
<1> QED BY <1>1, <1>2

LEMMA GivingUpHandling ==
  ASSUME HandlingOK, GiveUp \/ GiveUpFault
  PROVE  HandlingOK'
<1>1. PICK i \in sweep : GivesUp(i) /\ at' = i /\ sweep' = sweep \ {i}
  BY DEF GiveUp, GiveUpFault, Abandon
<1>2. UNCHANGED <<entry, times>> /\ pc' = "ack"
  BY DEF GiveUp, GiveUpFault, Abandon, Goes
<1>3. i \in Entries /\ entry'[i] = "pending" /\ GivesUp(i)'
  BY <1>1, <1>2 DEF HandlingOK, Pending, GivesUp
<1>4. sweep' \subseteq Pending'
  BY <1>1, <1>2 DEF HandlingOK, Pending
<1> QED BY <1>1, <1>2, <1>3, <1>4 DEF HandlingOK, AudioRemoved

LEMMA SettlingHandling ==
  ASSUME Inv, HandlingOK, MarkFailed \/ PublishFailed \/ Cleanup \/ Ack
  PROVE  HandlingOK'
<1> USE DEF HandlingOK, Away
<1>1. CASE MarkFailed
  <2>1. pc = "fail" /\ pc' = "publish" /\ status' = "failed" /\ UNCHANGED <<entry, times, at, sweep>>
    BY <1>1 DEF MarkFailed, Record, Leaves, queue
  <2> QED BY <2>1 DEF AudioRemoved, Pending
<1>2. CASE Cleanup
  <2>1. /\ pc = "cleanup" /\ pc' = "ack" /\ files' = {}
        /\ UNCHANGED <<entry, times, at, sweep>>
    BY <1>2 DEF Cleanup, Goes, queue
  <2> QED BY <2>1 DEF AudioRemoved, Pending
<1>3. CASE Ack
  <2>1. /\ pc = "ack" /\ pc' = "idle" /\ entry' = [entry EXCEPT ![at] = "gone"]
        /\ UNCHANGED <<times, sweep, files, status>>
    BY <1>3 DEF Ack, Goes, row, products
  <2>2. at \in Entries \ sweep /\ entry \in [Entries -> {"unused", "undelivered", "pending", "gone"}]
    BY <2>1 DEF Inv, TypeOK
  <2>3. sweep' \subseteq Pending'
    BY <2>1, <2>2 DEF Pending
  <2>4. AudioRemoved'
    <3> SUFFICES ASSUME status = "done",
                        \A i \in Entries : entry'[i] \in {"unused", "gone"} /\ ~GivesUp(i)'
                 PROVE  files = {}
      BY <2>1 DEF AudioRemoved
    <3>1. ~GivesUp(at)
      BY <2>1, <2>2 DEF GivesUp
    <3> QED BY <2>1, <3>1
  <2> QED BY <2>1, <2>3, <2>4
<1>4. CASE PublishFailed
  <2>1. /\ pc = "publish" /\ pc' = "ack"
        /\ UNCHANGED <<entry, times, at, sweep, files, status>>
    BY <1>4 DEF PublishFailed, Goes, row, queue, products
  <2> QED BY <2>1 DEF AudioRemoved, Pending, GivesUp
<1> QED BY <1>1, <1>2, <1>3, <1>4

LEMMA OtherHandling ==
  ASSUME Inv, HandlingOK, Restart \/ Retry \/ RequestStop \/ UNCHANGED vars
  PROVE  HandlingOK'
<1> USE DEF HandlingOK, Away
<1>1. CASE Restart
  <2>1. pc' = "idle" /\ sweep' \subseteq Pending /\ UNCHANGED <<entry, times, files, status>>
    BY <1>1 DEF Restart, Goes, row, products
  <2> QED BY <2>1 DEF AudioRemoved, Pending, GivesUp
<1>2. CASE Retry
  <2>1. /\ status' = "queued" /\ UNCHANGED <<pc, at, sweep>>
        /\ \E i \in Entries : entry[i] = "unused" /\ entry' = [entry EXCEPT ![i] = "undelivered"]
    BY <1>2 DEF Retry, Record
  <2>2. \A i \in Entries : entry[i] = "pending" => entry'[i] = "pending"
    BY <2>1 DEF Inv, TypeOK
  <2>3. sweep' \subseteq Pending'
    BY <2>1, <2>2 DEF Pending
  <2> QED BY <2>1, <2>2, <2>3 DEF AudioRemoved
<1>3. CASE RequestStop \/ UNCHANGED vars
  <2>1. UNCHANGED <<pc, status, entry, times, at, sweep, files>>
    BY <1>3 DEF RequestStop, vars, row, queue, products
  <2> QED BY <2>1 DEF AudioRemoved, Pending, GivesUp
<1> QED BY <1>1, <1>2, <1>3

LEMMA HandlingNext == ASSUME Inv, HandlingOK, [Next]_vars PROVE HandlingOK'
BY RunHandling, DeliveryHandling, LeavingHandling, TakingHandling, GivingUpHandling,
   SettlingHandling, OtherHandling DEF Next, WorkerStep

\* FR-43, _cleanup and process_entry: a job that is done, and whose entries were
\* acknowledged and not given up, has no files left, however often the worker
\* died between mark_done, the cleanup and the acknowledgement.
THEOREM AudioAlwaysRemoved == Spec => []AudioRemoved
<1>1. Init => HandlingOK
  BY DEF Init, HandlingOK, Away, AudioRemoved, Pending
<1>2. Inv /\ HandlingOK /\ [Next]_vars => HandlingOK'
  BY HandlingNext
<1>3. HandlingOK => AudioRemoved
  BY DEF HandlingOK
<1> QED BY <1>1, <1>2, <1>3, HandlersInvAlways, PTL DEF Spec
-----------------------------------------------------------------------------
\* A pipeline has a stage, so at first there is something to do.
LEMMA JobInit == ASSUME Init PROVE Job!Init
<1>1. Active # {} /\ Saved = {}
  BY StageAssumption DEF Init, Active, Saved
<1>2. complete = FALSE
  BY <1>1 DEF complete
<1>3. HowFar = "away"
  BY DEF Init, HowFar, Running
<1> QED BY <1>2, <1>3 DEF Init, Job!Init

\* Where the row and its results stay as they are, only the place can matter.
LEMMA SameRow ==
  ASSUME UNCHANGED <<path, stages>>
  PROVE  complete' = complete
BY DEF complete, Active, Saved

LEMMA JobStutter ==
  ASSUME UNCHANGED <<path, stages, status>>, HowFar' = HowFar
  PROVE  UNCHANGED Job!vars
BY SameRow DEF Job!vars

\* Steps outside the handler, and the faults.
LEMMA JobQueueStep ==
  ASSUME Inv,
         \/ Deliver \/ Reclaim \/ GiveUp \/ GiveUpFault \/ Ack \/ Exit \/ Restart
         \/ Retry \/ RequestStop \/ Dies \/ Raises
  PROVE  [Job!Next]_(Job!vars)
<1> USE SameRow DEF row, Goes, Leaves
<1>1. CASE Deliver \/ Reclaim \/ Exit \/ Restart
  <2>1. HowFar = "away" /\ HowFar' = "away"
    BY <1>1 DEF Deliver, Reclaim, Exit, Restart, HowFar, Running
  <2> QED BY <1>1, <2>1, JobStutter DEF Deliver, Reclaim, Exit, Restart
<1>2. CASE GiveUp \/ GiveUpFault
  <2>1. HowFar = "away" /\ HowFar' = "ack"
    BY <1>2 DEF GiveUp, GiveUpFault, Abandon, HowFar, Running
  <2>2. status' \in {status, "failed"} /\ UNCHANGED complete
    BY <1>2 DEF GiveUp, GiveUpFault, Abandon
  <2> QED BY <2>1, <2>2 DEF Job!Next, Job!GiveUp
<1>3. CASE Ack
  <2>1. HowFar = "ack" /\ HowFar' = "away"
    BY <1>3 DEF Ack, HowFar, Running
  <2> QED BY <1>3, <2>1 DEF Ack, Job!Next, Job!Leave
<1>4. CASE Retry
  <2>1. UNCHANGED complete
    BY <1>4 DEF Retry
  <2>2. HowFar' = HowFar
    BY <1>4, <2>1 DEF Retry, HowFar
  <2> QED BY <1>4, <2>1, <2>2 DEF Retry, Record, Job!Next, Job!Retry
<1>5. CASE RequestStop
  <2>1. HowFar' = HowFar
    BY <1>5 DEF RequestStop, HowFar
  <2> QED BY <1>5, <2>1, JobStutter DEF RequestStop
<1>6. CASE Dies \/ Raises
  <2>1. HowFar' = "away" /\ UNCHANGED <<status, complete>>
    BY <1>6 DEF Dies, Raises, HowFar, Running
  <2> QED BY <2>1 DEF Job!Next, Job!Leave, Job!vars
<1> QED BY <1>1, <1>2, <1>3, <1>4, <1>5, <1>6

\* The run: it counts as through with the save of its last result.
LEMMA JobRunStep ==
  ASSUME Inv, Handle \/ Run \/ MarkFailed \/ PublishFailed
  PROVE  [Job!Next]_(Job!vars)
<1> USE SameRow DEF row
<1>1. CASE Handle
  <2>1. HowFar = "away" /\ UNCHANGED complete
        /\ HowFar' = IF complete THEN "finish" ELSE "run"
    BY <1>1 DEF Handle, RunStart, HowFar, Running
  <2>2. IF complete THEN UNCHANGED status ELSE status' = "processing"
    BY <1>1, RowSets DEF Handle, RunStart, Inv
  <2> QED BY <2>1, <2>2 DEF Job!Next, Job!Begin
<1>2. CASE MarkFailed
  <2>1. HowFar = "run" /\ HowFar' = "ack" /\ UNCHANGED complete
    BY <1>2 DEF MarkFailed, Leaves, HowFar, Running
  <2> QED BY <1>2, <2>1 DEF MarkFailed, Record, Job!Next, Job!RunFails
<1>3. CASE Completed
  <2>1. complete
    BY <1>3, RowSets DEF Inv, RunnerOK, Running, Completed, Remaining
  <2>2. HowFar = "finish" /\ HowFar' = "finish"
    BY <1>3, <2>1 DEF Completed, Leaves, HowFar, Running
  <2> QED BY <1>3, <2>2, JobStutter DEF Completed
<1>4. CASE Interrupted
  <2>1. HowFar # "away" /\ HowFar' = "away" /\ UNCHANGED <<status, complete>>
    BY <1>4 DEF Interrupted, Leaves, HowFar, Running
  <2> QED BY <2>1 DEF Job!Next, Job!Leave
<1>5. CASE NextEntry \/ RunGroup \/ Collect \/ RunAlone
  <2>1. pc \in Running /\ pc' \in Running \cup {"fail"} /\ UNCHANGED row
    BY <1>5 DEF NextEntry, RunGroup, Collect, RunAlone, Succeeds, Fails, Running
  <2>2. todo # {}
    BY <1>5 DEF NextEntry, RunGroup, Collect, RunAlone, Inv, RunnerOK, Running
  <2>3. ~complete
    BY <2>1, <2>2 DEF Inv, RunnerOK, complete
  <2>4. HowFar = "run" /\ HowFar' = "run"
    BY <2>1, <2>3 DEF HowFar, Running
  <2> QED BY <2>1, <2>4, JobStutter
<1>6. CASE Save
  <2>1. todo # {} /\ todo = Active \ Saved
    BY <1>6 DEF Save, Inv, RunnerOK, Running
  <2>2. ~complete
    BY <2>1 DEF complete
  <2>3. HowFar = "run"
    BY <1>6, <2>2 DEF Save, HowFar, Running
  <2>4. HowFar' = IF complete' THEN "finish" ELSE "run"
    BY <1>6 DEF Save, HowFar, Running
  <2>5. CASE complete'
    BY <1>6, <2>3, <2>4, <2>5 DEF Save, Job!Next, Job!Completes
  <2>6. CASE ~complete'
    BY <1>6, <2>2, <2>3, <2>4, <2>6 DEF Save, Job!vars, complete
  <2> QED BY <2>5, <2>6
<1>7. CASE PublishFailed
  <2>1. HowFar = "ack" /\ HowFar' = "ack"
    BY <1>7 DEF PublishFailed, Goes, HowFar, Running
  <2> QED BY <1>7, <2>1, JobStutter DEF PublishFailed
<1> QED BY <1>1, <1>2, <1>3, <1>4, <1>5, <1>6, <1>7 DEF Run, RunnerStep

\* The finish: one step of it makes the row done, the others do not show.
LEMMA JobFinishStep ==
  ASSUME Inv,
         \/ SaveAspectScores \/ SavePitchCurves \/ SaveScoringResult
         \/ RecordProgressSnapshot \/ PruneDenseStageFields \/ MarkDone
         \/ PersistReady \/ Cleanup
  PROVE  [Job!Next]_(Job!vars)
<1> USE SameRow DEF row, Goes
<1>1. CASE SaveAspectScores \/ SavePitchCurves \/ SaveScoringResult
           \/ RecordProgressSnapshot \/ PruneDenseStageFields
  <2>1. HowFar = "finish" /\ HowFar' = "finish"
    BY <1>1 DEF SaveAspectScores, SavePitchCurves, SaveScoringResult,
       RecordProgressSnapshot, PruneDenseStageFields, Store, HowFar, Running
  <2> QED BY <1>1, <2>1, JobStutter
          DEF SaveAspectScores, SavePitchCurves, SaveScoringResult,
              RecordProgressSnapshot, PruneDenseStageFields, Store
<1>2. CASE MarkDone \/ PersistReady
  <2>1. HowFar = "finish" /\ HowFar' = "ack" /\ UNCHANGED complete
    BY <1>2 DEF MarkDone, PersistReady, HowFar, Running
  <2>2. status' = "done"
    BY <1>2 DEF MarkDone, PersistReady, Record
  <2> QED BY <2>1, <2>2 DEF Job!Next, Job!Finish
<1>3. CASE Cleanup
  <2>1. HowFar = "ack" /\ HowFar' = "ack"
    BY <1>3 DEF Cleanup, HowFar, Running
  <2> QED BY <1>3, <2>1, JobStutter DEF Cleanup
<1> QED BY <1>1, <1>2, <1>3

LEMMA JobStep == ASSUME Inv, [Next]_vars PROVE [Job!Next]_(Job!vars)
<1>1. CASE Next
  BY <1>1, JobQueueStep, JobRunStep, JobFinishStep DEF Next, WorkerStep
<1>2. CASE UNCHANGED vars
  <2>1. HowFar' = HowFar
    BY <1>2, SameRow DEF vars, row, HowFar
  <2> QED BY <1>2, <2>1, JobStutter DEF vars, row
<1> QED BY <1>1, <1>2

\* process_entry and the handlers: seen from the queue, a delivery begins, runs
\* to its end or fails, finishes or is left, as JobWorker takes it to be.
THEOREM HandlersImplementJobRun == Spec => ImplementsJobRun
<1>1. Init => Job!Init
  BY JobInit
<1>2. Inv /\ [Next]_vars => [Job!Next]_(Job!vars)
  BY JobStep
<1> QED BY <1>1, <1>2, HandlersInvAlways, PTL DEF Spec, ImplementsJobRun, Job!Spec
=============================================================================
