---------------------------- MODULE JobQueueProofs ----------------------------
(***************************************************************************)
(* What follows of LifeInv about the length of the two streams and about   *)
(* what a started worker leaves pending.  The first half says what a round *)
(* trip of a request does to the streams, to the rows and to who publishes.*)
(***************************************************************************)
EXTENDS JobOrderProofs, FiniteSetTheorems

\* Where a request is neither about to publish nor about to remove an entry.
QuietPC == {"idle", "precheck", "create", "create_waiting", "set_id", "retry_precheck",
            "retry_update", "retry_waiting", "prep_reset"}
ClaimPC == {"admit", "retry_add", "prep_admit", "prep_add"}
RollbackPC == {"rollback", "prep_rollback"}

LEMMA RequestPlaces ==
  /\ RequestPC = QuietPC \cup PublisherPC \cup {"remove_entry"}
  /\ PublisherPC = ClaimPC \cup RollbackPC
  /\ QuietPC \cap (PublisherPC \cup {"remove_entry"}) = {}
  /\ "remove_entry" \notin PublisherPC
  /\ ClaimPC \cap RollbackPC = {}
BY DEF RequestPC, QuietPC, PublisherPC, ClaimPC, RollbackPC

\* A round trip between two that concern no stream; it looks at the length
\* where the next one counts on that.
Waits(r) ==
  /\ UNCHANGED queue
  /\ req[r].pc \in QuietPC
  /\ \E pc \in QuietPC : \E job, id :
       /\ Moves(r, pc, job, id)
       /\ pc = "prep_reset" => req[r].pc = "idle" /\ HasRoom("songs")
       /\ pc = "retry_update" => req[r].pc = "retry_precheck" /\ HasRoom("analyses")

\* The row is written, the entry is to follow.
Claims(r, pc, job) ==
  /\ UNCHANGED queue
  /\ \E id \in Nat : Moves(r, pc, job, id)
  /\ \/ pc = "admit" /\ req[r].pc = "create" /\ req[r].job = job /\ job \in Analyses
        /\ status[job] = "none" /\ status'[job] = "queued"
     \/ pc = "retry_add" /\ req[r].pc = "retry_update" /\ req[r].job = job /\ job \in Analyses
        /\ status[job] = "failed" /\ status'[job] = "queued"
     \/ pc = "prep_admit" /\ req[r].pc = "idle" /\ job \in Songs
        /\ prep[job] = "none" /\ prep'[job] = "pending"
     \/ pc = "prep_add" /\ req[r].pc = "prep_reset" /\ req[r].job = job /\ job \in Songs
        /\ prep[job] = "failed" /\ prep'[job] = "pending"

\* The stream was full: the row is to go again; and it goes.
Refused(r) ==
  /\ UNCHANGED queue
  /\ \E id \in Nat :
       \/ req[r].pc = "admit" /\ Moves(r, "rollback", req[r].job, id)
       \/ req[r].pc = "prep_admit" /\ Moves(r, "prep_rollback", req[r].job, id)

RollsBack(r) ==
  /\ UNCHANGED queue
  /\ \/ req[r].pc = "rollback" /\ req[r].job \in Analyses /\ status'[req[r].job] = "none"
     \/ req[r].pc = "prep_rollback" /\ req[r].job \in Songs /\ prep'[req[r].job] = "none"
  /\ Moves(r, "idle", NoJob, 0)

\* One entry more.
Enters(r, name, job) ==
  /\ req[r].pc \in ClaimPC /\ req[r].job = job /\ job \in JobsOf(name)
  /\ name = "analyses" <=> req[r].pc \in {"admit", "retry_add"}
  /\ queue' = [queue EXCEPT ![name] = XAdd(@, job)]
  /\ req[r].pc \in {"admit", "prep_admit"} => HasRoom(name)
  /\ \E pc \in {"set_id", "idle"} : \E j, id : Moves(r, pc, j, id)

\* Cancel of a row whose entry is recorded, and the removal of the entry.
Marks(r, a) ==
  /\ UNCHANGED queue
  /\ "cancel" \in Operations /\ req[r].pc = "idle" /\ IsEntry(streamId[a], a)
  /\ status'[a] = "canceled"
  /\ Moves(r, "remove_entry", a, streamId[a])

Removes(r, id) ==
  /\ req[r].pc = "remove_entry" /\ req[r].id = id
  /\ queue' = [queue EXCEPT !["analyses"] = XDel(@, id)]
  /\ Moves(r, "idle", NoJob, 0)

RequestForm(r) ==
  \/ Waits(r)
  \/ \E job \in Job, pc \in ClaimPC : Claims(r, pc, job)
  \/ Refused(r)
  \/ RollsBack(r)
  \/ \E name \in Streams, job \in Job : Enters(r, name, job)
  \/ \E a \in Analyses : Marks(r, a)
  \/ \E id \in Nat : Removes(r, id)

\* A request goes where it neither publishes nor removes.
LEMMA GoesQuietly ==
  ASSUME Inv, NEW r \in Requests, req[r].pc \in QuietPC, UNCHANGED queue,
         \/ Finish(r)
         \/ Goto(r, "create")
         \/ Goto(r, "retry_update") /\ req[r].pc = "retry_precheck" /\ HasRoom("analyses")
  PROVE  Waits(r)
<1>1. "idle" \in QuietPC /\ "create" \in QuietPC /\ "retry_update" \in QuietPC
      /\ QuietPC \subseteq RequestPC
  BY DEF QuietPC, RequestPC
<1>2. CASE Finish(r)
  BY <1>1, <1>2, FinishMoves DEF Waits
<1>3. CASE ~Finish(r)
  <2>1. PICK pc \in {"create", "retry_update"} :
          /\ Goto(r, pc)
          /\ pc = "retry_update" => req[r].pc = "retry_precheck" /\ HasRoom("analyses")
    BY <1>3
  <2>2. Moves(r, pc, req[r].job, req[r].id)
    <3>1. pc \in RequestPC /\ req[r].job \in Job \cup {NoJob} /\ req[r].id \in Nat
      BY <1>1, <2>1, LifeFacts DEF RequestType
    <3>2. req \in [Requests -> RequestType] /\ Goto(r, pc)
      BY <2>1, LifeFacts, Zenon
    <3>3. /\ req'[r].pc = pc /\ req'[r].job = req[r].job
          /\ \A t \in Requests \ {r} : req'[t] = req[t]
      BY <3>1, <3>2, RequestChange
    <3>4. req'[r].id = req[r].id
      BY <3>2, RequestId
    <3> QED BY <3>3, <3>4 DEF Moves
  <2> QED
    BY <1>1, <2>1, <2>2 DEF Waits
<1> QED
  BY <1>2, <1>3

\* A request begins where it neither publishes nor removes.
LEMMA BeginsQuietly ==
  ASSUME Inv, NEW r \in Requests, UNCHANGED queue, NEW job \in Job,
         NEW pc \in QuietPC \ {"idle", "retry_update"}, Begin(r, pc, job),
         pc = "prep_reset" => HasRoom("songs")
  PROVE  Waits(r)
<1>1. pc \in RequestPC /\ "idle" \in QuietPC /\ pc \in QuietPC /\ 0 \in Nat
  BY DEF QuietPC, RequestPC
<1>2. Moves(r, pc, job, 0) /\ req[r].pc = "idle"
  BY <1>1, RequestMove
<1> QED
  BY <1>1, <1>2 DEF Waits

\* Each round trip of a request about an analysis has one of these forms.
LEMMA AnalysisForm ==
  ASSUME Inv, LifeInv, NEW r \in Requests, AnalysisRequest(r)
  PROVE  RequestForm(r) /\ UNCHANGED wk
<1> USE DEF unchangedWorker, At
<1> DEFINE a == req[r].job
<1>0. /\ req[r].id \in Nat /\ (req[r].pc \in AnalysisPC => a \in Analyses /\ a \in Job)
      /\ \A b \in Analyses : b \in Job
      /\ "analyses" \in Streams /\ JobsOf("analyses") = Analyses
      /\ status \in [Analyses -> AnalysisStatus \cup {"none"}]
  BY LifeFacts DEF JobsOf
<1>1. ASSUME NEW b \in Analyses, EnqueueStart(r, b) \/ RetryStart(r, b)
      PROVE  RequestForm(r) /\ UNCHANGED wk
  <2>1. /\ UNCHANGED <<queue, wk>>
        /\ \E pc \in {"precheck", "create_waiting", "retry_precheck", "retry_waiting"} :
             Begin(r, pc, b)
    BY <1>1 DEF EnqueueStart, RetryStart
  <2>2. PICK pc \in {"precheck", "create_waiting", "retry_precheck", "retry_waiting"} :
          Begin(r, pc, b)
    BY <2>1
  <2>3. pc \in QuietPC \ {"idle", "retry_update"} /\ pc # "prep_reset"
    BY DEF QuietPC
  <2> QED
    BY <1>0, <2>1, <2>2, <2>3, BeginsQuietly DEF RequestForm
<1>2. CASE EnqueuePrecheck(r) \/ RetryPrecheck(r)
  <2>1. /\ UNCHANGED <<queue, wk>> /\ req[r].pc \in QuietPC
        /\ \/ Finish(r)
           \/ Goto(r, "create")
           \/ Goto(r, "retry_update") /\ req[r].pc = "retry_precheck" /\ HasRoom("analyses")
    BY <1>2 DEF EnqueuePrecheck, RetryPrecheck, QuietPC
  <2> QED
    BY <2>1, GoesQuietly DEF RequestForm
<1>3. CASE EnqueueCreate(r)
  <2>1. /\ req[r].pc = "create" /\ Goto(r, "admit") /\ UNCHANGED <<queue, wk>>
        /\ status' = [status EXCEPT ![a] = "queued"]
        /\ a \in Analyses /\ a \in Job
        /\ "admit" \in RequestPC /\ "admit" \in ClaimPC
    BY <1>0, <1>3 DEF EnqueueCreate, AnalysisPC, RequestPC, ClaimPC
  <2>2. Moves(r, "admit", a, req[r].id)
    BY <1>0, <2>1, RequestMove
  <2>3. status[a] = "none" /\ status'[a] = "queued"
    BY <1>0, <2>1 DEF LifeInv, EnqueueOK, NewRowPC
  <2>4. Claims(r, "admit", a)
    BY <1>0, <2>1, <2>2, <2>3 DEF Claims
  <2> QED
    BY <2>1, <2>4 DEF RequestForm
<1>4. CASE EnqueueCreateWaiting(r) \/ SetQueueStreamID(r) \/ RetryToWaitingForReference(r)
  <2>1. UNCHANGED <<queue, wk>> /\ Finish(r) /\ req[r].pc \in QuietPC
    BY <1>4 DEF EnqueueCreateWaiting, SetQueueStreamID, RetryToWaitingForReference, QuietPC
  <2> QED
    BY <2>1, GoesQuietly DEF RequestForm
<1>5. CASE EnqueueAdmit(r) \/ RetryAdd(r)
  <2>1. /\ req[r].pc \in {"admit", "retry_add"} /\ UNCHANGED wk
        /\ a \in Analyses /\ a \in Job /\ req[r].pc \in ClaimPC
        /\ "set_id" \in RequestPC /\ "rollback" \in RequestPC
    BY <1>0, <1>5 DEF EnqueueAdmit, RetryAdd, AnalysisPC, ClaimPC, RequestPC
  <2>2. CASE Publish("analyses", a) /\ GotoWith(r, "set_id", NextId("analyses"))
             /\ (req[r].pc = "admit" => HasRoom("analyses"))
    <3>1. NextId("analyses") \in Nat
      BY WorkerFacts DEF NextId
    <3>2. Moves(r, "set_id", a, NextId("analyses"))
      BY <2>1, <2>2, <3>1, RequestMove
    <3>3. Enters(r, "analyses", a)
      BY <1>0, <2>1, <2>2, <3>2 DEF Enters, Publish
    <3> QED
      BY <1>0, <2>1, <3>3 DEF RequestForm
  <2>3. CASE req[r].pc = "admit" /\ Goto(r, "rollback") /\ UNCHANGED queue
    <3>1. Moves(r, "rollback", a, req[r].id)
      BY <1>0, <2>1, <2>3, RequestMove
    <3>2. Refused(r)
      BY <1>0, <2>3, <3>1 DEF Refused
    <3> QED
      BY <2>1, <3>2 DEF RequestForm
  <2> QED
    BY <1>5, <2>2, <2>3 DEF EnqueueAdmit, RetryAdd
<1>6. CASE EnqueueRollback(r)
  <2>1. /\ req[r].pc = "rollback" /\ Finish(r) /\ UNCHANGED <<queue, wk>>
        /\ status' = [status EXCEPT ![a] = "none"] /\ a \in Analyses
    BY <1>0, <1>6 DEF EnqueueRollback, AnalysisPC
  <2>2. status'[a] = "none" /\ Moves(r, "idle", NoJob, 0)
    BY <1>0, <2>1, FinishMoves
  <2>3. RollsBack(r)
    BY <2>1, <2>2 DEF RollsBack
  <2> QED
    BY <2>1, <2>3 DEF RequestForm
<1>7. ASSUME NEW b \in Analyses, Cancel(r, b) PROVE RequestForm(r) /\ UNCHANGED wk
  <2>1. /\ "cancel" \in Operations /\ UNCHANGED <<queue, wk>> /\ req[r].pc = "idle"
        /\ status[b] \in {"queued", "waiting_for_reference"} /\ SetStatus({b}, "canceled")
        /\ IF streamId[b] = 0 THEN UNCHANGED req
           ELSE req' = [req EXCEPT ![r] = [pc |-> "remove_entry", job |-> b, id |-> streamId[b]]]
    BY <1>7 DEF Cancel, Cancelable
  <2>2. CASE streamId[b] = 0
    <3>1. Moves(r, "idle", req[r].job, req[r].id) /\ "idle" \in QuietPC
      BY <2>1, <2>2 DEF Moves, QuietPC
    <3>2. Waits(r)
      BY <2>1, <3>1 DEF Waits
    <3> QED
      BY <2>1, <3>2 DEF RequestForm
  <2>3. CASE streamId[b] # 0
    <3>1. IsEntry(streamId[b], b) /\ streamId[b] \in Nat /\ status'[b] = "canceled"
          /\ "remove_entry" \in RequestPC
      BY <2>1, <2>3, LifeFacts DEF LifeInv, EntryIdOK, SetStatus, RequestPC
    <3>2. Moves(r, "remove_entry", b, streamId[b])
      BY <1>0, <2>1, <2>3, <3>1, RequestMove
    <3>3. Marks(r, b)
      BY <2>1, <3>1, <3>2 DEF Marks
    <3> QED
      BY <2>1, <3>3 DEF RequestForm
  <2> QED
    BY <2>2, <2>3
<1>8. CASE CancelRemove(r)
  <2>1. Moves(r, "idle", NoJob, 0)
    BY <1>8, FinishMoves DEF CancelRemove
  <2>2. Removes(r, req[r].id)
    BY <1>8, <2>1 DEF CancelRemove, Removes
  <2> QED
    BY <1>0, <1>8, <2>2 DEF CancelRemove, RequestForm
<1>9. CASE RetryUpdate(r)
  <2>1. /\ req[r].pc = "retry_update" /\ UNCHANGED <<queue, wk>> /\ a \in Analyses /\ a \in Job
        /\ "retry_add" \in RequestPC /\ "retry_add" \in ClaimPC /\ req[r].pc \in QuietPC
    BY <1>0, <1>9 DEF RetryUpdate, AnalysisPC, RequestPC, ClaimPC, QuietPC
  <2>2. CASE status[a] = "failed"
    <3>1. status' = [status EXCEPT ![a] = "queued"] /\ Goto(r, "retry_add")
      BY <1>9, <2>2 DEF RetryUpdate, Retryable, ResetFailed
    <3>2. status'[a] = "queued" /\ Moves(r, "retry_add", a, req[r].id)
      BY <1>0, <2>1, <3>1, RequestMove
    <3>3. Claims(r, "retry_add", a)
      BY <1>0, <2>1, <2>2, <3>2 DEF Claims
    <3> QED
      BY <2>1, <3>3 DEF RequestForm
  <2>3. CASE status[a] # "failed"
    <3>1. Finish(r)
      BY <1>9, <2>3 DEF RetryUpdate, Retryable
    <3> QED
      BY <2>1, <3>1, GoesQuietly DEF RequestForm
  <2> QED
    BY <2>2, <2>3
<1> QED
  BY <1>1, <1>2, <1>3, <1>4, <1>5, <1>6, <1>7, <1>8, <1>9 DEF AnalysisRequest

\* And each about a song.
LEMMA SongForm ==
  ASSUME Inv, NEW r \in Requests, SongRequest(r)
  PROVE  RequestForm(r) /\ UNCHANGED wk
<1> USE DEF unchangedWorker, At
<1> DEFINE s == req[r].job
<1>0. /\ req[r].id \in Nat /\ (req[r].pc \in PrepPC => s \in Songs /\ s \in Job)
      /\ \A t \in Songs : t \in Job
      /\ "songs" \in Streams /\ JobsOf("songs") = Songs
      /\ prep \in [Songs -> PrepStatus \cup {"none"}]
  BY LifeFacts DEF JobsOf
<1>1. ASSUME NEW t \in Songs, AddSong(r, t) PROVE RequestForm(r) /\ UNCHANGED wk
  <2>1. /\ prep' = [prep EXCEPT ![t] = "pending"] /\ prep[t] = "none"
        /\ Begin(r, "prep_admit", t) /\ UNCHANGED <<queue, wk>>
        /\ "prep_admit" \in RequestPC /\ "prep_admit" \in ClaimPC /\ 0 \in Nat
    BY <1>1 DEF AddSong, RequestPC, ClaimPC
  <2>2. Moves(r, "prep_admit", t, 0) /\ req[r].pc = "idle" /\ prep'[t] = "pending"
    BY <1>0, <2>1, RequestMove
  <2>3. Claims(r, "prep_admit", t)
    BY <2>1, <2>2 DEF Claims
  <2> QED
    BY <1>0, <2>1, <2>3 DEF RequestForm
<1>2. ASSUME NEW t \in Songs, RetryPrepStart(r, t) PROVE RequestForm(r) /\ UNCHANGED wk
  <2>1. /\ HasRoom("songs") /\ Begin(r, "prep_reset", t) /\ UNCHANGED <<queue, wk>>
        /\ "prep_reset" \in QuietPC \ {"idle", "retry_update"}
    BY <1>2 DEF RetryPrepStart, QuietPC
  <2> QED
    BY <1>0, <2>1, BeginsQuietly DEF RequestForm
<1>3. CASE EnqueuePrep(r) \/ RetryPrepAdd(r)
  <2>1. /\ req[r].pc \in {"prep_admit", "prep_add"} /\ UNCHANGED wk
        /\ s \in Songs /\ s \in Job /\ req[r].pc \in ClaimPC
        /\ "prep_rollback" \in RequestPC
    BY <1>0, <1>3 DEF EnqueuePrep, RetryPrepAdd, PrepPC, ClaimPC, RequestPC
  <2>2. CASE Publish("songs", s) /\ Finish(r)
             /\ (req[r].pc = "prep_admit" => HasRoom("songs"))
    <3>1. Moves(r, "idle", NoJob, 0)
      BY <2>2, FinishMoves
    <3>2. Enters(r, "songs", s)
      BY <1>0, <2>1, <2>2, <3>1 DEF Enters, Publish
    <3> QED
      BY <1>0, <2>1, <3>2 DEF RequestForm
  <2>3. CASE req[r].pc = "prep_admit" /\ Goto(r, "prep_rollback") /\ UNCHANGED queue
    <3>1. Moves(r, "prep_rollback", s, req[r].id)
      BY <1>0, <2>1, <2>3, RequestMove
    <3>2. Refused(r)
      BY <1>0, <2>3, <3>1 DEF Refused
    <3> QED
      BY <2>1, <3>2 DEF RequestForm
  <2> QED
    BY <1>3, <2>2, <2>3 DEF EnqueuePrep, RetryPrepAdd
<1>4. CASE EnqueuePrepRollback(r)
  <2>1. /\ req[r].pc = "prep_rollback" /\ Finish(r) /\ UNCHANGED <<queue, wk>>
        /\ prep' = [prep EXCEPT ![s] = "none"] /\ s \in Songs
    BY <1>0, <1>4 DEF EnqueuePrepRollback, PrepPC
  <2>2. prep'[s] = "none" /\ Moves(r, "idle", NoJob, 0)
    BY <1>0, <2>1, FinishMoves
  <2>3. RollsBack(r)
    BY <2>1, <2>2 DEF RollsBack
  <2> QED
    BY <2>1, <2>3 DEF RequestForm
<1>5. CASE RetryPrepReset(r)
  <2>1. /\ req[r].pc = "prep_reset" /\ UNCHANGED <<queue, wk>> /\ s \in Songs /\ s \in Job
        /\ "prep_add" \in RequestPC /\ "prep_add" \in ClaimPC /\ req[r].pc \in QuietPC
    BY <1>0, <1>5 DEF RetryPrepReset, PrepPC, RequestPC, ClaimPC, QuietPC
  <2>2. CASE prep[s] = "failed"
    <3>1. SetPrep(s, "pending") /\ Goto(r, "prep_add")
      BY <1>5, <2>2 DEF RetryPrepReset
    <3>2. prep'[s] = "pending" /\ Moves(r, "prep_add", s, req[r].id)
      BY <1>0, <2>1, <2>2, <3>1, RequestMove DEF SetPrep
    <3>3. Claims(r, "prep_add", s)
      BY <1>0, <2>1, <2>2, <3>2 DEF Claims
    <3> QED
      BY <2>1, <3>3 DEF RequestForm
  <2>3. CASE prep[s] # "failed"
    <3>1. Finish(r)
      BY <1>5, <2>3 DEF RetryPrepReset
    <3> QED
      BY <2>1, <3>1, GoesQuietly DEF RequestForm
  <2> QED
    BY <2>2, <2>3
<1> QED
  BY <1>1, <1>2, <1>3, <1>4, <1>5 DEF SongRequest

LEMMA RequestTakesForm ==
  ASSUME Inv, LifeInv, NEW r \in Requests, RequestStep(r)
  PROVE  RequestForm(r) /\ UNCHANGED wk
BY AnalysisForm, SongForm DEF RequestStep

\* What a round trip does to the rows.
Rows(r) ==
  /\ \A a \in Analyses :
       \/ status'[a] = status[a]
       \/ status'[a] = "canceled"
       \/ status'[a] = "waiting_for_reference" /\ status[a] \in {"none", "failed"}
       \/ /\ status'[a] = "none"
          /\ \/ req[r].pc = "rollback" /\ req[r].job = a
             \/ req[r].pc = "prep_rollback" /\ req[r].job = SongOf[a]
       \/ status'[a] = "queued" /\ req'[r].pc \in {"admit", "retry_add"} /\ req'[r].job = a
  /\ \A s \in Songs :
       \/ prep'[s] = prep[s]
       \/ prep'[s] = "none" /\ req[r].pc = "prep_rollback" /\ req[r].job = s
       \/ prep'[s] = "pending" /\ req'[r].pc \in {"prep_admit", "prep_add"} /\ req'[r].job = s

LEMMA RowsChange ==
  ASSUME Inv, LifeInv, NEW r \in Requests, RequestStep(r)
  PROVE  Rows(r)
<1> USE DEF unchangedWorker, At
<1> DEFINE j == req[r].job
<1>0. /\ status \in [Analyses -> AnalysisStatus \cup {"none"}]
      /\ prep \in [Songs -> PrepStatus \cup {"none"}]
      /\ req \in [Requests -> RequestType]
      /\ req[r].pc \in AnalysisPC => j \in Analyses
      /\ req[r].pc \in PrepPC => j \in Songs
      /\ {"admit", "retry_add", "prep_admit", "prep_add"} \subseteq RequestPC
      /\ \A s \in Songs : s \in Job
  BY LifeFacts DEF RequestPC
<1>1. CASE UNCHANGED <<status, prep>>
  BY <1>1 DEF Rows
<1>2. CASE EnqueueCreate(r)
  <2>1. /\ status' = [status EXCEPT ![j] = "queued"] /\ UNCHANGED prep
        /\ Goto(r, "admit")
    BY <1>2 DEF EnqueueCreate
  <2>2. req'[r].pc = "admit" /\ req'[r].job = j
    BY <1>0, <2>1, RequestChange
  <2> QED
    BY <1>0, <2>1, <2>2 DEF Rows
<1>3. CASE EnqueueCreateWaiting(r)
  <2>1. /\ status' = [status EXCEPT ![j] = "waiting_for_reference"] \/ UNCHANGED status
        /\ status[j] = "none" /\ UNCHANGED prep
    BY <1>3 DEF EnqueueCreateWaiting, LifeInv, EnqueueOK, NewRowPC
  <2> QED
    BY <1>0, <2>1 DEF Rows
<1>4. CASE EnqueueRollback(r)
  <2>1. status' = [status EXCEPT ![j] = "none"] /\ req[r].pc = "rollback" /\ UNCHANGED prep
    BY <1>4 DEF EnqueueRollback
  <2> QED
    BY <1>0, <2>1 DEF Rows
<1>5. ASSUME NEW b \in Analyses, Cancel(r, b) PROVE Rows(r)
  BY <1>0, <1>5 DEF Cancel, SetStatus, Rows
<1>6. CASE RetryUpdate(r)
  <2>1. UNCHANGED prep
    BY <1>6 DEF RetryUpdate
  <2>2. CASE UNCHANGED status
    BY <2>1, <2>2 DEF Rows
  <2>3. CASE status' = [status EXCEPT ![j] = "queued"] /\ Goto(r, "retry_add")
    <3>1. req'[r].pc = "retry_add" /\ req'[r].job = j
      BY <1>0, <2>3, RequestChange
    <3> QED
      BY <1>0, <2>1, <2>3, <3>1 DEF Rows
  <2> QED
    BY <1>6, <2>2, <2>3 DEF RetryUpdate, ResetFailed
<1>7. CASE RetryToWaitingForReference(r)
  <2>1. /\ \/ status' = [status EXCEPT ![j] = "waiting_for_reference"] /\ status[j] = "failed"
           \/ UNCHANGED status
        /\ UNCHANGED prep
    BY <1>7 DEF RetryToWaitingForReference, ResetFailed, Retryable
  <2> QED
    BY <1>0, <2>1 DEF Rows
<1>8. ASSUME NEW t \in Songs, AddSong(r, t) PROVE Rows(r)
  <2>1. /\ prep' = [prep EXCEPT ![t] = "pending"] /\ UNCHANGED status
        /\ Begin(r, "prep_admit", t)
    BY <1>8 DEF AddSong
  <2>2. req'[r].pc = "prep_admit" /\ req'[r].job = t
    BY <1>0, <2>1, RequestBegins DEF Begin
  <2> QED
    BY <1>0, <2>1, <2>2 DEF Rows
<1>9. CASE EnqueuePrepRollback(r)
  <2>1. /\ prep' = [prep EXCEPT ![j] = "none"] /\ req[r].pc = "prep_rollback"
        /\ status' = [a \in Analyses |-> IF SongOf[a] = j THEN "none" ELSE status[a]]
    BY <1>9 DEF EnqueuePrepRollback
  <2> QED
    BY <1>0, <2>1 DEF Rows
<1>10. CASE RetryPrepReset(r)
  <2>1. UNCHANGED status
    BY <1>10 DEF RetryPrepReset
  <2>2. CASE UNCHANGED prep
    BY <2>1, <2>2 DEF Rows
  <2>3. CASE SetPrep(j, "pending") /\ Goto(r, "prep_add")
    <3>1. req'[r].pc = "prep_add" /\ req'[r].job = j
      BY <1>0, <2>3, RequestChange
    <3> QED
      BY <1>0, <2>1, <2>3, <3>1 DEF Rows, SetPrep
  <2> QED
    BY <1>10, <2>2, <2>3 DEF RetryPrepReset
<1>11. ASSUME AnalysisRequest(r), ~UNCHANGED <<status, prep>> PROVE Rows(r)
  BY <1>2, <1>3, <1>4, <1>5, <1>6, <1>7, <1>11
     DEF AnalysisRequest, EnqueueStart, RetryStart, EnqueuePrecheck, EnqueueAdmit,
         SetQueueStreamID, CancelRemove, RetryPrecheck, RetryAdd
<1>12. ASSUME SongRequest(r), ~UNCHANGED <<status, prep>> PROVE Rows(r)
  BY <1>8, <1>9, <1>10, <1>12 DEF SongRequest, RetryPrepStart, EnqueuePrep, RetryPrepAdd
<1> QED
  BY <1>1, <1>11, <1>12 DEF RequestStep
-----------------------------------------------------------------------------
\* The same jobs in the log, the same entries there and recoverable.
SameViews ==
  \A n \in Streams : /\ SameJobs(queue'[n], queue[n])
                     /\ Recoverable(queue'[n]) = Recoverable(queue[n])
                     /\ queue'[n].live = queue[n].live

\* A step on one stream that changes nothing of this.
LEMMA OneView ==
  ASSUME Inv, NEW name \in Streams, NEW q, queue' = [queue EXCEPT ![name] = q],
         SameJobs(q, queue[name]), Recoverable(q) = Recoverable(queue[name]),
         q.live = queue[name].live
  PROVE  SameViews
<1>1. queue'[name] = q /\ \A n \in Streams \ {name} : queue'[n] = queue[n]
  BY OneStream
<1> QED
  BY <1>1 DEF SameViews, SameJobs

\* What the worker does to the streams, but for publishing, XACK and XDEL.
LEMMA WorkerViews ==
  ASSUME Inv, LifeInv, WorkerStep \/ WorkerFault
  PROVE  /\ UNCHANGED <<req, known, streamId>>
         /\ Ack \/ Del \/ (PublishWoken /\ wk.wake # {}) \/ SameViews
<1> USE DEF unchangedAPI, unchangedTables, WorkerAt
<1>0. "analyses" \in Streams /\ "songs" \in Streams /\ wk.stream \in Streams
      /\ \A n \in Streams : WellFormed(queue[n], JobsOf(n))
  BY WorkerFacts
<1>1. UNCHANGED <<req, known, streamId>>
  BY DEF WorkerStep, WorkerFault, Start, ReclaimNext, ReclaimEntry, TickAnalyses, ProcessFirst,
         TickSongs, HandleAnalysis, HandleSong, RunCompletes, RunFails, RunInterrupted,
         FinishAnalysis, FinishSong, Wake, PublishWoken, FailWaiting, GiveUp, Ack, Del, Exit,
         RequestStop, Crash, HandlerFault, GiveUpFault
<1>2. CASE UNCHANGED queue
  BY <1>1, <1>2 DEF SameViews, SameJobs
<1>3. CASE Start
  <2>1. PICK renamed \in BOOLEAN :
          queue' = [n \in Streams |-> IF renamed THEN RenameConsumer(queue[n]) ELSE queue[n]]
    BY <1>3 DEF Start
  <2>2. ASSUME NEW n \in Streams PROVE SameStream(queue'[n], queue[n])
    <3>1. SameStream(RenameConsumer(queue[n]), queue[n])
      BY <1>0, RenameViews
    <3>2. SameStream(queue[n], queue[n])
      BY DEF SameStream, SameJobs
    <3>3. queue'[n] = IF renamed THEN RenameConsumer(queue[n]) ELSE queue[n]
      BY <2>1
    <3> QED
      BY <3>1, <3>2, <3>3
  <2> QED
    BY <1>1, <2>2 DEF SameViews, SameStream
<1>4. CASE ReclaimEntry /\ ~UNCHANGED queue
  <2> DEFINE q == queue[wk.stream]
  <2>1. PICK i \in wk.todo : queue' = [queue EXCEPT ![wk.stream] = XClaim(q, i)]
    BY <1>4 DEF ReclaimEntry
  <2>2. i \in q.pel /\ WellFormed(q, JobsOf(wk.stream))
    BY <1>0, <1>4, <2>1 DEF ReclaimEntry, Inv, WorkerOK
  <2> DEFINE p == XClaim(q, i)
  <2>3. queue' = [queue EXCEPT ![wk.stream] = p]
    BY <2>1
  <2> HIDE DEF q
  <2>4. SameJobs(p, q) /\ Recoverable(p) = Recoverable(q) /\ p.live = q.live
    BY <2>2, XClaimOK, XClaimViews
  <2> HIDE DEF p
  <2> QED
    BY <1>0, <1>1, <2>3, <2>4, OneView DEF q
<1>5. CASE TickAnalyses
  <2> DEFINE q == queue["analyses"]
  <2>1. PICK i \in Undelivered(q) : queue' = [queue EXCEPT !["analyses"] = XReadGroup(q, i)]
    BY <1>5 DEF TickAnalyses
  <2>2. WellFormed(q, JobsOf("analyses")) /\ Len(q.log) \in Nat /\ q.last \in Nat
    BY WorkerFacts
  <2>3. i \in q.last .. Len(q.log)
    BY <2>1, <2>2 DEF Undelivered, WellFormed
  <2> DEFINE p == XReadGroup(q, i)
  <2>4. queue' = [queue EXCEPT !["analyses"] = p]
    BY <2>1
  <2> HIDE DEF q
  <2>5. SameJobs(p, q) /\ Recoverable(p) = Recoverable(q) /\ p.live = q.live
    BY <2>2, <2>3, XReadGroupOK, XReadGroupViews
  <2> HIDE DEF p
  <2> QED
    BY <1>0, <1>1, <2>4, <2>5, OneView DEF q
<1>6. CASE TickSongs
  <2> DEFINE q == queue["songs"]
  <2> DEFINE p == ClaimNewEntries(q)
  <2>1. queue' = [queue EXCEPT !["songs"] = p]
    BY <1>6 DEF TickSongs
  <2>2. WellFormed(q, JobsOf("songs")) /\ Len(q.log) \in q.last .. Len(q.log)
    BY WorkerFacts
  <2> HIDE DEF q
  <2>3. SameJobs(p, q) /\ Recoverable(p) = Recoverable(q) /\ p.live = q.live
    BY <2>2, XReadGroupOK, XReadGroupViews DEF ClaimNewEntries
  <2> HIDE DEF p
  <2> QED
    BY <1>0, <1>1, <2>1, <2>3, OneView DEF q
<1>7. CASE PublishWoken /\ ~UNCHANGED queue
  BY <1>1, <1>7 DEF PublishWoken
<1> QED
  BY <1>1, <1>2, <1>3, <1>4, <1>5, <1>6, <1>7
     DEF WorkerStep, WorkerFault, ReclaimNext, ProcessFirst, HandleAnalysis, HandleSong,
         RunCompletes, RunFails, RunInterrupted, FinishAnalysis, FinishSong, Wake, FailWaiting,
         GiveUp, Exit, RequestStop, Crash, HandlerFault, GiveUpFault

\* XACK and XDEL of the worker's entry.
LEMMA AckDelViews ==
  ASSUME Inv, LifeInv, Ack \/ Del
  PROVE  /\ \A n \in Streams : SameJobs(queue'[n], queue[n])
         /\ \A n \in Streams \ {wk.stream} : queue'[n] = queue[n]
         /\ queue'[wk.stream].live \subseteq queue[wk.stream].live
         /\ Ack => Recoverable(queue'[wk.stream]) = Recoverable(queue[wk.stream]) \ {wk.entry}
         /\ Del => Recoverable(queue'[wk.stream]) = Recoverable(queue[wk.stream])
<1> DEFINE q == queue[wk.stream]
<1> DEFINE p == IF Ack THEN XAck(q, wk.entry) ELSE XDel(q, wk.entry)
<1>1. wk.stream \in Streams /\ WellFormed(q, JobsOf(wk.stream)) /\ (Ack => wk.pc \in {"ack", "drop"})
      /\ queue' = [queue EXCEPT ![wk.stream] = p]
      /\ (Ack => wk.entry \in q.pel) /\ (Del => wk.pc = "del")
  BY LifeFacts, WorkerFacts DEF Ack, Del, WorkerAt, LifeInv, HandOK
<1>2. SameJobs(p, q) /\ p.live \subseteq q.live
      /\ (Ack => Recoverable(p) = Recoverable(q) \ {wk.entry})
  BY <1>1, XAckOK, XAckViews, XDelOK, XDelViews
<1>3. Del => Recoverable(p) = Recoverable(q)
  <2> SUFFICES ASSUME Del PROVE Recoverable(p) = Recoverable(q)
    OBVIOUS
  <2>1. wk.pc = "del" /\ ~Ack
    BY DEF Del, Ack, WorkerAt
  <2>2. Recoverable(p) = Recoverable(q) \ {wk.entry}
    BY <1>1, <2>1, XDelViews
  <2>3. wk.entry \notin q.pel /\ wk.entry <= q.last /\ wk.entry \in Nat /\ q.last \in Nat
    BY <1>1, <2>1, LifeFacts, WorkerFacts DEF LifeInv, HandOK, WorkerType
  <2>4. wk.entry \notin Recoverable(q)
    BY <2>3 DEF Recoverable
  <2> QED
    BY <2>2, <2>4
<1> HIDE DEF p
<1>4. queue'[wk.stream] = p /\ \A n \in Streams \ {wk.stream} : queue'[n] = queue[n]
  BY <1>1, OneStream
<1> QED
  BY <1>2, <1>3, <1>4 DEF SameJobs
-----------------------------------------------------------------------------
\* The two caps in one: who is past the look at the length, and the limit.
RetryingOn(n) == IF n = "analyses" THEN {"retry_update", "retry_add"} ELSE {"prep_reset", "prep_add"}

MaxLen(n) == IF n = "analyses" THEN QUEUE_MAX_LENGTH ELSE SongsPrepMaxLen

Cap(n) == XLen(queue[n]) + Cardinality(Retrying(RetryingOn(n))) <= MaxLen(n) + Overshoot

\* The lengths and the counts are numbers.
LEMMA Counts ==
  ASSUME Inv, NEW n \in Streams
  PROVE  /\ IsFiniteSet(queue[n].live) /\ XLen(queue[n]) \in Nat
         /\ Cardinality(Requests) \in Nat /\ Cardinality(Requests) >= 1
         /\ \A R \in SUBSET Requests : IsFiniteSet(R) /\ Cardinality(R) \in Nat
         /\ MaxLen(n) \in Nat
<1>1. queue[n].live \subseteq 1 .. Len(queue[n].log) /\ Len(queue[n].log) \in Nat
  BY WorkerFacts, RecoverableLogged
<1>2. IsFiniteSet(1 .. Len(queue[n].log))
  BY <1>1, FS_Interval
<1>3. IsFiniteSet(queue[n].live)
  BY <1>1, <1>2, FS_Subset
<1>4. Cardinality(Requests) \in Nat /\ Cardinality(Requests) # 0
  BY RequestsAssumption, FS_CardinalityType, FS_EmptySet
<1>5. \A R \in SUBSET Requests : IsFiniteSet(R) /\ Cardinality(R) \in Nat
  BY RequestsAssumption, FS_Subset, FS_CardinalityType
<1>6. XLen(queue[n]) \in Nat
  BY <1>3, FS_CardinalityType DEF XLen
<1> QED
  BY <1>3, <1>4, <1>5, <1>6, BoundAssumption DEF MaxLen

\* A stream that loses entries is not longer, one more entry is one more.
LEMMA Lengths ==
  ASSUME Inv, NEW n \in Streams
  PROVE  /\ queue'[n].live \subseteq queue[n].live =>
              XLen(queue'[n]) \in Nat /\ XLen(queue'[n]) <= XLen(queue[n])
         /\ \A id : queue'[n].live = queue[n].live \cup {id} =>
              XLen(queue'[n]) \in Nat /\ XLen(queue'[n]) <= XLen(queue[n]) + 1
<1>1. IsFiniteSet(queue[n].live) /\ XLen(queue[n]) \in Nat
  BY Counts
<1>2. ASSUME queue'[n].live \subseteq queue[n].live
      PROVE  XLen(queue'[n]) \in Nat /\ XLen(queue'[n]) <= XLen(queue[n])
  BY <1>1, <1>2, FS_Subset, FS_CardinalityType DEF XLen
<1>3. ASSUME NEW id, queue'[n].live = queue[n].live \cup {id}
      PROVE  XLen(queue'[n]) \in Nat /\ XLen(queue'[n]) <= XLen(queue[n]) + 1
  <2> DEFINE L == queue[n].live
  <2>1. Cardinality(L \cup {id}) = IF id \in L THEN Cardinality(L) ELSE Cardinality(L) + 1
    BY <1>1, FS_AddElement
  <2>2. XLen(queue'[n]) = Cardinality(L \cup {id}) /\ XLen(queue[n]) = Cardinality(L)
    BY <1>3 DEF XLen
  <2> HIDE DEF L
  <2> QED
    BY <1>1, <2>1, <2>2
<1> QED
  BY <1>2, <1>3

\* Who is retrying, after a request has moved.
LEMMA RetryingMoves ==
  ASSUME Inv, NEW r \in Requests, NEW pc, NEW job, NEW id, Moves(r, pc, job, id), NEW pcs
  PROVE  /\ Retrying(pcs)' \subseteq Requests /\ Retrying(pcs) \subseteq Requests
         /\ pc \notin pcs => Retrying(pcs)' = Retrying(pcs) \ {r}
         /\ pc \in pcs => Retrying(pcs)' = Retrying(pcs) \cup {r}
BY DEF Retrying, Moves

LEMMA RequestCap ==
  ASSUME Inv, NEW r \in Requests, RequestForm(r), NEW n \in Streams, Cap(n)
  PROVE  Cap(n)'
<1> DEFINE pcs == RetryingOn(n)
<1> DEFINE R == Retrying(pcs)
<1>0. /\ XLen(queue[n]) \in Nat /\ MaxLen(n) \in Nat
      /\ Cardinality(Requests) \in Nat /\ Cardinality(Requests) >= 1
      /\ R \subseteq Requests /\ R' \subseteq Requests
      /\ Cardinality(R) \in Nat /\ Cardinality(R') \in Nat
      /\ Cardinality(R) <= Cardinality(Requests) /\ Cardinality(R') <= Cardinality(Requests)
  <2>1. R \subseteq Requests /\ R' \subseteq Requests
    BY DEF Retrying
  <2> HIDE DEF R
  <2>2. \A S \in SUBSET Requests : Cardinality(S) <= Cardinality(Requests)
    BY RequestsAssumption, FS_Subset
  <2> QED
    BY <2>1, <2>2, Counts
<1>1. XLen(queue[n]) + Cardinality(R) <= MaxLen(n) + (Cardinality(Requests) - 1)
  BY DEF Cap, Overshoot
<1> SUFFICES XLen(queue'[n]) + Cardinality(R') <= MaxLen(n) + (Cardinality(Requests) - 1)
  BY DEF Cap, Overshoot
<1> USE DEF RetryingOn
<1>2. ASSUME R' \subseteq R, queue'[n].live \subseteq queue[n].live
      PROVE  XLen(queue'[n]) + Cardinality(R') <= MaxLen(n) + (Cardinality(Requests) - 1)
  <2> HIDE DEF R
  <2>1. Cardinality(R') <= Cardinality(R)
    BY <1>0, <1>2, Counts, FS_Subset
  <2>2. XLen(queue'[n]) \in Nat /\ XLen(queue'[n]) <= XLen(queue[n])
    BY <1>2, Lengths
  <2> QED
    BY <1>0, <1>1, <2>1, <2>2
<1>3. ASSUME NEW pc, NEW job, NEW id, Moves(r, pc, job, id), UNCHANGED queue,
             pc \in pcs => req[r].pc \in pcs
      PROVE  XLen(queue'[n]) + Cardinality(R') <= MaxLen(n) + (Cardinality(Requests) - 1)
  <2>1. R' \subseteq R
    BY <1>3 DEF Retrying, Moves
  <2> QED
    BY <1>2, <1>3, <2>1
<1>4. ASSUME XLen(queue[n]) < MaxLen(n), queue'[n].live = queue[n].live
      PROVE  XLen(queue'[n]) + Cardinality(R') <= MaxLen(n) + (Cardinality(Requests) - 1)
  <2>1. XLen(queue'[n]) = XLen(queue[n])
    BY <1>4 DEF XLen
  <2> HIDE DEF R
  <2> QED
    BY <1>0, <1>4, <2>1
<1>5. CASE Waits(r)
  <2>1. PICK pc, job, id :
          /\ pc \in QuietPC
          /\ Moves(r, pc, job, id)
          /\ pc = "prep_reset" => req[r].pc = "idle" /\ HasRoom("songs")
          /\ pc = "retry_update" => req[r].pc = "retry_precheck" /\ HasRoom("analyses")
    BY <1>5 DEF Waits
  <2>2. CASE pc \in pcs
    <3>1. XLen(queue[n]) < MaxLen(n)
      BY <2>1, <2>2 DEF QuietPC, HasRoom, MaxLen, Streams
    <3> QED
      BY <1>4, <1>5, <3>1 DEF Waits
  <2>3. CASE pc \notin pcs
    BY <1>3, <1>5, <2>1, <2>3 DEF Waits
  <2> QED
    BY <2>2, <2>3
<1>6. ASSUME NEW job \in Job, NEW pc \in ClaimPC, Claims(r, pc, job)
      PROVE  XLen(queue'[n]) + Cardinality(R') <= MaxLen(n) + (Cardinality(Requests) - 1)
  <2>1. PICK id \in Nat : Moves(r, pc, job, id)
    BY <1>6 DEF Claims
  <2>2. pc \in pcs => req[r].pc \in pcs
    BY <1>6 DEF Claims
  <2> QED
    BY <1>3, <1>6, <2>1, <2>2 DEF Claims
<1>7. CASE Refused(r) \/ RollsBack(r)
  <2>1. PICK pc, job, id : pc \in {"rollback", "prep_rollback", "idle"} /\ Moves(r, pc, job, id)
    BY <1>7 DEF Refused, RollsBack
  <2> QED
    BY <1>3, <1>7, <2>1 DEF Refused, RollsBack
<1>8. ASSUME NEW name \in Streams, NEW job \in Job, Enters(r, name, job)
      PROVE  XLen(queue'[n]) + Cardinality(R') <= MaxLen(n) + (Cardinality(Requests) - 1)
  <2>1. PICK pc, j, id : pc \in {"set_id", "idle"} /\ Moves(r, pc, j, id)
    BY <1>8 DEF Enters
  <2>2. pc \notin pcs
    BY <2>1
  <2>3. R' = R \ {r}
    BY <2>1, <2>2, RetryingMoves
  <2>4. CASE n # name
    <3>1. queue'[n] = queue[n] /\ R' \subseteq R
      BY <1>8, <2>3, <2>4, PublishViews DEF Enters
    <3> QED
      BY <1>2, <3>1
  <2>5. CASE n = name
    <3>1. XLen(queue'[n]) \in Nat /\ XLen(queue'[n]) <= XLen(queue[n]) + 1
      BY <1>8, <2>5, PublishViews, Lengths DEF Enters
    <3>2. CASE req[r].pc \in {"admit", "prep_admit"}
      <4>1. XLen(queue[n]) < MaxLen(n)
        BY <1>8, <2>5, <3>2 DEF Enters, HasRoom, MaxLen
      <4>2. r \notin R'
        BY <2>3
      <4> HIDE DEF R
      <4>3. R' \subseteq Requests \ {r}
        BY <1>0, <4>2
      <4>4. /\ Cardinality(R') <= Cardinality(Requests \ {r})
            /\ Cardinality(Requests \ {r}) = Cardinality(Requests) - 1
        BY <4>3, RequestsAssumption, FS_Subset, FS_RemoveElement
      <4> QED
        BY <1>0, <3>1, <4>1, <4>4
    <3>3. CASE req[r].pc \notin {"admit", "prep_admit"}
      <4>1. req[r].pc \in pcs
        BY <1>8, <2>5, <3>3 DEF Enters, ClaimPC, Streams
      <4>2. r \in R
        BY <4>1 DEF Retrying
      <4> HIDE DEF R
      <4>3. Cardinality(R') = Cardinality(R) - 1
        BY <1>0, <2>3, <4>2, Counts, FS_RemoveElement
      <4> QED
        BY <1>0, <1>1, <3>1, <4>3
    <3> QED
      BY <3>2, <3>3
  <2> QED
    BY <2>4, <2>5
<1>9. ASSUME NEW a \in Analyses, Marks(r, a)
      PROVE  XLen(queue'[n]) + Cardinality(R') <= MaxLen(n) + (Cardinality(Requests) - 1)
  <2>1. Moves(r, "remove_entry", a, streamId[a]) /\ "remove_entry" \notin pcs
    BY <1>9 DEF Marks
  <2> QED
    BY <1>3, <1>9, <2>1 DEF Marks
<1>10. ASSUME NEW id \in Nat, Removes(r, id)
       PROVE  XLen(queue'[n]) + Cardinality(R') <= MaxLen(n) + (Cardinality(Requests) - 1)
  <2> DEFINE q == queue["analyses"]
  <2> DEFINE p == XDel(q, id)
  <2>1. queue' = [queue EXCEPT !["analyses"] = p] /\ "analyses" \in Streams
    BY <1>10 DEF Removes, Streams
  <2>2. p.live \subseteq q.live
    BY <2>1, WorkerFacts, XDelViews
  <2> HIDE DEF p
  <2>3. queue'["analyses"] = p /\ \A m \in Streams \ {"analyses"} : queue'[m] = queue[m]
    BY <2>1, OneStream
  <2>4. queue'[n].live \subseteq queue[n].live
    BY <2>2, <2>3
  <2>5. R' \subseteq R
    BY <1>10 DEF Removes, Retrying, Moves
  <2> QED
    BY <1>2, <2>4, <2>5
<1> QED
  BY <1>5, <1>6, <1>7, <1>8, <1>9, <1>10 DEF RequestForm

\* The worker's part: only a wake-up makes a stream longer.
LEMMA WorkerCap ==
  ASSUME Inv, LifeInv, WorkerStep \/ WorkerFault, NEW n \in Streams, Cap(n),
         n = "songs" \/ NothingToWake
  PROVE  Cap(n)'
<1>1. UNCHANGED req
  BY WorkerViews
<1>2. queue'[n].live \subseteq queue[n].live
  <2>1. CASE SameViews
    BY <2>1 DEF SameViews
  <2>2. CASE Ack \/ Del
    BY <2>2, AckDelViews
  <2>3. CASE PublishWoken /\ wk.wake # {}
    <3>1. PICK a \in wk.wake : queue' = [queue EXCEPT !["analyses"] = XAdd(@, a)]
      BY <2>3 DEF PublishWoken
    <3>2. wk.pc = "publish" /\ a \in Analyses /\ SongOf[a] \notin PreparedAtStart
      BY <2>3, LifeFacts DEF PublishWoken, WorkerAt, WorkerType, LifeInv, PreparedOK
    <3>3. n = "songs"
      BY <3>2 DEF NothingToWake
    <3>4. "analyses" \in Streams /\ a \in JobsOf("analyses")
      BY <3>2 DEF Streams, JobsOf
    <3>5. queue'[n] = queue[n]
      BY <3>1, <3>3, <3>4, PublishViews
    <3> QED
      BY <3>5
  <2> QED
    BY <2>1, <2>2, <2>3, WorkerViews
<1> DEFINE pcs == RetryingOn(n)
<1> DEFINE R == Retrying(pcs)
<1>3. R' = R
  BY <1>1 DEF Retrying
<1>4. Cardinality(R) \in Nat /\ R \subseteq Requests
  BY Counts DEF Retrying
<1>5. XLen(queue[n]) \in Nat /\ MaxLen(n) \in Nat /\ Cardinality(Requests) \in Nat
  BY Counts
<1>6. XLen(queue'[n]) \in Nat /\ XLen(queue'[n]) <= XLen(queue[n])
  BY <1>2, Lengths
<1>7. XLen(queue[n]) + Cardinality(R) <= MaxLen(n) + (Cardinality(Requests) - 1)
  BY DEF Cap, Overshoot
<1> HIDE DEF R
<1>8. XLen(queue'[n]) + Cardinality(R') <= MaxLen(n) + (Cardinality(Requests) - 1)
  BY <1>3, <1>4, <1>5, <1>6, <1>7
<1> QED
  BY <1>8 DEF R, Cap, Overshoot

LEMMA CapInit ==
  ASSUME Init, NEW n \in Streams
  PROVE  Cap(n)
<1>1. queue[n].live = {} /\ Retrying(RetryingOn(n)) = {}
  BY DEF Init, EmptyStream, Retrying, RetryingOn, Idle
<1>2. Cardinality(Requests) \in Nat /\ Cardinality(Requests) # 0 /\ MaxLen(n) \in Nat
  BY RequestsAssumption, BoundAssumption, FS_CardinalityType, FS_EmptySet DEF MaxLen
<1>3. XLen(queue[n]) = 0 /\ Cardinality(Retrying(RetryingOn(n))) = 0
  BY <1>1, FS_EmptySet DEF XLen
<1> QED
  BY <1>2, <1>3 DEF Cap, Overshoot

LEMMA CapStep ==
  ASSUME Inv, LifeInv, [Next]_vars, NEW n \in Streams, Cap(n),
         n = "songs" \/ NothingToWake
  PROVE  Cap(n)'
<1>1. ASSUME NEW r \in Requests, RequestStep(r) PROVE Cap(n)'
  BY <1>1, RequestTakesForm, RequestCap
<1>2. ASSUME NEW r \in Requests, ApiFault(r) PROVE Cap(n)'
  <2>1. UNCHANGED queue /\ Moves(r, "idle", NoJob, 0)
    BY <1>2, FinishMoves DEF ApiFault
  <2>2. ~At(r, "idle")
    BY <1>2 DEF ApiFault
  <2> DEFINE pcs == RetryingOn(n)
  <2> DEFINE R == Retrying(pcs)
  <2>3. R \subseteq Requests /\ R' \subseteq R
    BY <2>1 DEF Retrying, RetryingOn, Moves
  <2>4. Cap(n) <=> XLen(queue[n]) + Cardinality(R) <= MaxLen(n) + (Cardinality(Requests) - 1)
    BY DEF Cap, Overshoot
  <2>5. Cap(n)' <=> XLen(queue[n]) + Cardinality(R') <= MaxLen(n) + (Cardinality(Requests) - 1)
    BY <2>1 DEF Cap, Overshoot
  <2> HIDE DEF R
  <2>6. /\ XLen(queue[n]) \in Nat /\ MaxLen(n) \in Nat /\ Cardinality(Requests) \in Nat
        /\ Cardinality(R) \in Nat /\ Cardinality(R') \in Nat /\ Cardinality(R') <= Cardinality(R)
    BY <2>3, Counts, FS_Subset
  <2> QED
    BY <2>4, <2>5, <2>6
<1>3. CASE WorkerStep \/ WorkerFault
  BY <1>3, WorkerCap
<1>4. CASE UNCHANGED vars
  BY <1>4 DEF vars, Cap, Retrying, XLen, MaxLen, Overshoot, RetryingOn
<1> QED
  BY <1>1, <1>2, <1>3, <1>4 DEF Next

LEMMA CapBounds ==
  ASSUME Inv
  PROVE  /\ Cap("songs") => PrepQueueBounded
         /\ Cap("analyses") => AnalysesQueueBounded
<1>1. "songs" \in Streams /\ "analyses" \in Streams
  BY DEF Streams
<1>2. ASSUME NEW n \in Streams, Cap(n) PROVE XLen(queue[n]) <= MaxLen(n) + Overshoot
  <2> DEFINE R == Retrying(RetryingOn(n))
  <2>1. R \subseteq Requests
    BY DEF Retrying
  <2>2. XLen(queue[n]) + Cardinality(R) <= MaxLen(n) + (Cardinality(Requests) - 1)
    BY <1>2 DEF Cap, Overshoot
  <2> HIDE DEF R
  <2>3. /\ Cardinality(R) \in Nat /\ XLen(queue[n]) \in Nat /\ MaxLen(n) \in Nat
        /\ Cardinality(Requests) \in Nat
    BY <2>1, Counts
  <2> QED
    BY <2>2, <2>3 DEF Overshoot
<1> QED
  BY <1>1, <1>2 DEF PrepQueueBounded, AnalysesQueueBounded, MaxLen

(***************************************************************************)
(* songs:prep holds at most its cap and one entry more for every other     *)
(* request that may be in flight: POST /songs asks for room and adds in    *)
(* one script, RetryPrep looks at the length first and adds later.         *)
(***************************************************************************)
THEOREM PrepQueueIsBounded == Spec => []PrepQueueBounded
<1> DEFINE C == Cap("songs")
<1>1. Init => Inv /\ LifeInv /\ C
  BY InitOK, LifeInit, CapInit DEF Streams
<1>2. Inv /\ LifeInv /\ C /\ [Next]_vars => C'
  BY CapStep DEF Streams
<1>3. Inv /\ C => PrepQueueBounded
  BY CapBounds
<1> HIDE DEF C
<1> QED
  BY <1>1, <1>2, <1>3, InvAlways, LifeInvAlways, PTL DEF Spec

(***************************************************************************)
(* analyses:run the same, where no analysis waits for its song: the        *)
(* wake-up of a finished preparation publishes without asking for room, so *)
(* the cap says nothing of a stream it writes to.                          *)
(***************************************************************************)
THEOREM AnalysesQueueIsBounded == NothingToWake => (Spec => []AnalysesQueueBounded)
<1> SUFFICES ASSUME NothingToWake PROVE Spec => []AnalysesQueueBounded
  OBVIOUS
<1> DEFINE C == Cap("analyses")
<1>1. Init => Inv /\ LifeInv /\ C
  BY InitOK, LifeInit, CapInit DEF Streams
<1>2. Inv /\ LifeInv /\ C /\ [Next]_vars => C'
  BY CapStep DEF Streams
<1>3. Inv /\ C => AnalysesQueueBounded
  BY CapBounds
<1> HIDE DEF C
<1> QED
  BY <1>1, <1>2, <1>3, InvAlways, LifeInvAlways, PTL DEF Spec
-----------------------------------------------------------------------------
\* The worker goes on with its entry, and nothing is delivered or acknowledged.
LEMMA ReclaimStays ==
  ASSUME ReclaimInv, queue'["analyses"].pel = queue["analyses"].pel,
         wk.pc \in HandlingPC, wk'.pc \in HandlingPC \cup {"ack", "drop"},
         wk'.phase = wk.phase, wk'.stream = wk.stream, wk'.entry = wk.entry,
         wk'.todo = wk.todo, wk'.stopping = wk.stopping
  PROVE  ReclaimInv'
BY DEF ReclaimInv, HandlingPC

\* It starts and takes up entries.
LEMMA ReclaimTakes ==
  ASSUME Inv, LifeInv, SweepsAll, ReclaimInv,
         Start \/ ReclaimNext \/ ReclaimEntry \/ TickAnalyses \/ TickSongs
  PROVE  ReclaimInv'
<1> USE DEF WorkerAt
<1>0. /\ wk \in WorkerType /\ RestartsAreSlow
      /\ "analyses" \in Streams /\ "songs" \in Streams /\ wk.stream \in Streams
  BY LifeFacts DEF SweepsAll
<1>1. CASE Start
  <2>1. SameStream(queue'["analyses"], queue["analyses"])
    <3>1. PICK renamed \in BOOLEAN :
            queue' = [n \in Streams |-> IF renamed THEN RenameConsumer(queue[n]) ELSE queue[n]]
      BY <1>1 DEF Start
    <3>2. SameStream(RenameConsumer(queue["analyses"]), queue["analyses"])
      BY <1>0, WorkerFacts, RenameViews
    <3>3. SameStream(queue["analyses"], queue["analyses"])
      BY DEF SameStream, SameJobs
    <3>4. queue'["analyses"] = IF renamed THEN RenameConsumer(queue["analyses"]) ELSE queue["analyses"]
      BY <1>0, <3>1
    <3> QED
      BY <3>2, <3>3, <3>4
  <2> DEFINE stuck == queue["analyses"].pel
  <2>2. wk' = [Down EXCEPT !.pc = "reclaim", !.phase = "analyses", !.todo = stuck]
    BY <1>0, <1>1 DEF Start, IdleEntries
  <2> HIDE DEF stuck
  <2>3. wk'.phase = "analyses" /\ wk'.stream = "analyses" /\ wk'.todo = stuck
    BY <2>2 DEF Down
  <2> QED
    BY <2>1, <2>3 DEF ReclaimInv, SameStream, stuck
<1>2. CASE ReclaimNext
  <2>1. wk.pc = "reclaim" /\ wk.todo = {} /\ UNCHANGED queue
    BY <1>2 DEF ReclaimNext
  <2>2. CASE wk.phase = "analyses"
    <3>1. PICK stuck \in IdleEntries("songs") :
            wk' = [wk EXCEPT !.phase = "songs", !.stream = "songs", !.todo = stuck]
      BY <1>2, <2>2 DEF ReclaimNext
    <3>2. wk'.phase = "songs" /\ wk'.stream = "songs"
      BY <1>0, <3>1 DEF WorkerType
    <3> QED
      BY <2>1, <2>2, <3>2 DEF ReclaimInv
  <2>3. CASE wk.phase # "analyses"
    <3>1. wk' = [wk EXCEPT !.phase = "main", !.pc = "loop"] /\ wk.phase = "songs"
      BY <1>0, <1>2, <2>1, <2>3 DEF ReclaimNext, WorkerType, Inv, WorkerOK
    <3>2. wk'.phase = "main"
      BY <1>0, <3>1 DEF WorkerType
    <3> QED
      BY <2>1, <3>1, <3>2 DEF ReclaimInv
  <2> QED
    BY <2>2, <2>3
<1>3. CASE ReclaimEntry
  <2> DEFINE q == queue[wk.stream]
  <2>1. PICK i \in wk.todo :
          IF GivesUp(q.log[i].times)
          THEN /\ wk' = [wk EXCEPT !.entry = i, !.pc = IF i \in q.live THEN "give_up" ELSE "drop"]
               /\ UNCHANGED queue
          ELSE /\ queue' = [queue EXCEPT ![wk.stream] = XClaim(q, i)]
               /\ wk' = IF i \in q.live
                        THEN [wk EXCEPT !.entry = i, !.pc = "handle"]
                        ELSE [wk EXCEPT !.todo = @ \ {i}]
    BY <1>3 DEF ReclaimEntry
  <2>2. /\ wk.pc = "reclaim" /\ wk.phase # "main" /\ wk.stream = wk.phase
        /\ WellFormed(q, JobsOf(wk.stream)) /\ i \in q.pel
    BY <1>0, <1>3, WorkerFacts DEF ReclaimEntry, Inv, WorkerOK, ReclaimInv
  <2>3. CASE GivesUp(q.log[i].times)
    <3> DEFINE pc == IF i \in q.live THEN "give_up" ELSE "drop"
    <3>1. wk' = [wk EXCEPT !.entry = i, !.pc = pc] /\ UNCHANGED queue
      BY <2>1, <2>3
    <3> HIDE DEF pc
    <3>2. wk'.phase = wk.phase /\ wk'.stream = wk.stream /\ wk'.todo = wk.todo
      BY <1>0, <3>1 DEF WorkerType
    <3> QED
      BY <2>2, <3>1, <3>2 DEF ReclaimInv
  <2>4. CASE ~GivesUp(q.log[i].times)
    <3> DEFINE p == XClaim(q, i)
    <3>1. queue' = [queue EXCEPT ![wk.stream] = p]
      BY <2>1, <2>4
    <3>2. p.pel = IF i \in q.live THEN q.pel ELSE q.pel \ {i}
      BY <2>2, XClaimOK
    <3>3. /\ wk'.phase = wk.phase /\ wk'.stream = wk.stream
          /\ wk'.todo = IF i \in q.live THEN wk.todo ELSE wk.todo \ {i}
      <4> DEFINE rest == wk.todo \ {i}
      <4>1. wk' = IF i \in q.live THEN [wk EXCEPT !.entry = i, !.pc = "handle"]
                  ELSE [wk EXCEPT !.todo = rest]
        BY <2>1, <2>4
      <4> HIDE DEF rest, q
      <4>2. /\ wk'.phase = wk.phase /\ wk'.stream = wk.stream
            /\ wk'.todo = IF i \in q.live THEN wk.todo ELSE rest
        BY <1>0, <4>1 DEF WorkerType
      <4> QED
        BY <4>2 DEF rest
    <3> HIDE DEF p
    <3>4. queue'[wk.stream] = p /\ \A n \in Streams \ {wk.stream} : queue'[n] = queue[n]
      BY <1>0, <3>1, OneStream
    <3>5. CASE wk.stream = "analyses"
      BY <2>2, <3>2, <3>3, <3>4, <3>5 DEF ReclaimInv
    <3>6. CASE wk.stream # "analyses"
      BY <1>0, <2>2, <3>3, <3>4, <3>6 DEF ReclaimInv
    <3> QED
      BY <3>5, <3>6
  <2> QED
    BY <2>3, <2>4
<1>4. CASE TickAnalyses
  <2> DEFINE q == queue["analyses"]
  <2>1. PICK i \in Undelivered(q) :
          /\ IsOldest(i, Undelivered(q))
          /\ queue' = [queue EXCEPT !["analyses"] = XReadGroup(q, i)]
          /\ wk' = [wk EXCEPT !.pc = "delivered", !.stream = "analyses", !.entry = i]
    BY <1>4 DEF TickAnalyses
  <2>2. WellFormed(q, JobsOf("analyses")) /\ Len(q.log) \in Nat /\ q.last \in Nat
    BY WorkerFacts
  <2>3. i \in q.last .. Len(q.log) /\ q.live \subseteq Int
    BY <2>1, <2>2 DEF Undelivered, WellFormed
  <2>4. q.pel = {} /\ wk.phase = "main"
    BY <1>4 DEF TickAnalyses, Inv, WorkerOK, ReclaimInv, HandlingPC
  <2> DEFINE p == XReadGroup(q, i)
  <2>5. queue' = [queue EXCEPT !["analyses"] = p]
    BY <2>1
  <2> HIDE DEF q
  <2>6. p.pel = q.pel \cup {k \in Undelivered(q) : k <= i}
    BY <2>2, <2>3, XReadGroupViews
  <2>7. \A k \in Undelivered(q) : k <= i => k = i
    BY <2>1, <2>2, <2>3 DEF IsOldest, Undelivered
  <2>8. p.pel \subseteq {i}
    BY <2>4, <2>6, <2>7
  <2> HIDE DEF p
  <2>9. queue'["analyses"] = p
    BY <1>0, <2>5, OneStream
  <2>10. wk'.pc = "delivered" /\ wk'.stream = "analyses" /\ wk'.entry = i /\ wk'.phase = wk.phase
    BY <1>0, <2>1 DEF WorkerType
  <2> QED
    BY <2>4, <2>8, <2>9, <2>10 DEF ReclaimInv, HandlingPC, q
<1>5. CASE TickSongs
  <2>1. queue["analyses"].pel = {} /\ wk.phase = "main"
    BY <1>5 DEF TickSongs, Inv, WorkerOK, ReclaimInv, HandlingPC
  <2>2. queue'["analyses"] = queue["analyses"]
    BY <1>0, <1>5, OneStream DEF TickSongs
  <2>3. wk'.phase = wk.phase
    BY <1>0, <1>5 DEF TickSongs, PriorityPrep, NextPrep, WorkerType
  <2> QED
    BY <2>1, <2>2, <2>3 DEF ReclaimInv
<1> QED
  BY <1>1, <1>2, <1>3, <1>4, <1>5

\* It works on an entry and is done with it.
LEMMA ReclaimHandles ==
  ASSUME Inv, LifeInv, SweepsAll, ReclaimInv,
         \/ ProcessFirst \/ HandleAnalysis \/ HandleSong
         \/ RunCompletes \/ RunFails \/ RunInterrupted \/ FinishAnalysis \/ FinishSong
         \/ Wake \/ PublishWoken \/ FailWaiting \/ GiveUp \/ GiveUpFault
  PROVE  ReclaimInv'
<1> USE DEF WorkerAt, Handling
<1>0. /\ wk \in WorkerType /\ wk.stream \in Streams
      /\ "analyses" \in Streams /\ "songs" \in Streams
  BY LifeFacts
<1>1. ASSUME NEW pc \in HandlingPC \cup {"ack", "drop"}, Goes(pc), UNCHANGED queue, wk.pc \in HandlingPC
      PROVE  ReclaimInv'
  BY <1>1, WorkerMove, ReclaimStays DEF Stays
<1>2. ASSUME NEW woken, wk' = [wk EXCEPT !.wake = woken] \/ wk' = [wk EXCEPT !.pc = "publish", !.wake = woken],
             wk.pc \in {"wake", "publish"}, queue'["analyses"].pel = queue["analyses"].pel,
             wk' = [wk EXCEPT !.wake = woken] => wk.pc = "publish"
      PROVE  ReclaimInv'
  <2>1. /\ wk'.pc = "publish" /\ wk'.phase = wk.phase /\ wk'.stream = wk.stream
        /\ wk'.entry = wk.entry /\ wk'.todo = wk.todo /\ wk'.stopping = wk.stopping
    BY <1>0, <1>2 DEF WorkerType
  <2> QED
    BY <1>2, <2>1, ReclaimStays DEF HandlingPC
<1>3. CASE ProcessFirst
  <2>1. CASE wk.stopping
    <3>1. Stays("loop") /\ wk.phase = "main" /\ UNCHANGED queue
      BY <1>3, <2>1, WorkerMove DEF ProcessFirst, Inv, WorkerOK
    <3> QED
      BY <2>1, <3>1 DEF ReclaimInv, Stays
  <2>2. CASE ~wk.stopping
    BY <1>1, <1>3, <2>2 DEF ProcessFirst, HandlingPC
  <2> QED
    BY <2>1, <2>2
<1>4. CASE HandleAnalysis
  <2>1. wk.pc = "handle" /\ wk.stream = "analyses" /\ UNCHANGED queue
    BY <1>4 DEF HandleAnalysis
  <2>2. JobId \in Analyses /\ Published(JobId) /\ SongOf[JobId] \in cached
    BY <2>1, LifeFacts DEF EntryPC, WorkerPC
  <2>3. status[JobId] # "none"
    BY <2>2 DEF LifeInv, RowOK
  <2>4. Goes("finish") \/ Goes("run")
    BY <1>4, <2>2, <2>3 DEF HandleAnalysis
  <2> QED
    BY <1>1, <2>1, <2>4 DEF HandlingPC
<1>5. CASE HandleSong
  <2>1. wk.pc = "handle" /\ wk.stream = "songs" /\ UNCHANGED queue
    BY <1>5 DEF HandleSong
  <2>2. JobId \in Songs /\ ~NeverPublished(JobId)
    BY <2>1, LifeFacts DEF EntryPC, WorkerPC
  <2>3. prep[JobId] # "none"
    BY <2>2 DEF Inv, SongOK
  <2>4. Goes("finish") \/ Goes("run")
    BY <1>5, <2>3 DEF HandleSong
  <2> QED
    BY <1>1, <2>1, <2>4 DEF HandlingPC
<1>6. CASE RunCompletes \/ RunFails \/ FinishAnalysis \/ FinishSong \/ FailWaiting \/ GiveUp \/ GiveUpFault
  <2>1. /\ wk.pc \in HandlingPC /\ UNCHANGED queue
        /\ \E pc \in {"finish", "ack", "drop", "fail_waiting", "wake", "give_up_waiting"} : Goes(pc)
    BY <1>6 DEF RunCompletes, RunFails, FinishAnalysis, FinishSong, FailWaiting, GiveUp,
                GiveUpFault, HandlingPC
  <2> QED
    BY <1>1, <2>1 DEF HandlingPC
<1>7. CASE RunInterrupted
  <2>1. wk.phase = "main" /\ wk.stopping /\ Return /\ UNCHANGED queue
    BY <1>7 DEF RunInterrupted
  <2>2. wk'.phase = "main" /\ wk'.stopping
    BY <2>1, WorkerMove
  <2> QED
    BY <2>2 DEF ReclaimInv
<1>8. CASE Wake
  <2> DEFINE woken == WaitingFor(JobId)
  <2>1. wk' = [wk EXCEPT !.pc = "publish", !.wake = woken] /\ wk.pc = "wake" /\ UNCHANGED queue
    BY <1>8 DEF Wake
  <2> HIDE DEF woken
  <2>2. wk'.pc = "publish"
    BY <1>0, <2>1 DEF WorkerType
  <2>3. wk' = [wk EXCEPT !.wake = woken] => wk.pc = "publish"
    BY <1>0, <2>1, <2>2 DEF WorkerType
  <2> QED
    BY <1>2, <2>1, <2>3
<1>9. CASE PublishWoken
  <2>1. CASE wk.wake = {}
    BY <1>1, <1>9, <2>1 DEF PublishWoken, HandlingPC
  <2>2. CASE wk.wake # {}
    <3>1. PICK a \in wk.wake : /\ queue' = [queue EXCEPT !["analyses"] = XAdd(@, a)]
                               /\ wk' = [wk EXCEPT !.wake = @ \ {a}]
      BY <1>9, <2>2 DEF PublishWoken
    <3> DEFINE woken == wk.wake \ {a}
    <3>2. wk.pc = "publish" /\ a \in JobsOf("analyses") /\ wk' = [wk EXCEPT !.wake = woken]
      BY <1>0, <1>9, <3>1 DEF PublishWoken, WorkerType, JobsOf
    <3> HIDE DEF woken
    <3>3. queue'["analyses"].pel = queue["analyses"].pel
      BY <1>0, <3>1, <3>2, PublishViews
    <3> QED
      BY <1>2, <3>2, <3>3
  <2> QED
    BY <2>1, <2>2
<1> QED
  BY <1>3, <1>4, <1>5, <1>6, <1>7, <1>8, <1>9

\* It acknowledges, ends or is told to stop.
LEMMA ReclaimEnds ==
  ASSUME Inv, LifeInv, ReclaimInv, Ack \/ Del \/ Exit \/ Crash \/ RequestStop
  PROVE  ReclaimInv'
<1> USE DEF WorkerAt
<1>0. /\ wk \in WorkerType /\ wk.stream \in Streams
      /\ "analyses" \in Streams /\ "songs" \in Streams
      /\ WellFormed(queue[wk.stream], JobsOf(wk.stream))
  BY LifeFacts, WorkerFacts
<1>1. CASE Exit \/ Crash
  <2>1. wk' = Down
    BY <1>1 DEF Exit, Crash
  <2> QED
    BY <2>1 DEF Down, ReclaimInv
<1>2. CASE RequestStop
  <2>1. UNCHANGED queue /\ wk' = [wk EXCEPT !.stopping = TRUE]
    BY <1>2 DEF RequestStop
  <2>2. /\ wk'.stopping /\ wk'.phase = wk.phase /\ wk'.stream = wk.stream /\ wk'.todo = wk.todo
        /\ wk'.pc = wk.pc
    BY <1>0, <2>1 DEF WorkerType
  <2> QED
    BY <2>1, <2>2 DEF ReclaimInv
<1>3. CASE Ack
  <2> DEFINE q == queue[wk.stream]
  <2> DEFINE p == XAck(q, wk.entry)
  <2>1. queue' = [queue EXCEPT ![wk.stream] = p] /\ Goes("del") /\ wk.pc \in {"ack", "drop"}
    BY <1>3 DEF Ack
  <2>2. p.pel = q.pel \ {wk.entry}
    BY DEF XAck
  <2>3. Stays("del")
    BY <2>1, WorkerMove
  <2> HIDE DEF p
  <2>4. queue'[wk.stream] = p /\ \A n \in Streams \ {wk.stream} : queue'[n] = queue[n]
    BY <1>0, <2>1, OneStream
  <2>5. queue'["analyses"].pel = IF wk.stream = "analyses" THEN queue["analyses"].pel \ {wk.entry}
                                 ELSE queue["analyses"].pel
    BY <1>0, <2>2, <2>4
  <2>6. wk.phase = "main" /\ ~wk.stopping => queue'["analyses"].pel = {}
    BY <2>1, <2>5 DEF ReclaimInv
  <2> QED
    BY <2>1, <2>3, <2>5, <2>6 DEF ReclaimInv, Stays
<1>4. CASE Del
  <2> DEFINE q == queue[wk.stream]
  <2> DEFINE p == XDel(q, wk.entry)
  <2>1. queue' = [queue EXCEPT ![wk.stream] = p] /\ Return /\ wk.pc = "del"
    BY <1>4 DEF Del
  <2>2. p.pel = q.pel
    BY <1>0, XDelViews
  <2>3. wk.entry \notin q.pel
    BY <2>1 DEF LifeInv, HandOK
  <2> HIDE DEF p
  <2>4. queue'[wk.stream] = p /\ \A n \in Streams \ {wk.stream} : queue'[n] = queue[n]
    BY <1>0, <2>1, OneStream
  <2>5. queue'["analyses"].pel = queue["analyses"].pel
    BY <1>0, <2>2, <2>4
  <2>6. /\ wk'.phase = wk.phase /\ wk'.stream = wk.stream /\ wk'.stopping = wk.stopping
        /\ wk.phase # "main" => wk'.todo = wk.todo \ {wk.entry}
    BY <2>1, WorkerMove
  <2>7. wk.phase = "main" /\ ~wk.stopping => queue'["analyses"].pel = {}
    BY <2>1, <2>5 DEF ReclaimInv, HandlingPC
  <2>8. wk.phase = "analyses" => queue'["analyses"].pel \subseteq wk.todo \ {wk.entry}
    BY <2>1, <2>3, <2>5 DEF ReclaimInv
  <2>9. wk.phase = "songs" => queue'["analyses"].pel = {}
    BY <2>5 DEF ReclaimInv
  <2> QED
    BY <2>6, <2>7, <2>8, <2>9 DEF ReclaimInv
<1> QED
  BY <1>1, <1>2, <1>3, <1>4

LEMMA ReclaimStep ==
  ASSUME Inv, LifeInv, SweepsAll, ReclaimInv, [Next]_vars
  PROVE  ReclaimInv'
<1>1. ASSUME NEW r \in Requests, RequestStep(r) PROVE ReclaimInv'
  <2>1. RequestForm(r) /\ UNCHANGED wk
    BY <1>1, RequestTakesForm
  <2>2. "analyses" \in Streams /\ WellFormed(queue["analyses"], JobsOf("analyses"))
    BY WorkerFacts
  <2>3. queue'["analyses"].pel = queue["analyses"].pel
    <3>1. CASE UNCHANGED queue
      BY <3>1
    <3>2. ASSUME NEW name \in Streams, NEW job \in Job, Enters(r, name, job)
          PROVE  queue'["analyses"].pel = queue["analyses"].pel
      BY <2>2, <3>2, PublishViews DEF Enters
    <3>3. ASSUME NEW id \in Nat, Removes(r, id)
          PROVE  queue'["analyses"].pel = queue["analyses"].pel
      <4> DEFINE p == XDel(queue["analyses"], id)
      <4>1. queue' = [queue EXCEPT !["analyses"] = p]
        BY <3>3 DEF Removes
      <4>2. p.pel = queue["analyses"].pel
        BY <2>2, XDelViews
      <4> HIDE DEF p
      <4> QED
        BY <2>2, <4>1, <4>2, OneStream
    <3> QED
      BY <2>1, <3>1, <3>2, <3>3 DEF RequestForm, Waits, Claims, Refused, RollsBack, Marks
  <2> QED
    BY <2>1, <2>3 DEF ReclaimInv
<1>2. ASSUME NEW r \in Requests, ApiFault(r) PROVE ReclaimInv'
  BY <1>2 DEF ApiFault, ReclaimInv
<1>3. CASE WorkerStep
  BY <1>3, ReclaimTakes, ReclaimHandles, ReclaimEnds DEF WorkerStep
<1>4. CASE WorkerFault
  <2>1. ~HandlerFault
    BY DEF SweepsAll, HandlerFault, Fault
  <2> QED
    BY <1>4, <2>1, ReclaimHandles, ReclaimEnds DEF WorkerFault
<1>5. CASE UNCHANGED vars
  BY <1>5 DEF vars, ReclaimInv
<1> QED
  BY <1>1, <1>2, <1>3, <1>4, <1>5 DEF Next

(***************************************************************************)
(* A worker that starts long enough after its predecessor, and whose       *)
(* handlers do not raise, has no analysis left pending when it waits for   *)
(* the next: reclaim_stuck_jobs saw to all of them, and process_entry ends *)
(* with the acknowledgement.                                               *)
(***************************************************************************)
THEOREM StartReclaimsAll == SweepsAll => (Spec => []ReclaimedAtStartup)
<1> SUFFICES ASSUME SweepsAll PROVE Spec => []ReclaimedAtStartup
  OBVIOUS
<1>1. Init => Inv /\ LifeInv /\ ReclaimInv
  BY InitOK, LifeInit DEF Init, Down, ReclaimInv
<1>2. Inv /\ LifeInv /\ ReclaimInv /\ [Next]_vars => ReclaimInv'
  BY ReclaimStep
<1>3. Inv /\ ReclaimInv => ReclaimedAtStartup
  BY DEF Inv, WorkerOK, ReclaimInv, ReclaimedAtStartup, WorkerAt, HandlingPC
<1> QED
  BY <1>1, <1>2, <1>3, InvAlways, LifeInvAlways, PTL DEF Spec
=============================================================================
