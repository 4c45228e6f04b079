--------------------------- MODULE JobOrderProofs ---------------------------
(***************************************************************************)
(* LifeInv is an invariant of JobSystem, and what follows of it: a         *)
(* finished analysis is not run again.  The first half says what each      *)
(* command does to the part of a stream the invariants look at.            *)
(***************************************************************************)
EXTENDS JobInvariants, JobSystemProofs

\* Two values of a stream that differ in nothing the invariants look at.
SameStream(p, q) ==
  /\ SameJobs(p, q)
  /\ Recoverable(p) = Recoverable(q)
  /\ p.live = q.live /\ p.pel = q.pel /\ p.last = q.last

\* What can be recovered is in the log.
LEMMA RecoverableLogged ==
  ASSUME NEW J, NEW q, WellFormed(q, J)
  PROVE  /\ Recoverable(q) \subseteq q.live /\ q.live \subseteq 1 .. Len(q.log)
         /\ Len(q.log) \in Nat /\ q.last \in 0 .. Len(q.log)
         /\ q.pel \subseteq 1 .. q.last
<1>1. q.log \in Seq([job : J, times : Nat])
  BY DEF WellFormed, StreamType
<1>2. Len(q.log) \in Nat
  BY <1>1, LenProperties
<1> QED
  BY <1>2 DEF WellFormed, StreamType, Recoverable

\* XADD makes the new entry recoverable.
LEMMA XAddViews ==
  ASSUME NEW J, NEW q, WellFormed(q, J), NEW job \in J
  PROVE  /\ XAdd(q, job).live = q.live \cup {Len(q.log) + 1}
         /\ XAdd(q, job).pel = q.pel /\ XAdd(q, job).last = q.last
         /\ Recoverable(XAdd(q, job)) = Recoverable(q) \cup {Len(q.log) + 1}
<1>1. /\ XAdd(q, job).live = q.live \cup {Len(q.log) + 1}
      /\ XAdd(q, job).pel = q.pel /\ XAdd(q, job).last = q.last
  BY DEF XAdd
<1>2. Len(q.log) + 1 > q.last
  BY RecoverableLogged
<1> QED
  BY <1>1, <1>2 DEF Recoverable

\* Delivery moves entries from one half of the recoverable ones to the other.
LEMMA XReadGroupViews ==
  ASSUME NEW J, NEW q, WellFormed(q, J), NEW i \in q.last .. Len(q.log)
  PROVE  /\ XReadGroup(q, i).live = q.live /\ XReadGroup(q, i).last = i
         /\ XReadGroup(q, i).pel = q.pel \cup {k \in Undelivered(q) : k <= i}
         /\ Recoverable(XReadGroup(q, i)) = Recoverable(q)
<1>1. /\ XReadGroup(q, i).live = q.live /\ XReadGroup(q, i).last = i
      /\ XReadGroup(q, i).pel = q.pel \cup {k \in Undelivered(q) : k <= i}
  BY DEF XReadGroup
<1>2. q.live \subseteq Int /\ q.last \in Int /\ i \in Int /\ q.last <= i
  BY RecoverableLogged
<1> QED
  BY <1>1, <1>2 DEF Recoverable, Undelivered

\* An acknowledged entry cannot be recovered.
LEMMA XAckViews ==
  ASSUME NEW J, NEW q, WellFormed(q, J), NEW i
  PROVE  /\ XAck(q, i).live = q.live /\ XAck(q, i).last = q.last
         /\ XAck(q, i).pel = q.pel \ {i}
         /\ Recoverable(q) \ {i} \subseteq Recoverable(XAck(q, i))
         /\ Recoverable(XAck(q, i)) \subseteq Recoverable(q)
         /\ i \in q.pel => Recoverable(XAck(q, i)) = Recoverable(q) \ {i}
<1>1. /\ XAck(q, i).live = q.live /\ XAck(q, i).last = q.last
      /\ XAck(q, i).pel = q.pel \ {i}
  BY DEF XAck
<1>2. i \in q.pel => ~(i > q.last)
  BY RecoverableLogged
<1> QED
  BY <1>1, <1>2 DEF Recoverable

\* A claim changes nothing but the pending list, by an entry that is gone.
LEMMA XClaimViews ==
  ASSUME NEW J, NEW q, WellFormed(q, J), NEW i \in q.pel
  PROVE  /\ XClaim(q, i).live = q.live /\ XClaim(q, i).last = q.last
         /\ Recoverable(XClaim(q, i)) = Recoverable(q)
<1>1. CASE i \in q.live
  <2>1. /\ XClaim(q, i).live = q.live /\ XClaim(q, i).last = q.last
        /\ XClaim(q, i).pel = q.pel
    BY <1>1 DEF XClaim
  <2> QED
    BY <2>1 DEF Recoverable
<1>2. CASE i \notin q.live
  BY <1>2, XAckViews DEF XClaim, Recoverable
<1> QED
  BY <1>1, <1>2

LEMMA XDelViews ==
  ASSUME NEW J, NEW q, WellFormed(q, J), NEW i
  PROVE  /\ XDel(q, i).live = q.live \ {i}
         /\ XDel(q, i).pel = q.pel /\ XDel(q, i).last = q.last
         /\ Recoverable(XDel(q, i)) = Recoverable(q) \ {i}
<1>1. /\ XDel(q, i).live = q.live \ {i}
      /\ XDel(q, i).pel = q.pel /\ XDel(q, i).last = q.last
  BY DEF XDel, WellFormed, StreamType
<1> QED
  BY <1>1 DEF Recoverable

LEMMA RenameViews ==
  ASSUME NEW J, NEW q, WellFormed(q, J)
  PROVE  SameStream(RenameConsumer(q), q)
BY RenameConsumerOK DEF RenameConsumer, WellFormed, StreamType, SameStream, Recoverable
-----------------------------------------------------------------------------
SameStreams == \A n \in Streams : SameStream(queue'[n], queue[n])

\* A step on one stream: the other stays, this one is the new value.
LEMMA OneStream ==
  ASSUME Inv, NEW name \in Streams, NEW q, queue' = [queue EXCEPT ![name] = q]
  PROVE  /\ queue'[name] = q
         /\ \A n \in Streams \ {name} : queue'[n] = queue[n]
BY DEF Inv, TypeOK

\* A step that leaves the queue alone.
LEMMA StreamsUnchanged ==
  ASSUME UNCHANGED queue
  PROVE  SameStreams
BY DEF SameStreams, SameStream, SameJobs

\* With the same jobs in the log, the same jobs were published.
LEMMA SameLogs ==
  ASSUME Inv, \A n \in Streams : SameJobs(queue'[n], queue[n])
  PROVE  /\ \A a : Published(a)' <=> Published(a)
         /\ \A i, a : IsEntry(i, a)' <=> IsEntry(i, a)
         /\ \A s : NeverPublished(s)' <=> NeverPublished(s)
         /\ wk.pc \in EntryPC => queue'[wk.stream].log[wk.entry].job = JobId
<1>1. "songs" \in Streams /\ "analyses" \in Streams
  BY DEF Streams
<1>2. /\ \A a : Published(a)' <=> Published(a)
      /\ \A i, a : IsEntry(i, a)' <=> IsEntry(i, a)
      /\ \A s : NeverPublished(s)' <=> NeverPublished(s)
  BY <1>1 DEF SameJobs, Published, IsEntry, NeverPublished
<1>3. wk.pc \in EntryPC => queue'[wk.stream].log[wk.entry].job = JobId
  BY WorkerFacts DEF Inv, WorkerOK, SameJobs, JobId, JobAt
<1> QED
  BY <1>2, <1>3

\* Publishing: one entry more on one stream, which can be recovered.
LEMMA PublishViews ==
  ASSUME Inv, NEW name \in Streams, NEW job \in JobsOf(name),
         queue' = [queue EXCEPT ![name] = XAdd(@, job)]
  PROVE  LET id == Len(queue[name].log) + 1 IN
         /\ id \in Nat /\ id # 0
         /\ \A n \in Streams \ {name} : queue'[n] = queue[n]
         /\ Len(queue'[name].log) = id
         /\ JobAt(queue'[name], id) = job
         /\ \A i \in 1 .. Len(queue[name].log) : JobAt(queue'[name], i) = JobAt(queue[name], i)
         /\ queue'[name].live = queue[name].live \cup {id}
         /\ queue'[name].pel = queue[name].pel /\ queue'[name].last = queue[name].last
         /\ Recoverable(queue'[name]) = Recoverable(queue[name]) \cup {id}
<1> DEFINE q == queue[name]
<1> DEFINE J == JobsOf(name)
<1> DEFINE p == XAdd(q, job)
<1>1. WellFormed(q, J)
  BY WorkerFacts
<1>2. queue'[name] = p /\ \A n \in Streams \ {name} : queue'[n] = queue[n]
  BY OneStream
<1> HIDE DEF q, J
<1>3. /\ Len(p.log) = Len(q.log) + 1
      /\ \A i \in 1 .. Len(q.log) : JobAt(p, i) = JobAt(q, i)
      /\ JobAt(p, Len(q.log) + 1) = job
  BY <1>1, XAddOK DEF J
<1>4. /\ p.live = q.live \cup {Len(q.log) + 1}
      /\ p.pel = q.pel /\ p.last = q.last
      /\ Recoverable(p) = Recoverable(q) \cup {Len(q.log) + 1}
  BY <1>1, XAddViews DEF J
<1>5. Len(q.log) \in Nat
  BY <1>1, RecoverableLogged
<1> HIDE DEF p
<1>6. Len(q.log) + 1 \in Nat /\ Len(q.log) + 1 # 0
  BY <1>5
<1> QED
  BY <1>2, <1>3, <1>4, <1>6 DEF q

\* What a request keeps of its entry id.
LEMMA RequestId ==
  ASSUME req \in [Requests -> RequestType], NEW r \in Requests,
         NEW pc, NEW job, NEW id
  PROVE  /\ Goto(r, pc) => req'[r].id = req[r].id
         /\ GotoWith(r, pc, id) => req'[r].id = id
         /\ Finish(r) => req'[r] = Idle
         /\ req' = [req EXCEPT ![r] = [pc |-> pc, job |-> job, id |-> id]] => req'[r].id = id
<1>1. req[r] \in [pc : RequestPC, job : Job \cup {NoJob}, id : Nat]
  BY DEF RequestType
<1>2. Goto(r, pc) => req'[r].id = req[r].id
  BY <1>1 DEF Goto
<1>3. ASSUME GotoWith(r, pc, id) PROVE req'[r].id = id
  <2> DEFINE half == [req[r] EXCEPT !.pc = pc]
  <2>1. half = [pc |-> pc, job |-> req[r].job, id |-> req[r].id]
    BY <1>1
  <2>2. req'[r] = [half EXCEPT !.id = id]
    BY <1>3 DEF GotoWith
  <2> HIDE DEF half
  <2> QED
    BY <2>1, <2>2
<1> QED
  BY <1>2, <1>3 DEF Finish

\* The request r moves from where it is: what it holds then, the others stay.
Moves(r, pc, job, id) ==
  /\ req'[r].pc = pc /\ req'[r].job = job /\ req'[r].id = id
  /\ \A t \in Requests \ {r} : req'[t] = req[t]

LEMMA RequestMove ==
  ASSUME Inv, NEW r \in Requests, NEW pc \in RequestPC, NEW job \in Job, NEW id \in Nat
  PROVE  /\ Goto(r, pc) => Moves(r, pc, req[r].job, req[r].id)
         /\ GotoWith(r, pc, id) => Moves(r, pc, req[r].job, id)
         /\ Finish(r) => Moves(r, "idle", NoJob, 0)
         /\ req' = [req EXCEPT ![r] = [pc |-> pc, job |-> job, id |-> id]] =>
              Moves(r, pc, job, id)
         /\ Begin(r, pc, job) => Moves(r, pc, job, 0) /\ req[r].pc = "idle"
<1>1. req \in [Requests -> RequestType] /\ job \in Job \cup {NoJob} /\ 0 \in Nat
  BY DEF Inv, TypeOK
<1>2. \A t \in Requests \ {r} : Finish(r) => req'[t] = req[t]
  BY <1>1 DEF Finish
<1>3. /\ Goto(r, pc) => Moves(r, pc, req[r].job, req[r].id)
      /\ GotoWith(r, pc, id) => Moves(r, pc, req[r].job, id)
      /\ req' = [req EXCEPT ![r] = [pc |-> pc, job |-> job, id |-> id]] =>
              Moves(r, pc, job, id)
      /\ Finish(r) => Moves(r, "idle", NoJob, 0)
  BY <1>1, <1>2, RequestChange, RequestId DEF Moves, Idle
<1>4. Begin(r, pc, job) => Moves(r, pc, job, 0) /\ req[r].pc = "idle"
  BY <1>1, RequestChange, RequestId DEF Begin, Moves
<1> QED
  BY <1>3, <1>4
-----------------------------------------------------------------------------
\* The parts of LifeInv that look at requests and rows, and what disturbs them.
LEMMA HandUndisturbed ==
  ASSUME Inv, HandOK, UNCHANGED wk,
         \A n \in Streams : queue'[n].pel = queue[n].pel /\ queue'[n].last = queue[n].last,
         \A n \in Streams : queue[n].live \subseteq queue'[n].live
                              \/ (n = "analyses" /\ "cancel" \in Operations)
  PROVE  HandOK'
<1>1. wk.stream \in Streams
  BY WorkerFacts
<1> QED
  BY <1>1 DEF HandOK



\* What the parts of the two invariants say of any state.
LEMMA LifeFacts ==
  ASSUME Inv
  PROVE  /\ status \in [Analyses -> AnalysisStatus \cup {"none"}]
         /\ prep \in [Songs -> PrepStatus \cup {"none"}]
         /\ streamId \in [Analyses -> Nat]
         /\ req \in [Requests -> RequestType]
         /\ known \subseteq Analyses
         /\ \A t \in Requests : /\ req[t].id \in Nat
                                /\ req[t].pc \in AnalysisPC => req[t].job \in Analyses
                                /\ req[t].pc \in PrepPC => req[t].job \in Songs
                                /\ req[t].pc \in RequestPC
         /\ \A a \in Analyses : a \in Job /\ a \notin Songs /\ SongOf[a] \in Songs
         /\ \A s \in Songs : s \in Job
         /\ wk \in WorkerType /\ wk.stream \in Streams
         /\ "analyses" \in Streams /\ "songs" \in Streams
         /\ wk.pc \in EntryPC /\ wk.stream = "analyses" =>
              /\ JobId \in Analyses /\ Published(JobId) /\ SongOf[JobId] \in cached
         /\ wk.pc \in EntryPC /\ wk.stream = "songs" =>
              /\ JobId \in Songs /\ ~NeverPublished(JobId)
         /\ {"run", "finish", "publish"} \cup HandlingPC \cup {"ack", "drop"} \subseteq EntryPC
<1>1. /\ status \in [Analyses -> AnalysisStatus \cup {"none"}]
      /\ prep \in [Songs -> PrepStatus \cup {"none"}]
      /\ streamId \in [Analyses -> Nat]
      /\ req \in [Requests -> RequestType]
      /\ known \subseteq Analyses
      /\ wk \in WorkerType /\ wk.stream \in Streams
      /\ "analyses" \in Streams /\ "songs" \in Streams
  BY WorkerFacts DEF Inv, TypeOK
<1>2. \A t \in Requests : /\ req[t].id \in Nat
                          /\ req[t].pc \in AnalysisPC => req[t].job \in Analyses
                          /\ req[t].pc \in PrepPC => req[t].job \in Songs
                          /\ req[t].pc \in RequestPC
  BY <1>1 DEF Inv, RequestOK, RequestType
<1>3. /\ \A a \in Analyses : a \in Job /\ a \notin Songs /\ SongOf[a] \in Songs
      /\ \A s \in Songs : s \in Job
  BY JobAssumption DEF Job
<1>4. wk.pc \in EntryPC => wk.entry \in 1 .. Len(queue[wk.stream].log) /\ JobId \in JobsOf(wk.stream)
  BY WorkerFacts DEF Inv, WorkerOK
<1>5. /\ wk.pc \in EntryPC /\ wk.stream = "analyses" =>
              /\ JobId \in Analyses /\ Published(JobId) /\ SongOf[JobId] \in cached
      /\ wk.pc \in EntryPC /\ wk.stream = "songs" =>
              /\ JobId \in Songs /\ ~NeverPublished(JobId)
  BY <1>4 DEF JobsOf, Published, NeverPublished, JobId, Inv, ReferenceReady
<1>6. {"run", "finish", "publish"} \cup HandlingPC \cup {"ack", "drop"} \subseteq EntryPC
  BY DEF HandlingPC, EntryPC, WorkerPC
<1> QED
  BY <1>1, <1>2, <1>3, <1>5, <1>6

LEMMA FinishMoves ==
  ASSUME Inv, NEW r \in Requests, Finish(r)
  PROVE  Moves(r, "idle", NoJob, 0)
BY LifeFacts, RequestChange DEF Finish, Moves, Idle

\* A request step that leaves the streams' entries, and the worker, as they are.
LEMMA RequestKeepsWorker ==
  ASSUME Inv, LifeInv, SameStreams, UNCHANGED wk,
         \A a \in Analyses : Published(a) => status'[a] = status[a],
         \A a \in Analyses : status[a] # "none" /\ SongOf[a] \in cached /\ a \in known =>
                               status'[a] # "none",
         \A j \in complete : (j \in Analyses /\ Published(j)) \/ (j \in Songs /\ ~NeverPublished(j))
                               => j \in complete',
         known \subseteq known'
  PROVE  /\ RunOK' /\ HandOK'
         /\ \A b : Published(b)' <=> Published(b)
         /\ \A i, b : IsEntry(i, b)' <=> IsEntry(i, b)
         /\ \A s : NeverPublished(s)' <=> NeverPublished(s)
<1>1. /\ \A b : Published(b)' <=> Published(b)
      /\ \A i, b : IsEntry(i, b)' <=> IsEntry(i, b)
      /\ \A s : NeverPublished(s)' <=> NeverPublished(s)
      /\ wk.pc \in EntryPC => JobId' = JobId
  BY SameLogs DEF SameStreams, SameStream, JobId, JobAt
<1>2. HandOK'
  BY HandUndisturbed DEF SameStreams, SameStream, LifeInv
<1>3. RunOK'
  <2>1. wk.pc = "publish" => \A a \in wk.wake : a \in Analyses /\ SongOf[a] \in cached
    BY LifeFacts DEF Inv, WorkerOK, WorkerType
  <2>2. wk.stream = "analyses" \/ wk.stream = "songs"
    BY LifeFacts DEF Streams
  <2> QED
    BY <1>1, <2>1, <2>2, LifeFacts DEF LifeInv, RunOK
<1> QED
  BY <1>1, <1>2, <1>3

\* A request moves on and no row changes.
LEMMA QuietLife ==
  ASSUME Inv, LifeInv, NEW r \in Requests, NEW pc \in RequestPC, NEW job, NEW id,
         Moves(r, pc, job, id), SameStreams,
         UNCHANGED <<status, streamId, known, wk>>,
         \A s \in PreparedAtStart : prep'[s] = prep[s],
         \A j \in complete : j \in complete',
         pc \notin {"set_id", "remove_entry", "retry_add"},
         pc \in NewRowPC =>
           \/ /\ req[r].pc \in NewRowPC /\ job = req[r].job
              /\ pc \in {"admit", "rollback"} <=> req[r].pc \in {"admit", "rollback"}
           \/ /\ pc \notin {"admit", "rollback"} /\ job \in Analyses
              /\ status[job] = "none" /\ job \notin known /\ ~InFlight(job),
         pc \in RetryPC => job \in known,
         pc # "idle" /\ job \in Analyses =>
           (req[r].pc # "idle" /\ job = req[r].job) \/ ~InFlight(job) \/ job \in known,
         pc \in {"create_waiting", "retry_waiting"} => SongOf[job] \notin PreparedAtStart
  PROVE  LifeInv'
<1>1. /\ RunOK' /\ HandOK'
      /\ \A b : Published(b)' <=> Published(b)
      /\ \A i, b : IsEntry(i, b)' <=> IsEntry(i, b)
      /\ \A s : NeverPublished(s)' <=> NeverPublished(s)
  BY RequestKeepsWorker
<1>2. EnqueueOK'
  <2> SUFFICES ASSUME NEW t \in Requests, req'[t].pc \in NewRowPC
               PROVE  /\ req'[t].job \notin known
                      /\ ~Published(req'[t].job)
                      /\ req'[t].pc \in {"admit", "rollback"} => status[req'[t].job] = "queued"
                      /\ req'[t].pc \notin {"admit", "rollback"} => status[req'[t].job] = "none"
                      /\ \A u \in Requests :
                           req'[u].pc # "idle" /\ req'[u].job = req'[t].job => u = t
    BY <1>1 DEF EnqueueOK
  <2>1. CASE t = r
    <3>1. CASE req[r].pc \in NewRowPC /\ job = req[r].job
      BY <2>1, <3>1 DEF LifeInv, EnqueueOK, Moves, NewRowPC
    <3>2. CASE ~(req[r].pc \in NewRowPC /\ job = req[r].job)
      BY <2>1, <3>2 DEF LifeInv, RowOK, Moves, InFlight
    <3> QED
      BY <3>1, <3>2
  <2>2. CASE t # r
    <3>1. req[t] = req'[t] /\ req[t].job \in Analyses
      BY <2>2, LifeFacts DEF Moves, NewRowPC, AnalysisPC
    <3>2. \A u \in Requests : req[u].pc # "idle" /\ req[u].job = req[t].job => u = t
      BY <3>1 DEF LifeInv, EnqueueOK
    <3>3. req[t].job \notin known /\ InFlight(req[t].job)
      BY <3>1 DEF LifeInv, EnqueueOK, InFlight, NewRowPC
    <3>4. ~(pc # "idle" /\ job = req[t].job)
      BY <2>2, <3>1, <3>2, <3>3
    <3> QED
      BY <2>2, <3>1, <3>2, <3>4 DEF LifeInv, EnqueueOK, Moves
  <2> QED
    BY <2>1, <2>2
<1>3. RetryOK'
  BY DEF LifeInv, RetryOK, Moves
<1>4. EntryIdOK'
  BY <1>1 DEF LifeInv, EntryIdOK, Moves
<1>5. RowOK'
  BY <1>1 DEF LifeInv, RowOK
<1>6. PreparedOK'
  BY <1>1 DEF LifeInv, PreparedOK, Moves
<1> QED
  BY <1>1, <1>2, <1>3, <1>4, <1>5, <1>6 DEF LifeInv

\* Enqueue, up to the row and with it.
LEMMA EnqueueLife ==
  ASSUME Inv, LifeInv, NEW r \in Requests,
         \/ \E a \in Analyses : EnqueueStart(r, a)
         \/ EnqueuePrecheck(r) \/ EnqueueCreate(r) \/ EnqueueCreateWaiting(r)
  PROVE  LifeInv'
<1> USE DEF unchangedWorker, At
<1>1. ASSUME NEW a \in Analyses, EnqueueStart(r, a) PROVE LifeInv'
  <2> DEFINE pc == IF ReadyForAnalysis(SongOf[a]) THEN "precheck" ELSE "create_waiting"
  <2>1. pc \in {"precheck", "create_waiting"} /\ pc \in RequestPC
    BY DEF RequestPC
  <2>2. pc = "create_waiting" => SongOf[a] \notin PreparedAtStart
    BY DEF LifeInv, PreparedOK, ReadyForAnalysis
  <2>3. /\ UNCHANGED <<status, streamId, known, prep, queue, wk, complete, cached, faults>>
        /\ Begin(r, pc, a) /\ status[a] = "none" /\ a \notin known /\ ~InFlight(a)
    BY <1>1 DEF EnqueueStart
  <2> HIDE DEF pc
  <2>4. Moves(r, pc, a, 0)
    BY <2>1, <2>3, LifeFacts, RequestMove
  <2> QED
    BY <2>1, <2>2, <2>3, <2>4, StreamsUnchanged, QuietLife DEF NewRowPC, RetryPC
<1>2. CASE EnqueuePrecheck(r)
  <2> DEFINE a == req[r].job
  <2>1. /\ UNCHANGED <<status, streamId, known, prep, queue, wk, complete, cached, faults>>
        /\ req[r].pc = "precheck" /\ a \in Analyses /\ a \in Job /\ req[r].id \in Nat
        /\ Goto(r, "create") \/ Finish(r)
    BY <1>2, LifeFacts DEF EnqueuePrecheck, AnalysisPC
  <2>2. SameStreams
    BY <2>1, StreamsUnchanged
  <2>3. {"create", "idle"} \subseteq RequestPC
    BY DEF RequestPC
  <2>4. CASE Goto(r, "create")
    <3>1. Moves(r, "create", a, req[r].id)
      BY <2>1, <2>3, <2>4, RequestMove
    <3> QED
      BY <2>1, <2>2, <2>3, <3>1, QuietLife DEF NewRowPC, RetryPC
  <2>5. CASE Finish(r)
    <3>1. Moves(r, "idle", NoJob, 0)
      BY <2>1, <2>3, <2>5, RequestMove
    <3> QED
      BY <2>1, <2>2, <2>3, <3>1, QuietLife DEF NewRowPC, RetryPC
  <2> QED
    BY <2>1, <2>4, <2>5
<1>3. CASE EnqueueCreate(r)
  <2> DEFINE a == req[r].job
  <2>1. /\ req[r].pc = "create" /\ status' = [status EXCEPT ![a] = "queued"]
        /\ UNCHANGED <<streamId, known, prep, queue, wk, complete, cached, faults>>
        /\ a \in Analyses /\ a \in Job /\ req[r].id \in Nat /\ "admit" \in RequestPC
    BY <1>3, LifeFacts DEF EnqueueCreate, AnalysisPC, RequestPC
  <2>2. Moves(r, "admit", a, req[r].id)
    BY <1>3, <2>1, RequestMove DEF EnqueueCreate
  <2>3. SameStreams
    BY <2>1, StreamsUnchanged
  <2>4. ~Published(a) /\ a \notin known
    BY <2>1 DEF LifeInv, EnqueueOK, NewRowPC
  <2>5. \A b \in Analyses : status'[b] = IF b = a THEN "queued" ELSE status[b]
    BY <2>1, LifeFacts
  <2>6. /\ RunOK' /\ HandOK'
        /\ \A b : Published(b)' <=> Published(b)
        /\ \A i, b : IsEntry(i, b)' <=> IsEntry(i, b)
        /\ \A s : NeverPublished(s)' <=> NeverPublished(s)
    BY <2>1, <2>3, <2>4, <2>5, RequestKeepsWorker
  <2> HIDE DEF a
  <2>7. EnqueueOK'
    BY <2>1, <2>2, <2>5, <2>6, LifeFacts DEF LifeInv, EnqueueOK, Moves, NewRowPC, AnalysisPC, a
  <2>8. RetryOK'
    BY <2>1, <2>2, <2>5, LifeFacts DEF LifeInv, RetryOK, Moves, RetryPC, AnalysisPC
  <2>9. EntryIdOK'
    BY <2>1, <2>2, <2>6 DEF LifeInv, EntryIdOK, Moves
  <2>10. RowOK'
    BY <2>1, <2>5, <2>6 DEF LifeInv, RowOK
  <2>11. PreparedOK'
    BY <2>1, <2>2, <2>5, <2>6 DEF LifeInv, PreparedOK, Moves
  <2> QED
    BY <2>6, <2>7, <2>8, <2>9, <2>10, <2>11 DEF LifeInv
<1>4. CASE EnqueueCreateWaiting(r)
  <2> DEFINE a == req[r].job
  <2>1. /\ req[r].pc = "create_waiting" /\ Finish(r)
        /\ UNCHANGED <<streamId, prep, queue, wk, complete, cached, faults>>
        /\ a \in Analyses /\ a \in Job /\ "idle" \in RequestPC /\ 0 \in Nat
    BY <1>4, LifeFacts DEF EnqueueCreateWaiting, AnalysisPC, RequestPC
  <2>2. Moves(r, "idle", NoJob, 0)
    BY <2>1, RequestMove
  <2>3. SameStreams
    BY <2>1, StreamsUnchanged
  <2>4. CASE prep[SongOf[a]] = "none"
    <3>1. UNCHANGED <<status, known>>
      BY <1>4, <2>4 DEF EnqueueCreateWaiting
    <3> QED
      BY <2>1, <2>2, <2>3, <3>1, QuietLife DEF NewRowPC, RetryPC
  <2>5. CASE prep[SongOf[a]] # "none"
    <3>1. /\ status' = [status EXCEPT ![a] = "waiting_for_reference"]
          /\ known' = known \cup {a}
      BY <1>4, <2>5 DEF EnqueueCreateWaiting
    <3>2. ~Published(a) /\ a \notin known /\ SongOf[a] \notin PreparedAtStart
      BY <2>1 DEF LifeInv, EnqueueOK, PreparedOK, NewRowPC
    <3>3. \A b \in Analyses : status'[b] = IF b = a THEN "waiting_for_reference" ELSE status[b]
      BY <3>1, LifeFacts
    <3>4. /\ RunOK' /\ HandOK'
          /\ \A b : Published(b)' <=> Published(b)
          /\ \A i, b : IsEntry(i, b)' <=> IsEntry(i, b)
          /\ \A s : NeverPublished(s)' <=> NeverPublished(s)
      BY <2>1, <2>3, <3>1, <3>2, <3>3, RequestKeepsWorker
    <3>5. \A t \in Requests \ {r} : req[t].pc # "idle" => req[t].job # a
      BY <2>1 DEF LifeInv, EnqueueOK, NewRowPC
    <3> HIDE DEF a
    <3>7. EnqueueOK'
      BY <2>1, <2>2, <3>1, <3>3, <3>4, <3>5, LifeFacts DEF LifeInv, EnqueueOK, Moves, NewRowPC, AnalysisPC
    <3>8. RetryOK'
      BY <2>1, <2>2, <3>1, <3>3, LifeFacts DEF LifeInv, RetryOK, Moves, RetryPC, AnalysisPC
    <3>9. EntryIdOK'
      BY <2>1, <2>2, <3>4 DEF LifeInv, EntryIdOK, Moves
    <3>10. RowOK'
      BY <2>1, <3>1, <3>2, <3>3, <3>4 DEF LifeInv, RowOK
    <3>11. PreparedOK'
      BY <2>1, <2>2, <3>2, <3>3, <3>4 DEF LifeInv, PreparedOK, Moves
    <3> QED
      BY <3>4, <3>7, <3>8, <3>9, <3>10, <3>11 DEF LifeInv
  <2> QED
    BY <2>4, <2>5
<1> QED
  BY <1>1, <1>2, <1>3, <1>4

\* A new entry: what was published before, what is now, what the worker holds.
LEMMA NewEntry ==
  ASSUME Inv, NEW name \in Streams, NEW job \in JobsOf(name),
         queue' = [queue EXCEPT ![name] = XAdd(@, job)]
  PROVE  /\ \A i, b : IsEntry(i, b) => IsEntry(i, b)'
         /\ \A b : Published(b)' <=> Published(b) \/ (name = "analyses" /\ b = job)
         /\ \A s : NeverPublished(s)' <=> NeverPublished(s) /\ ~(name = "songs" /\ s = job)
         /\ wk.pc \in EntryPC => queue'[wk.stream].log[wk.entry].job = JobId
         /\ \A n \in Streams : /\ queue'[n].pel = queue[n].pel /\ queue'[n].last = queue[n].last
                               /\ queue[n].live \subseteq queue'[n].live
<1> DEFINE id == Len(queue[name].log) + 1
<1>1. /\ id \in Nat /\ id # 0
      /\ \A n \in Streams \ {name} : queue'[n] = queue[n]
      /\ Len(queue'[name].log) = id
      /\ JobAt(queue'[name], id) = job
      /\ \A i \in 1 .. Len(queue[name].log) : JobAt(queue'[name], i) = JobAt(queue[name], i)
      /\ queue'[name].live = queue[name].live \cup {id}
      /\ queue'[name].pel = queue[name].pel /\ queue'[name].last = queue[name].last
  BY PublishViews
<1>2. Len(queue[name].log) \in Nat /\ id = Len(queue[name].log) + 1
  BY WorkerFacts
<1> HIDE DEF id
<1>3. 1 .. id = (1 .. Len(queue[name].log)) \cup {id}
  BY <1>1, <1>2
<1>4. "songs" \in Streams /\ "analyses" \in Streams /\ wk.stream \in Streams
  BY WorkerFacts
<1>5. name = "analyses" \/ name = "songs"
  BY DEF Streams
<1>6. \A i, b : IsEntry(i, b) => IsEntry(i, b)'
  BY <1>1, <1>3, <1>4 DEF IsEntry
<1>7. \A b : Published(b)' <=> Published(b) \/ (name = "analyses" /\ b = job)
  BY <1>1, <1>3, <1>4 DEF Published
<1>8. \A s : NeverPublished(s)' <=> NeverPublished(s) /\ ~(name = "songs" /\ s = job)
  BY <1>1, <1>3, <1>4 DEF NeverPublished
<1>9. wk.pc \in EntryPC => queue'[wk.stream].log[wk.entry].job = JobId
  <2>1. wk.pc \in EntryPC => wk.entry \in 1 .. Len(queue[wk.stream].log)
    BY DEF Inv, WorkerOK
  <2> QED
    BY <1>1, <1>4, <2>1 DEF JobId, JobAt
<1> QED
  BY <1>1, <1>6, <1>7, <1>8, <1>9

\* The parts of LifeInv about the worker, when a request publishes.
LEMMA PublishKeepsWorker ==
  ASSUME Inv, LifeInv, NEW name \in Streams, NEW job \in JobsOf(name),
         queue' = [queue EXCEPT ![name] = XAdd(@, job)],
         UNCHANGED <<wk, status, complete, known>>
  PROVE  RunOK' /\ HandOK'
<1>1. /\ \A n \in Streams : /\ queue'[n].pel = queue[n].pel /\ queue'[n].last = queue[n].last
                            /\ queue[n].live \subseteq queue'[n].live
      /\ wk.pc \in EntryPC => JobId' = JobId
  BY NewEntry DEF JobId, JobAt
<1>2. HandOK'
  BY <1>1, HandUndisturbed DEF LifeInv
<1>3. RunOK'
  BY <1>1, LifeFacts DEF LifeInv, RunOK
<1> QED
  BY <1>2, <1>3

\* Enqueue and Retry publish.
LEMMA PublishLife ==
  ASSUME Inv, LifeInv, NEW r \in Requests, req[r].pc \in {"admit", "retry_add"},
         Publish("analyses", req[r].job), GotoWith(r, "set_id", NextId("analyses")),
         UNCHANGED <<status, streamId, known, prep, wk, complete>>
  PROVE  LifeInv'
<1>a. req[r].job \in Analyses /\ NextId("analyses") \in Nat /\ "analyses" \in Streams
  BY LifeFacts, WorkerFacts DEF AnalysisPC, NextId
<1>b. PICK a \in Analyses, id \in Nat :
        a = req[r].job /\ id = Len(queue["analyses"].log) + 1 /\ GotoWith(r, "set_id", id)
  BY <1>a DEF NextId
<1>1. a \in Job /\ JobsOf("analyses") = Analyses
  BY LifeFacts DEF JobsOf
<1>2. queue' = [queue EXCEPT !["analyses"] = XAdd(@, a)]
  BY <1>b DEF Publish
<1>3. id # 0 /\ IsEntry(id, a)'
  <2>1. Len(queue'["analyses"].log) = id /\ JobAt(queue'["analyses"], id) = a /\ id # 0
    BY <1>a, <1>b, <1>1, <1>2, PublishViews
  <2> QED
    BY <2>1 DEF IsEntry
<1>4. Moves(r, "set_id", a, id)
  BY <1>a, <1>b, <1>1, RequestMove DEF RequestPC
<1>5. /\ \A i, b : IsEntry(i, b) => IsEntry(i, b)'
      /\ \A b : Published(b)' <=> Published(b) \/ b = a
      /\ \A s : NeverPublished(s)' <=> NeverPublished(s)
  BY <1>a, <1>1, <1>2, NewEntry
<1>6. RunOK' /\ HandOK'
  BY <1>a, <1>1, <1>2, PublishKeepsWorker
<1>7. status[a] # "none"
  BY <1>b DEF LifeInv, EnqueueOK, RetryOK, NewRowPC
<1>8. EnqueueOK'
  <2> SUFFICES ASSUME NEW t \in Requests, req'[t].pc \in NewRowPC
               PROVE  /\ req'[t].job \notin known
                      /\ ~(Published(req[t].job)')
                      /\ req'[t].pc \in {"admit", "rollback"} => status[req'[t].job] = "queued"
                      /\ req'[t].pc \notin {"admit", "rollback"} => status[req'[t].job] = "none"
                      /\ \A u \in Requests :
                           req'[u].pc # "idle" /\ req'[u].job = req'[t].job => u = t
    BY DEF EnqueueOK
  <2>1. t # r /\ req'[t] = req[t]
    BY <1>4 DEF Moves, NewRowPC
  <2>2. /\ req[t].job \notin known /\ ~Published(req[t].job)
        /\ req[t].pc \in {"admit", "rollback"} => status[req[t].job] = "queued"
        /\ req[t].pc \notin {"admit", "rollback"} => status[req[t].job] = "none"
        /\ \A u \in Requests : req[u].pc # "idle" /\ req[u].job = req[t].job => u = t
    BY <2>1 DEF LifeInv, EnqueueOK
  <2>3. req[t].job # a
    BY <1>b, <2>1, <2>2
  <2>4. \A b : Published(b)' <=> Published(b) \/ b = a
    BY <1>5
  <2>5. ~(Published(req[t].job)')
    BY <2>1, <2>2, <2>3, <2>4
  <2> QED
    BY <1>4, <2>1, <2>2, <2>3, <2>5 DEF Moves
<1>9. RetryOK'
  BY <1>4 DEF LifeInv, RetryOK, Moves, RetryPC
<1>10. EntryIdOK'
  BY <1>3, <1>4, <1>5 DEF LifeInv, EntryIdOK, Moves
<1>11. RowOK'
  BY <1>5, <1>7 DEF LifeInv, RowOK
<1>12. PreparedOK'
  BY <1>4, <1>5 DEF LifeInv, PreparedOK, Moves
<1> QED
  BY <1>6, <1>8, <1>9, <1>10, <1>11, <1>12 DEF LifeInv

\* The API publishes a preparation.
LEMMA PrepPublishLife ==
  ASSUME Inv, LifeInv, NEW r \in Requests, req[r].pc \in {"prep_admit", "prep_add"},
         Publish("songs", req[r].job), Finish(r),
         UNCHANGED <<status, streamId, known, prep, wk, complete>>
  PROVE  LifeInv'
<1>a. req[r].job \in Songs
  BY LifeFacts DEF PrepPC
<1>b. PICK s \in Songs : s = req[r].job
  BY <1>a
<1>1. s \in Job /\ NoJob \in Job \cup {NoJob} /\ "songs" \in Streams /\ JobsOf("songs") = Songs
  BY LifeFacts DEF JobsOf
<1>2. queue' = [queue EXCEPT !["songs"] = XAdd(@, s)]
  BY <1>b DEF Publish
<1>3. Moves(r, "idle", NoJob, 0)
  BY <1>1, RequestMove DEF RequestPC
<1>4. /\ \A i, b : IsEntry(i, b) => IsEntry(i, b)'
      /\ \A b : Published(b)' <=> Published(b)
      /\ \A u : NeverPublished(u)' <=> NeverPublished(u) /\ u # s
  BY <1>1, <1>2, NewEntry
<1>5. RunOK' /\ HandOK'
  BY <1>1, <1>2, PublishKeepsWorker
<1>6. s \notin PreparedAtStart
  BY <1>b DEF LifeInv, PreparedOK, Inv, SongOK, NewSongPC
<1>7. EnqueueOK'
  BY <1>3, <1>4 DEF LifeInv, EnqueueOK, Moves, NewRowPC
<1>8. RetryOK'
  BY <1>3 DEF LifeInv, RetryOK, Moves, RetryPC
<1>9. EntryIdOK'
  BY <1>3, <1>4 DEF LifeInv, EntryIdOK, Moves
<1>10. RowOK'
  BY <1>4 DEF LifeInv, RowOK
<1>11. PreparedOK'
  BY <1>3, <1>4, <1>6 DEF LifeInv, PreparedOK, Moves
<1> QED
  BY <1>5, <1>7, <1>8, <1>9, <1>10, <1>11 DEF LifeInv

\* A request changes one row, which no other request has just created.
LEMMA RowLife ==
  ASSUME Inv, LifeInv, NEW r \in Requests, NEW a \in Analyses,
         NEW pc \in {"idle", "remove_entry", "retry_add"}, NEW job, NEW id,
         Moves(r, pc, job, id), pc # "idle" => job = a,
         SameStreams, UNCHANGED <<prep, wk, complete>>,
         \A b \in Analyses \ {a} : status'[b] = status[b] /\ streamId'[b] = streamId[b],
         \/ status'[a] = status[a]
         \/ /\ status[a] # "processing"
            /\ status'[a] \in {"queued", "canceled", "waiting_for_reference", "none"}
            /\ status'[a] = "none" => ~Published(a) /\ a \notin known
            /\ status'[a] = "waiting_for_reference" =>
                 a \in known /\ SongOf[a] \notin PreparedAtStart,
         streamId'[a] # 0 => IsEntry(streamId'[a], a),
         pc = "remove_entry" => IsEntry(id, a) /\ "cancel" \in Operations /\ a \in known,
         pc = "retry_add" => a \in known /\ status'[a] # "none",
         known \subseteq known', known' \subseteq known \cup {a},
         \A t \in Requests : req[t].pc \in NewRowPC /\ req[t].job = a => t = r
  PROVE  LifeInv'
<1>1. /\ \A b : Published(b)' <=> Published(b)
      /\ \A i, b : IsEntry(i, b)' <=> IsEntry(i, b)
      /\ \A s : NeverPublished(s)' <=> NeverPublished(s)
      /\ wk.pc \in EntryPC => JobId' = JobId
  BY SameLogs DEF SameStreams, SameStream, JobId, JobAt
<1>2. HandOK'
  BY HandUndisturbed DEF SameStreams, SameStream, LifeInv
<1>3. RunOK'
  <2>1. wk.pc = "publish" => \A b \in wk.wake : b \in Analyses
    BY LifeFacts DEF WorkerType
  <2> QED
    BY <1>1, <2>1, LifeFacts DEF LifeInv, RunOK
<1>4. EnqueueOK'
  <2> SUFFICES ASSUME NEW t \in Requests, req'[t].pc \in NewRowPC
               PROVE  /\ req'[t].job \notin known'
                      /\ ~Published(req'[t].job)
                      /\ req'[t].pc \in {"admit", "rollback"} => status'[req'[t].job] = "queued"
                      /\ req'[t].pc \notin {"admit", "rollback"} => status'[req'[t].job] = "none"
                      /\ \A u \in Requests :
                           req'[u].pc # "idle" /\ req'[u].job = req'[t].job => u = t
    BY <1>1 DEF EnqueueOK
  <2>1. t # r /\ req'[t] = req[t] /\ req[t].job \in Analyses
    BY LifeFacts DEF Moves, NewRowPC, AnalysisPC
  <2>2. req[t].job # a
    BY <2>1
  <2> QED
    BY <2>1, <2>2 DEF LifeInv, EnqueueOK, Moves
<1>5. RetryOK'
  <2> SUFFICES ASSUME NEW t \in Requests, req'[t].pc \in RetryPC
               PROVE  /\ req'[t].job \in known'
                      /\ req'[t].pc = "retry_add" => status'[req'[t].job] # "none"
    BY DEF RetryOK, RetryPC
  <2>1. CASE t = r
    BY <2>1 DEF Moves, RetryPC
  <2>2. CASE t # r
    <3>1. req'[t] = req[t] /\ req[t].job \in Analyses
      BY <2>2, LifeFacts DEF Moves, RetryPC, AnalysisPC
    <3> QED
      BY <3>1 DEF LifeInv, RetryOK
  <2> QED
    BY <2>1, <2>2
<1>6. EntryIdOK'
  BY <1>1 DEF LifeInv, EntryIdOK, Moves
<1>7. RowOK'
  BY <1>1 DEF LifeInv, RowOK
<1>8. PreparedOK'
  BY <1>1 DEF LifeInv, PreparedOK, Moves
<1> QED
  BY <1>2, <1>3, <1>4, <1>5, <1>6, <1>7, <1>8 DEF LifeInv

\* The end of Enqueue, Cancel, and Retry.
LEMMA EnqueueEndLife ==
  ASSUME Inv, LifeInv, NEW r \in Requests,
         EnqueueAdmit(r) \/ EnqueueRollback(r) \/ SetQueueStreamID(r)
  PROVE  LifeInv'
<1> USE DEF unchangedWorker, At
<1>a. /\ req[r].job \in Analyses /\ req[r].id \in Nat
      /\ UNCHANGED <<prep, wk, complete, cached>>
  BY LifeFacts DEF EnqueueAdmit, EnqueueRollback, SetQueueStreamID, AnalysisPC
<1>b. PICK a \in Analyses, id \in Nat : a = req[r].job /\ id = req[r].id
  BY <1>a
<1>c. {"rollback", "idle"} \subseteq RequestPC /\ a \in Job
  BY LifeFacts DEF RequestPC
<1>1. CASE EnqueueAdmit(r)
  <2>1. CASE HasRoom("analyses")
    BY <1>1, <2>1, PublishLife DEF EnqueueAdmit
  <2>2. CASE ~HasRoom("analyses")
    <3>1. /\ Goto(r, "rollback") /\ req[r].pc = "admit"
          /\ UNCHANGED <<queue, status, streamId, known, prep, wk, complete, cached>>
      BY <1>1, <2>2 DEF EnqueueAdmit
    <3>2. Moves(r, "rollback", a, id)
      BY <1>b, <1>c, <3>1, RequestMove
    <3> QED
      BY <1>b, <1>c, <3>1, <3>2, StreamsUnchanged, QuietLife DEF NewRowPC, RetryPC
  <2> QED
    BY <2>1, <2>2
<1>2. CASE EnqueueRollback(r)
  <2>1. /\ req[r].pc = "rollback" /\ status' = [status EXCEPT ![a] = "none"]
        /\ Finish(r) /\ UNCHANGED <<streamId, known, queue>>
    BY <1>2, <1>b DEF EnqueueRollback
  <2>2. Moves(r, "idle", NoJob, 0)
    BY <1>c, <2>1, RequestMove
  <2>3. SameStreams
    BY <2>1, StreamsUnchanged
  <2>4. /\ status[a] = "queued" /\ ~Published(a) /\ a \notin known
        /\ \A t \in Requests : req[t].pc # "idle" /\ req[t].job = a => t = r
        /\ streamId[a] # 0 => IsEntry(streamId[a], a)
    BY <1>b, <2>1 DEF LifeInv, EnqueueOK, NewRowPC, EntryIdOK
  <2>5. \A b \in Analyses : status'[b] = IF b = a THEN "none" ELSE status[b]
    BY <2>1, LifeFacts
  <2> QED
    BY <1>a, <2>1, <2>2, <2>3, <2>4, <2>5, RowLife DEF NewRowPC
<1>3. CASE SetQueueStreamID(r)
  <2>1. req[r].pc = "set_id" /\ Finish(r) /\ UNCHANGED <<status, queue>>
    BY <1>3 DEF SetQueueStreamID
  <2>2. Moves(r, "idle", NoJob, 0)
    BY <1>c, <2>1, RequestMove
  <2>3. SameStreams
    BY <2>1, StreamsUnchanged
  <2>4. CASE status[a] = "none"
    <3>1. UNCHANGED <<streamId, known>>
      BY <1>3, <1>b, <2>4 DEF SetQueueStreamID
    <3> QED
      BY <1>a, <2>1, <2>2, <2>3, <3>1, QuietLife DEF NewRowPC, RetryPC, RequestPC
  <2>5. CASE status[a] # "none"
    <3>1. streamId' = [streamId EXCEPT ![a] = id] /\ known' = known \cup {a}
      BY <1>3, <1>b, <2>5 DEF SetQueueStreamID
    <3>2. IsEntry(id, a)
      BY <1>b, <2>1 DEF LifeInv, EntryIdOK
    <3>3. \A b \in Analyses : streamId'[b] = IF b = a THEN id ELSE streamId[b]
      BY <3>1, LifeFacts
    <3>4. \A t \in Requests : req[t].pc \in NewRowPC /\ req[t].job = a => t = r
      BY <1>b, <2>1 DEF LifeInv, EnqueueOK, NewRowPC
    <3> QED
      BY <1>a, <2>1, <2>2, <2>3, <3>1, <3>2, <3>3, <3>4, RowLife
  <2> QED
    BY <2>4, <2>5
<1> QED
  BY <1>1, <1>2, <1>3

LEMMA CancelLife ==
  ASSUME Inv, LifeInv, NEW r \in Requests,
         (\E a \in Analyses : Cancel(r, a)) \/ CancelRemove(r)
  PROVE  LifeInv'
<1> USE DEF unchangedWorker, At
<1>1. ASSUME NEW a \in Analyses, Cancel(r, a) PROVE LifeInv'
  <2>1. /\ "cancel" \in Operations /\ a \in known
        /\ status[a] \in {"queued", "waiting_for_reference"} /\ req[r].pc = "idle"
        /\ SetStatus({a}, "canceled")
        /\ UNCHANGED <<streamId, known, prep, queue, wk, complete, cached>>
    BY <1>1 DEF Cancel, Cancelable
  <2>2. SameStreams
    BY <2>1, StreamsUnchanged
  <2>3. \A b \in Analyses : status'[b] = IF b = a THEN "canceled" ELSE status[b]
    BY <2>1 DEF SetStatus
  <2>4. \A t \in Requests : req[t].pc \in NewRowPC => req[t].job # a
    BY <2>1 DEF LifeInv, EnqueueOK
  <2>5. streamId[a] # 0 => IsEntry(streamId[a], a)
    BY DEF LifeInv, EntryIdOK
  <2>6. streamId[a] \in Nat /\ a \in Job /\ req \in [Requests -> RequestType]
    BY LifeFacts
  <2>7. CASE streamId[a] = 0
    <3>1. UNCHANGED req
      BY <1>1, <2>7 DEF Cancel
    <3>2. Moves(r, "idle", req[r].job, req[r].id)
      BY <2>1, <3>1 DEF Moves
    <3> QED
      BY <2>1, <2>2, <2>3, <2>4, <2>5, <3>2, RowLife
  <2>8. CASE streamId[a] # 0
    <3>1. req' = [req EXCEPT ![r] = [pc |-> "remove_entry", job |-> a, id |-> streamId[a]]]
      BY <1>1, <2>8 DEF Cancel
    <3>2. Moves(r, "remove_entry", a, streamId[a])
      BY <2>6, <3>1, RequestMove DEF RequestPC
    <3> QED
      BY <2>1, <2>2, <2>3, <2>4, <2>5, <2>8, <3>2, RowLife
  <2> QED
    BY <2>7, <2>8
<1>2. CASE CancelRemove(r)
  <2> DEFINE q == queue["analyses"]
  <2>1. /\ req[r].pc = "remove_entry" /\ Finish(r)
        /\ UNCHANGED <<status, streamId, known, prep, wk, complete, cached>>
        /\ "analyses" \in Streams
    BY <1>2, LifeFacts DEF CancelRemove
  <2>2. PICK id \in Nat : id = req[r].id
    BY LifeFacts
  <2>3. queue' = [queue EXCEPT !["analyses"] = XDel(q, id)]
    BY <1>2, <2>2 DEF CancelRemove
  <2>4. WellFormed(q, JobsOf("analyses"))
    BY WorkerFacts
  <2> HIDE DEF q
  <2>5. /\ XDel(q, id).live = q.live \ {id}
        /\ XDel(q, id).pel = q.pel /\ XDel(q, id).last = q.last
        /\ SameJobs(XDel(q, id), q)
    BY <2>4, XDelViews, XDelOK
  <2>6. \A n \in Streams : IF n = "analyses" THEN queue'[n] = XDel(q, id) ELSE queue'[n] = queue[n]
    BY <2>1, <2>3, OneStream
  <2>7. \A n \in Streams : SameJobs(queue'[n], queue[n])
    BY <2>5, <2>6 DEF q, SameJobs
  <2>8. "cancel" \in Operations
    BY <2>1 DEF LifeInv, EntryIdOK
  <2>9. HandOK'
    BY <2>1, <2>5, <2>6, <2>8, HandUndisturbed DEF q, LifeInv
  <2>10. /\ \A b : Published(b)' <=> Published(b)
         /\ \A i, b : IsEntry(i, b)' <=> IsEntry(i, b)
         /\ \A s : NeverPublished(s)' <=> NeverPublished(s)
         /\ wk.pc \in EntryPC => JobId' = JobId
    BY <2>1, <2>7, SameLogs DEF JobId, JobAt
  <2>11. RunOK'
    BY <2>1, <2>10, LifeFacts DEF LifeInv, RunOK
  <2>12. Moves(r, "idle", NoJob, 0)
    BY <2>1, FinishMoves
  <2>13. EnqueueOK' /\ RetryOK'
    BY <2>1, <2>10, <2>12 DEF LifeInv, EnqueueOK, RetryOK, Moves, NewRowPC, RetryPC
  <2>14. EntryIdOK' /\ RowOK' /\ PreparedOK'
    BY <2>1, <2>10, <2>12 DEF LifeInv, EntryIdOK, RowOK, PreparedOK, Moves
  <2> QED
    BY <2>9, <2>11, <2>13, <2>14 DEF LifeInv
<1> QED
  BY <1>1, <1>2

LEMMA RetryLife ==
  ASSUME Inv, LifeInv, NEW r \in Requests,
         \/ \E a \in Analyses : RetryStart(r, a)
         \/ RetryPrecheck(r) \/ RetryUpdate(r) \/ RetryAdd(r) \/ RetryToWaitingForReference(r)
  PROVE  LifeInv'
<1> USE DEF unchangedWorker, At
<1>0. /\ {"idle", "retry_update", "retry_add", "retry_precheck", "retry_waiting"} \subseteq RequestPC
      /\ \A a \in Analyses : a \in Job
  BY LifeFacts DEF RequestPC
<1>1. ASSUME NEW a \in Analyses, RetryStart(r, a) PROVE LifeInv'
  <2> DEFINE pc == IF ReadyForAnalysis(SongOf[a]) THEN "retry_precheck" ELSE "retry_waiting"
  <2>1. pc \in {"retry_precheck", "retry_waiting"} /\ pc \in RequestPC
    BY DEF RequestPC
  <2>2. pc = "retry_waiting" => SongOf[a] \notin PreparedAtStart
    BY DEF LifeInv, PreparedOK, ReadyForAnalysis
  <2>3. /\ UNCHANGED <<status, streamId, known, prep, queue, wk, complete>>
        /\ Begin(r, pc, a) /\ a \in known
    BY <1>1 DEF RetryStart
  <2> HIDE DEF pc
  <2>4. Moves(r, pc, a, 0)
    BY <1>0, <2>1, <2>3, RequestMove
  <2> QED
    BY <2>1, <2>2, <2>3, <2>4, StreamsUnchanged, QuietLife DEF NewRowPC, RetryPC
<1>2. CASE RetryAdd(r)
  BY <1>2, PublishLife DEF RetryAdd
<1>3. ASSUME RetryPrecheck(r) \/ RetryUpdate(r) \/ RetryToWaitingForReference(r)
      PROVE  LifeInv'
  <2>1. /\ req[r].job \in Analyses /\ req[r].id \in Nat /\ req[r].pc \in RetryPC
        /\ UNCHANGED <<known, prep, queue, wk, complete>> /\ SameStreams
    BY <1>3, LifeFacts, StreamsUnchanged
    DEF RetryPrecheck, RetryUpdate, RetryToWaitingForReference, AnalysisPC, RetryPC
  <2>2. PICK a \in Analyses, id \in Nat : a = req[r].job /\ id = req[r].id
    BY <2>1
  <2>3. Moves(r, "idle", NoJob, 0) \/ ~Finish(r)
    BY <1>0, <2>2, RequestMove
  <2>4. ASSUME Finish(r), UNCHANGED <<status, streamId>> PROVE LifeInv'
    <3> QED
      BY <1>0, <2>1, <2>3, <2>4, QuietLife DEF NewRowPC, RetryPC
  <2>5. a \in known /\ \A t \in Requests : req[t].pc \in NewRowPC => req[t].job # a
    BY <2>1, <2>2 DEF LifeInv, RetryOK, EnqueueOK
  <2>6. ASSUME NEW new, ResetFailed(a, new)
        PROVE  /\ \A b \in Analyses \ {a} : status'[b] = status[b] /\ streamId'[b] = streamId[b]
               /\ status'[a] = new /\ streamId'[a] = 0
    BY <2>6, LifeFacts DEF ResetFailed
  <2>7. CASE RetryPrecheck(r)
    <3>1. req[r].pc = "retry_precheck" /\ UNCHANGED <<status, streamId>>
          /\ (Finish(r) \/ Goto(r, "retry_update"))
      BY <2>7 DEF RetryPrecheck
    <3>2. CASE Goto(r, "retry_update")
      <4>1. Moves(r, "retry_update", a, id)
        BY <1>0, <2>2, <3>2, RequestMove
      <4> QED
        BY <1>0, <2>1, <2>2, <2>5, <3>1, <4>1, QuietLife DEF NewRowPC, RetryPC
    <3> QED
      BY <2>4, <3>1, <3>2
  <2>8. CASE RetryUpdate(r) /\ status[a] = "failed"
    <3>1. ResetFailed(a, "queued") /\ Goto(r, "retry_add")
      BY <2>2, <2>8 DEF RetryUpdate, Retryable
    <3>2. Moves(r, "retry_add", a, id)
      BY <1>0, <2>2, <3>1, RequestMove
    <3>3. /\ \A b \in Analyses \ {a} : status'[b] = status[b] /\ streamId'[b] = streamId[b]
          /\ status'[a] = "queued" /\ streamId'[a] = 0
      BY <2>6, <3>1
    <3> QED
      BY <2>1, <2>5, <2>8, <3>2, <3>3, RowLife
  <2>9. CASE RetryToWaitingForReference(r) /\ status[a] = "failed"
    <3>1. ResetFailed(a, "waiting_for_reference") /\ Finish(r) /\ req[r].pc = "retry_waiting"
      BY <2>2, <2>9 DEF RetryToWaitingForReference, Retryable
    <3>2. /\ \A b \in Analyses \ {a} : status'[b] = status[b] /\ streamId'[b] = streamId[b]
          /\ status'[a] = "waiting_for_reference" /\ streamId'[a] = 0
      BY <2>6, <3>1
    <3>3. SongOf[a] \notin PreparedAtStart
      BY <2>2, <3>1 DEF LifeInv, PreparedOK
    <3> QED
      BY <2>1, <2>3, <2>5, <2>9, <3>1, <3>2, <3>3, RowLife
  <2>10. CASE (RetryUpdate(r) \/ RetryToWaitingForReference(r)) /\ status[a] # "failed"
    BY <2>2, <2>4, <2>10 DEF RetryUpdate, RetryToWaitingForReference, Retryable
  <2> QED
    BY <1>3, <2>7, <2>8, <2>9, <2>10
<1> QED
  BY <1>1, <1>2, <1>3 DEF RetryPrecheck

\* The rollback of a full queue takes analyses nobody has published.
LEMMA SongRollbackLife ==
  ASSUME Inv, LifeInv, NEW r \in Requests, EnqueuePrepRollback(r)
  PROVE  LifeInv'
<1>a. req[r].job \in Songs
  BY LifeFacts DEF EnqueuePrepRollback, At, PrepPC
<1>b. PICK s \in Songs : s = req[r].job
  BY <1>a
<1>1. /\ req[r].pc = "prep_rollback" /\ Finish(r)
      /\ prep' = [prep EXCEPT ![s] = "none"]
      /\ cached' = cached \ {s}
      /\ complete' = complete \ ({s} \cup {a \in Analyses : SongOf[a] = s})
      /\ status' = [a \in Analyses |-> IF SongOf[a] = s THEN "none" ELSE status[a]]
      /\ UNCHANGED <<streamId, known, queue, wk>>
  BY <1>b DEF EnqueuePrepRollback, At
<1>2. s \notin cached /\ NeverPublished(s) /\ s \notin PreparedAtStart
  <2>1. s \notin cached /\ NeverPublished(s) /\ prep[s] = "pending"
    BY <1>b, <1>1 DEF Inv, SongOK, NewSongPC
  <2> QED
    BY <2>1 DEF LifeInv, PreparedOK
<1>3. \A a \in Analyses : SongOf[a] = s => ~Published(a)
  BY <1>2 DEF Inv, ReferenceReady, Published
<1>4. /\ RunOK' /\ HandOK'
      /\ \A b : Published(b)' <=> Published(b)
      /\ \A i, b : IsEntry(i, b)' <=> IsEntry(i, b)
      /\ \A u : NeverPublished(u)' <=> NeverPublished(u)
  <2>1. SameStreams
    BY <1>1, StreamsUnchanged
  <2>2. \A a \in Analyses : Published(a) => status'[a] = status[a]
    BY <1>1, <1>3
  <2>3. \A a \in Analyses : status[a] # "none" /\ SongOf[a] \in cached => status'[a] # "none"
    BY <1>1, <1>2
  <2>4. \A j \in complete : (j \in Analyses /\ Published(j)) \/ (j \in Songs /\ ~NeverPublished(j))
                              => j \in complete'
    BY <1>1, <1>2, <1>3, LifeFacts
  <2> QED
    BY <1>1, <2>1, <2>2, <2>3, <2>4, RequestKeepsWorker
<1>5. Moves(r, "idle", NoJob, 0)
  BY <1>1, <1>b, RequestMove, LifeFacts DEF RequestPC
<1>6. \A t \in Requests : req[t].pc \in CheckedPC => SongOf[req[t].job] # s
  BY <1>2 DEF Inv, RequestOK
<1>7. \A a \in Analyses : status'[a] = IF SongOf[a] = s THEN "none" ELSE status[a]
  BY <1>1
<1>8. EnqueueOK'
  <2> SUFFICES ASSUME NEW t \in Requests, req'[t].pc \in NewRowPC
               PROVE  /\ req'[t].job \notin known
                      /\ ~Published(req'[t].job)
                      /\ req'[t].pc \in {"admit", "rollback"} => status'[req'[t].job] = "queued"
                      /\ req'[t].pc \notin {"admit", "rollback"} => status'[req'[t].job] = "none"
                      /\ \A u \in Requests :
                           req'[u].pc # "idle" /\ req'[u].job = req'[t].job => u = t
    BY <1>1, <1>4 DEF EnqueueOK
  <2>1. t # r /\ req'[t] = req[t] /\ req[t].job \in Analyses
    BY <1>5, LifeFacts DEF Moves, NewRowPC, AnalysisPC
  <2> QED
    BY <1>5, <1>6, <1>7, <2>1 DEF LifeInv, EnqueueOK, Moves, CheckedPC, NewRowPC
<1>9. RetryOK'
  <2> SUFFICES ASSUME NEW t \in Requests, req'[t].pc \in RetryPC
               PROVE  /\ req'[t].job \in known
                      /\ req'[t].pc = "retry_add" => status'[req'[t].job] # "none"
    BY <1>1 DEF RetryOK, RetryPC
  <2>1. t # r /\ req'[t] = req[t] /\ req[t].job \in Analyses
    BY <1>5, LifeFacts DEF Moves, RetryPC, AnalysisPC
  <2> QED
    BY <1>6, <1>7, <2>1 DEF LifeInv, RetryOK, CheckedPC
<1>10. EntryIdOK'
  BY <1>1, <1>4, <1>5 DEF LifeInv, EntryIdOK, Moves
<1>11. RowOK'
  BY <1>1, <1>3, <1>4, <1>7, LifeFacts DEF LifeInv, RowOK
<1>12. PreparedOK'
  <2>1. \A u \in PreparedAtStart : prep'[u] = prep[u]
    BY <1>1, <1>2, LifeFacts, JobAssumption
  <2> QED
    BY <1>1, <1>4, <1>5, <1>7, <2>1 DEF LifeInv, PreparedOK, Moves
<1> QED
  BY <1>4, <1>8, <1>9, <1>10, <1>11, <1>12 DEF LifeInv

LEMMA SongRequestLife ==
  ASSUME Inv, LifeInv, NEW r \in Requests, SongRequest(r)
  PROVE  LifeInv'
<1> USE DEF unchangedWorker, At
<1>0. /\ {"idle", "prep_admit", "prep_rollback", "prep_reset", "prep_add"} \subseteq RequestPC
      /\ \A s \in Songs : s \in Job /\ s \notin Analyses
      /\ prep \in [Songs -> PrepStatus \cup {"none"}]
  BY LifeFacts, JobAssumption DEF RequestPC
<1>q. ASSUME NEW s \in Songs, NEW id \in Nat,
             NEW pc \in {"prep_admit", "prep_rollback", "prep_reset", "prep_add"},
             Moves(r, pc, s, id), \A u \in PreparedAtStart : prep'[u] = prep[u],
             UNCHANGED <<status, streamId, known, queue, wk, complete>>
      PROVE  LifeInv'
  <2>1. pc \in RequestPC /\ SameStreams
    BY <1>0, <1>q, StreamsUnchanged
  <2> QED
    BY <1>0, <1>q, <2>1, QuietLife DEF NewRowPC, RetryPC
<1>i. ASSUME Finish(r), UNCHANGED <<status, streamId, known, prep, queue, wk, complete>>
      PROVE  LifeInv'
  <2>1. Moves(r, "idle", NoJob, 0)
    BY <1>i, LifeFacts, RequestChange DEF Finish, Moves, Idle
  <2> QED
    BY <1>0, <1>i, <2>1, StreamsUnchanged, QuietLife DEF NewRowPC, RetryPC
<1>1. ASSUME NEW s \in Songs, AddSong(r, s) PROVE LifeInv'
  <2>1. /\ prep[s] = "none" /\ prep' = [prep EXCEPT ![s] = "pending"]
        /\ Begin(r, "prep_admit", s)
        /\ UNCHANGED <<status, streamId, known, queue, wk, complete>>
    BY <1>1 DEF AddSong
  <2>2. \A u \in PreparedAtStart : prep'[u] = prep[u]
    BY <1>0, <2>1 DEF LifeInv, PreparedOK
  <2>3. Moves(r, "prep_admit", s, 0)
    BY <1>0, <2>1, RequestMove
  <2> QED
    BY <1>q, <2>1, <2>2, <2>3
<1>2. ASSUME NEW s \in Songs, RetryPrepStart(r, s) PROVE LifeInv'
  <2>1. /\ Begin(r, "prep_reset", s)
        /\ UNCHANGED <<status, streamId, known, prep, queue, wk, complete>>
    BY <1>2 DEF RetryPrepStart
  <2>2. Moves(r, "prep_reset", s, 0)
    BY <1>0, <2>1, RequestMove
  <2> QED
    BY <1>q, <2>1, <2>2
<1>3. CASE EnqueuePrep(r)
  <2>1. CASE HasRoom("songs")
    BY <1>3, <2>1, PrepPublishLife DEF EnqueuePrep
  <2>2. CASE ~HasRoom("songs")
    <3>1. /\ Goto(r, "prep_rollback") /\ req[r].pc = "prep_admit"
          /\ UNCHANGED <<queue, status, streamId, known, prep, wk, complete>>
      BY <1>3, <2>2 DEF EnqueuePrep
    <3>2. req[r].job \in Songs /\ req[r].id \in Nat
      BY <3>1, LifeFacts DEF PrepPC
    <3>3. Moves(r, "prep_rollback", req[r].job, req[r].id)
      BY <1>0, <3>1, <3>2, RequestMove
    <3> QED
      BY <1>q, <3>1, <3>2, <3>3
  <2> QED
    BY <2>1, <2>2
<1>4. CASE RetryPrepReset(r)
  <2>1. /\ req[r].pc = "prep_reset" /\ UNCHANGED <<status, streamId, known, queue, wk, complete>>
        /\ req[r].job \in Songs /\ req[r].id \in Nat
    BY <1>4, LifeFacts DEF RetryPrepReset, PrepPC
  <2>2. PICK s \in Songs, id \in Nat : s = req[r].job /\ id = req[r].id
    BY <2>1
  <2>3. CASE prep[s] = "failed"
    <3>1. SetPrep(s, "pending") /\ Goto(r, "prep_add")
      BY <1>4, <2>2, <2>3 DEF RetryPrepReset
    <3>2. \A u \in PreparedAtStart : prep'[u] = prep[u]
      BY <2>3, <3>1, JobAssumption DEF SetPrep, LifeInv, PreparedOK
    <3>3. Moves(r, "prep_add", s, id)
      BY <1>0, <2>2, <3>1, RequestMove
    <3> QED
      BY <1>q, <2>1, <3>2, <3>3
  <2>4. CASE prep[s] # "failed"
    BY <1>4, <1>i, <2>1, <2>2, <2>4 DEF RetryPrepReset
  <2> QED
    BY <2>3, <2>4
<1>5. CASE RetryPrepAdd(r)
  BY <1>5, PrepPublishLife DEF RetryPrepAdd
<1> QED
  BY <1>1, <1>2, <1>3, <1>4, <1>5, SongRollbackLife DEF SongRequest, EnqueuePrepRollback

\* Every request, and one that stops half-way.
LEMMA RequestLife ==
  ASSUME Inv, LifeInv, NEW r \in Requests, RequestStep(r) \/ ApiFault(r)
  PROVE  LifeInv'
<1>1. CASE AnalysisRequest(r)
  BY <1>1, EnqueueLife, EnqueueEndLife, CancelLife, RetryLife DEF AnalysisRequest
<1>2. CASE SongRequest(r)
  BY <1>2, SongRequestLife
<1>3. CASE ApiFault(r)
  <2>1. Finish(r) /\ UNCHANGED <<status, streamId, known, prep, queue, wk, complete>>
    BY <1>3 DEF ApiFault
  <2>2. Moves(r, "idle", NoJob, 0) /\ "idle" \in RequestPC
    BY <2>1, LifeFacts, RequestChange DEF Finish, Moves, Idle, RequestPC
  <2> QED
    BY <2>1, <2>2, StreamsUnchanged, QuietLife DEF NewRowPC, RetryPC
<1> QED
  BY <1>1, <1>2, <1>3 DEF RequestStep
-----------------------------------------------------------------------------
\* The worker goes on with the entry it has.
Stays(pc) ==
  /\ wk'.pc = pc /\ wk'.phase = wk.phase /\ wk'.stream = wk.stream /\ wk'.entry = wk.entry
  /\ wk'.todo = wk.todo /\ wk'.wake = wk.wake /\ wk'.stopping = wk.stopping

\* The worker has no entry after the step.
IdlePC == {"down", "reclaim", "loop"}

LEMMA WorkerMove ==
  ASSUME Inv, NEW pc
  PROVE  /\ Goes(pc) => Stays(pc)
         /\ Return => /\ wk'.pc \in {"loop", "reclaim"} /\ wk'.stopping = wk.stopping
                      /\ wk'.stream = wk.stream /\ wk'.phase = wk.phase
                      /\ wk'.wake = wk.wake /\ wk'.entry = wk.entry
                      /\ wk.phase = "main" => wk'.pc = "loop"
                      /\ wk.phase # "main" => wk'.pc = "reclaim" /\ wk'.todo = wk.todo \ {wk.entry}
<1>1. wk \in WorkerType
  BY LifeFacts
<1>2. Goes(pc) => Stays(pc)
  BY <1>1 DEF Goes, Stays, WorkerType
<1>3. ASSUME Return, wk.phase = "main"
      PROVE  /\ wk'.pc = "loop" /\ wk'.stopping = wk.stopping
             /\ wk'.stream = wk.stream /\ wk'.phase = wk.phase
             /\ wk'.wake = wk.wake /\ wk'.entry = wk.entry
  BY <1>1, <1>3 DEF Return, WorkerType
<1>4. ASSUME Return, wk.phase # "main"
      PROVE  /\ wk'.pc = "reclaim" /\ wk'.stopping = wk.stopping
             /\ wk'.stream = wk.stream /\ wk'.phase = wk.phase
             /\ wk'.wake = wk.wake /\ wk'.entry = wk.entry
             /\ wk'.todo = wk.todo \ {wk.entry}
  <2> DEFINE rest == wk.todo \ {wk.entry}
  <2>1. wk' = [wk EXCEPT !.pc = "reclaim", !.todo = rest]
    BY <1>4 DEF Return
  <2> HIDE DEF rest
  <2>2. /\ wk'.pc = "reclaim" /\ wk'.stopping = wk.stopping
        /\ wk'.stream = wk.stream /\ wk'.phase = wk.phase
        /\ wk'.wake = wk.wake /\ wk'.entry = wk.entry /\ wk'.todo = rest
    BY <1>1, <2>1 DEF WorkerType
  <2> QED
    BY <2>2 DEF rest
<1> QED
  BY <1>2, <1>3, <1>4

\* What the worker does to rows and streams, as far as requests depend on it.
LEMMA WorkerKeepsRequests ==
  ASSUME Inv, LifeInv, UNCHANGED <<req, known, streamId>>,
         \A n \in Streams : SameJobs(queue'[n], queue[n]),
         NEW ids, NEW new \in {"queued", "processing", "done", "failed"},
         SetStatus(ids, new) \/ UNCHANGED status,
         \A a \in Analyses : a \in ids =>
           /\ Published(a) \/ (new \in {"queued", "failed"} /\ status[a] = "waiting_for_reference")
           /\ new = "done" => a \in complete,
         complete \subseteq complete',
         \A s \in PreparedAtStart : prep'[s] = prep[s],
         wk'.pc = "publish" => \A a \in wk'.wake : SongOf[a] \notin PreparedAtStart
  PROVE  EnqueueOK' /\ RetryOK' /\ EntryIdOK' /\ RowOK' /\ PreparedOK'
<1>1. /\ \A b : Published(b)' <=> Published(b)
      /\ \A i, b : IsEntry(i, b)' <=> IsEntry(i, b)
      /\ \A s : NeverPublished(s)' <=> NeverPublished(s)
  BY SameLogs
<1>2. \A a \in Analyses :
        \/ status'[a] = status[a]
        \/ a \in ids /\ status'[a] = new /\ status[a] # "none"
  BY DEF SetStatus
<1>3. \A t \in Requests : req[t].pc \in NewRowPC => status'[req[t].job] = status[req[t].job]
  <2> SUFFICES ASSUME NEW t \in Requests, req[t].pc \in NewRowPC
               PROVE  status'[req[t].job] = status[req[t].job]
    OBVIOUS
  <2>1. req[t].job \in Analyses
    BY LifeFacts DEF NewRowPC, AnalysisPC
  <2>2. ~Published(req[t].job) /\ req[t].job \notin known
    BY DEF LifeInv, EnqueueOK
  <2> QED
    BY <1>2, <2>1, <2>2 DEF LifeInv, RowOK
<1>4. EnqueueOK'
  BY <1>1, <1>3 DEF LifeInv, EnqueueOK
<1>5. RetryOK'
  <2>1. \A t \in Requests : req[t].pc = "retry_add" => req[t].job \in Analyses
    BY LifeFacts DEF AnalysisPC
  <2> QED
    BY <1>2, <2>1 DEF LifeInv, RetryOK
<1>6. EntryIdOK'
  BY <1>1 DEF LifeInv, EntryIdOK
<1>7. RowOK'
  BY <1>1, <1>2 DEF LifeInv, RowOK
<1>8. PreparedOK'
  BY <1>1, <1>2 DEF LifeInv, PreparedOK
<1> QED
  BY <1>4, <1>5, <1>6, <1>7, <1>8

\* The worker drops what it had.
LEMMA DroppedLife ==
  ASSUME Inv, LifeInv, UNCHANGED <<req, known, streamId, status, complete>>,
         \A n \in Streams : SameJobs(queue'[n], queue[n]),
         \A s \in PreparedAtStart : prep'[s] = prep[s],
         wk'.pc \in IdlePC, wk'.stopping => "stop" \in Faults
  PROVE  LifeInv'
<1>1. EnqueueOK' /\ RetryOK' /\ EntryIdOK' /\ RowOK' /\ PreparedOK'
  <2> DEFINE none == {}
  <2>1. \A a \in Analyses : a \notin none
    OBVIOUS
  <2> HIDE DEF none
  <2>2. "queued" \in {"queued", "processing", "done", "failed"}
    OBVIOUS
  <2>3. wk'.pc # "publish"
    BY DEF IdlePC
  <2> QED
    BY <2>1, <2>2, <2>3, WorkerKeepsRequests
<1>2. RunOK' /\ HandOK'
  BY DEF RunOK, HandOK, IdlePC, HandlingPC
<1> QED
  BY <1>1, <1>2 DEF LifeInv

\* The worker goes on with the same entry, having written some rows.
LEMMA StaysLife ==
  ASSUME Inv, LifeInv, UNCHANGED <<req, known, streamId, queue>>,
         NEW ids, NEW new \in {"queued", "processing", "done", "failed"},
         SetStatus(ids, new) \/ UNCHANGED status,
         \A a \in Analyses : a \in ids =>
           /\ Published(a) \/ (new \in {"queued", "failed"} /\ status[a] = "waiting_for_reference")
           /\ new = "done" => a \in complete,
         complete \subseteq complete',
         \A s \in PreparedAtStart : prep'[s] = prep[s],
         wk.pc \in HandlingPC, NEW pc \in (HandlingPC \ {"delivered", "publish"}) \cup {"ack", "drop"},
         Stays(pc),
         pc = "run" /\ wk.stream = "analyses" => status'[JobId] = "processing",
         pc = "finish" => JobId \in complete'
  PROVE  LifeInv'
<1>1. EnqueueOK' /\ RetryOK' /\ EntryIdOK' /\ RowOK' /\ PreparedOK'
  <2>1. \A n \in Streams : SameJobs(queue'[n], queue[n])
    BY DEF SameJobs
  <2> QED
    BY <2>1, WorkerKeepsRequests DEF Stays, HandlingPC
<1>2. JobId' = JobId
  BY DEF JobId, Stays
<1>3. RunOK'
  BY <1>2 DEF RunOK, Stays, HandlingPC
<1>4. HandOK'
  BY DEF LifeInv, HandOK, Stays, HandlingPC
<1> QED
  BY <1>1, <1>3, <1>4 DEF LifeInv

\* The worker writes the row of the song it is at, which no one has prepared before.
LEMMA WorkerPrep ==
  ASSUME Inv, LifeInv, wk.pc \in EntryPC, wk.stream = "songs", NEW new, SetPrep(JobId, new)
  PROVE  \A s \in PreparedAtStart : prep'[s] = prep[s]
<1>1. ~NeverPublished(JobId)
  BY LifeFacts
<1> QED
  BY <1>1, JobAssumption DEF SetPrep, LifeInv, PreparedOK

\* The worker goes on without writing any analysis.
LEMMA StaysQuietly ==
  ASSUME Inv, LifeInv, UNCHANGED <<req, known, streamId, queue, status>>,
         complete \subseteq complete',
         \A s \in PreparedAtStart : prep'[s] = prep[s],
         wk.pc \in HandlingPC, NEW pc \in (HandlingPC \ {"delivered", "publish"}) \cup {"ack", "drop"},
         Goes(pc), ~(pc = "run" /\ wk.stream = "analyses"),
         pc = "finish" => JobId \in complete'
  PROVE  LifeInv'
<1> DEFINE none == {}
<1>1. \A a \in Analyses : a \notin none
  OBVIOUS
<1> HIDE DEF none
<1>2. "queued" \in {"queued", "processing", "done", "failed"}
  OBVIOUS
<1>3. Stays(pc)
  BY WorkerMove
<1> QED
  BY <1>1, <1>2, <1>3, StaysLife

\* The worker goes on having written the row of the analysis it is at.
LEMMA StaysAnalysis ==
  ASSUME Inv, LifeInv, UNCHANGED <<req, known, streamId, queue, prep, complete>>,
         wk.pc \in HandlingPC, wk.stream = "analyses",
         NEW new \in {"processing", "done", "failed"}, SetStatus({JobId}, new),
         new = "done" => JobId \in complete,
         NEW pc \in {"run", "ack", "drop"}, Goes(pc), pc = "run" => new = "processing"
  PROVE  LifeInv'
<1>1. Stays(pc)
  BY WorkerMove
<1>2. JobId \in Analyses /\ Published(JobId)
  BY LifeFacts DEF HandlingPC
<1>3. status[JobId] # "none"
  BY <1>2 DEF LifeInv, RowOK
<1>4. status'[JobId] = new
  BY <1>2, <1>3 DEF SetStatus
<1>5. pc \in (HandlingPC \ {"delivered", "publish"}) \cup {"ack", "drop"}
  BY DEF HandlingPC
<1>6. new \in {"queued", "processing", "done", "failed"} /\ pc # "finish"
  OBVIOUS
<1> DEFINE ids == {JobId}
<1>7. SetStatus(ids, new) /\ \A a \in Analyses : a \in ids => a = JobId
  OBVIOUS
<1> HIDE DEF ids
<1> QED
  BY <1>1, <1>2, <1>4, <1>5, <1>6, <1>7, StaysLife

\* The worker takes up an entry.
LEMMA TakesLife ==
  ASSUME Inv, LifeInv, UNCHANGED <<req, known, streamId, status, prep, complete>>,
         \A n \in Streams : SameJobs(queue'[n], queue[n]),
         wk'.pc \in {"delivered", "handle", "give_up", "drop"}, wk'.stopping => wk.stopping,
         wk'.entry \in queue'[wk'.stream].pel,
         wk'.pc # "drop" => wk'.entry \in queue'[wk'.stream].live
  PROVE  LifeInv'
<1> DEFINE none == {}
<1>1. \A a \in Analyses : a \notin none
  OBVIOUS
<1> HIDE DEF none
<1>2. "queued" \in {"queued", "processing", "done", "failed"}
  OBVIOUS
<1>3. EnqueueOK' /\ RetryOK' /\ EntryIdOK' /\ RowOK' /\ PreparedOK'
  BY <1>1, <1>2, WorkerKeepsRequests
<1>4. RunOK' /\ HandOK'
  BY DEF LifeInv, RunOK, HandOK, HandlingPC
<1> QED
  BY <1>3, <1>4 DEF LifeInv

LEMMA StartLife ==
  ASSUME Inv, LifeInv, Start \/ ReclaimNext \/ Exit \/ Crash
  PROVE  LifeInv'
<1> USE DEF unchangedAPI, unchangedTables, WorkerAt
<1>1. UNCHANGED <<req, known, streamId, status, prep, complete>>
  BY DEF Start, ReclaimNext, Exit, Crash
<1>2. \A n \in Streams : SameJobs(queue'[n], queue[n])
  <2>1. CASE Start
    <3>1. \A n \in Streams : SameJobs(RenameConsumer(queue[n]), queue[n])
      BY WorkerFacts, RenameConsumerOK
    <3>2. \A n \in Streams : queue'[n] \in {queue[n], RenameConsumer(queue[n])}
      BY <2>1 DEF Start
    <3> QED
      BY <3>1, <3>2 DEF SameJobs
  <2>2. CASE ~Start
    BY <2>2, StreamsUnchanged DEF ReclaimNext, Exit, Crash, SameStreams, SameStream
  <2> QED
    BY <2>1, <2>2
<1>3. wk'.pc \in IdlePC /\ (wk'.stopping => wk.stopping)
  <2>1. CASE Start
    BY <2>1 DEF Start, Down, IdlePC
  <2>2. CASE ReclaimNext
    <3>1. wk.pc = "reclaim" /\ wk \in WorkerType
      BY <2>2, LifeFacts DEF ReclaimNext
    <3>2. \/ \E stuck : wk' = [wk EXCEPT !.phase = "songs", !.stream = "songs", !.todo = stuck]
          \/ wk' = [wk EXCEPT !.phase = "main", !.pc = "loop"]
      BY <2>2 DEF ReclaimNext
    <3> QED
      BY <3>1, <3>2 DEF IdlePC, WorkerType
  <2>3. CASE Exit \/ Crash
    BY <2>3 DEF Exit, Crash, Down, IdlePC
  <2> QED
    BY <2>1, <2>2, <2>3
<1>4. wk'.stopping => "stop" \in Faults
  BY <1>3 DEF LifeInv, HandOK
<1> QED
  BY <1>1, <1>2, <1>3, <1>4, DroppedLife

LEMMA ReclaimEntryLife ==
  ASSUME Inv, LifeInv, ReclaimEntry
  PROVE  LifeInv'
<1> USE DEF unchangedAPI, unchangedTables, WorkerAt
<1> DEFINE q == queue[wk.stream]
<1>1. PICK i \in wk.todo :
        IF GivesUp(q.log[i].times)
        THEN /\ wk' = [wk EXCEPT !.entry = i, !.pc = IF i \in q.live THEN "give_up" ELSE "drop"]
             /\ UNCHANGED queue
        ELSE /\ queue' = [queue EXCEPT ![wk.stream] = XClaim(q, i)]
             /\ wk' = IF i \in q.live
                      THEN [wk EXCEPT !.entry = i, !.pc = "handle"]
                      ELSE [wk EXCEPT !.todo = @ \ {i}]
  BY DEF ReclaimEntry
<1>2. /\ wk.pc = "reclaim" /\ wk.todo \subseteq q.pel /\ i \in q.pel
      /\ wk \in WorkerType /\ wk.stream \in Streams
      /\ UNCHANGED <<req, known, streamId, status, prep, complete>>
  BY <1>1, LifeFacts DEF ReclaimEntry, Inv, WorkerOK
<1>3. CASE GivesUp(q.log[i].times)
  <2> DEFINE pc == IF i \in q.live THEN "give_up" ELSE "drop"
  <2>1. wk' = [wk EXCEPT !.entry = i, !.pc = pc] /\ UNCHANGED queue
    BY <1>1, <1>3
  <2>2. pc \in {"give_up", "drop"} /\ (pc # "drop" => i \in q.live)
    OBVIOUS
  <2> HIDE DEF pc
  <2>3. wk'.pc = pc /\ wk'.entry = i /\ wk'.stream = wk.stream /\ wk'.stopping = wk.stopping
    BY <1>2, <2>1 DEF WorkerType
  <2>4. \A n \in Streams : SameJobs(queue'[n], queue[n])
    BY <2>1, StreamsUnchanged DEF SameStreams, SameStream
  <2> QED
    BY <1>2, <2>1, <2>2, <2>3, <2>4, TakesLife
<1>4. CASE ~GivesUp(q.log[i].times)
  <2> DEFINE p == XClaim(q, i)
  <2>1. queue' = [queue EXCEPT ![wk.stream] = p] /\ WellFormed(q, JobsOf(wk.stream))
    BY <1>1, <1>4, WorkerFacts
  <2> HIDE DEF q
  <2>2. /\ SameJobs(p, q) /\ p.live = q.live
        /\ p.pel = IF i \in q.live THEN q.pel ELSE q.pel \ {i}
    <3>1. SameJobs(p, q) /\ p.pel = IF i \in q.live THEN q.pel ELSE q.pel \ {i}
      BY <1>2, <2>1, XClaimOK
    <3>2. p.live = q.live
      BY <1>2, <2>1, XClaimViews
    <3> QED
      BY <3>1, <3>2
  <2> HIDE DEF p
  <2>3. /\ queue'[wk.stream] = p
        /\ \A n \in Streams \ {wk.stream} : queue'[n] = queue[n]
    BY <1>2, <2>1, OneStream
  <2>4. \A n \in Streams : SameJobs(queue'[n], queue[n])
    BY <2>2, <2>3 DEF SameJobs, q
  <2>5. CASE i \in q.live
    <3>1. wk' = [wk EXCEPT !.entry = i, !.pc = "handle"]
      BY <1>1, <1>4, <2>5 DEF q
    <3>2. wk'.pc = "handle" /\ wk'.entry = i /\ wk'.stream = wk.stream /\ wk'.stopping = wk.stopping
      BY <1>2, <3>1 DEF WorkerType
    <3> QED
      BY <1>2, <2>2, <2>3, <2>4, <2>5, <3>2, TakesLife
  <2>6. CASE i \notin q.live
    <3> DEFINE rest == wk.todo \ {i}
    <3>1. wk' = [wk EXCEPT !.todo = rest]
      BY <1>1, <1>4, <2>6 DEF q
    <3> HIDE DEF rest
    <3>2. wk'.pc = "reclaim" /\ wk'.stopping = wk.stopping
      BY <1>2, <3>1 DEF WorkerType
    <3> QED
      BY <1>2, <2>4, <3>2, DroppedLife DEF IdlePC, LifeInv, HandOK
  <2> QED
    BY <2>5, <2>6
<1> QED
  BY <1>3, <1>4

LEMMA TickLife ==
  ASSUME Inv, LifeInv, TickAnalyses \/ TickSongs
  PROVE  LifeInv'
<1> USE DEF unchangedAPI, unchangedTables, WorkerAt
<1>0. wk \in WorkerType /\ UNCHANGED <<req, known, streamId, status, prep, complete>>
      /\ "analyses" \in Streams /\ "songs" \in Streams
  BY LifeFacts DEF TickAnalyses, TickSongs
<1>1. CASE TickAnalyses
  <2> DEFINE q == queue["analyses"]
  <2>1. PICK i \in Undelivered(q) :
          /\ queue' = [queue EXCEPT !["analyses"] = XReadGroup(q, i)]
          /\ wk' = [wk EXCEPT !.pc = "delivered", !.stream = "analyses", !.entry = i]
    BY <1>1 DEF TickAnalyses
  <2>2. WellFormed(q, JobsOf("analyses")) /\ Len(q.log) \in Nat /\ q.last \in Nat
    BY WorkerFacts
  <2>3. i \in q.last .. Len(q.log) /\ i \in q.live /\ i <= i
    BY <2>1, <2>2 DEF Undelivered, WellFormed
  <2> DEFINE p == XReadGroup(q, i)
  <2>4. queue' = [queue EXCEPT !["analyses"] = p]
    BY <2>1
  <2> HIDE DEF q
  <2>5. SameJobs(p, q) /\ p.live = q.live /\ i \in p.pel
    BY <2>1, <2>2, <2>3, XReadGroupOK, XReadGroupViews
  <2> HIDE DEF p
  <2>6. queue'["analyses"] = p /\ \A n \in Streams \ {"analyses"} : queue'[n] = queue[n]
    BY <1>0, <2>4, OneStream
  <2>7. \A n \in Streams : SameJobs(queue'[n], queue[n])
    BY <2>5, <2>6 DEF SameJobs, q
  <2>8. wk'.pc = "delivered" /\ wk'.entry = i /\ wk'.stream = "analyses" /\ wk'.stopping = wk.stopping
    BY <1>0, <2>1 DEF WorkerType
  <2> QED
    BY <1>0, <2>3, <2>5, <2>6, <2>7, <2>8, TakesLife
<1>2. CASE TickSongs
  <2> DEFINE old == queue["songs"]
  <2> DEFINE q == ClaimNewEntries(old)
  <2>1. queue' = [queue EXCEPT !["songs"] = q] /\ (PriorityPrep(q) \/ NextPrep(q))
    BY <1>2 DEF TickSongs
  <2>2. WellFormed(old, JobsOf("songs")) /\ Len(old.log) \in old.last .. Len(old.log)
    BY WorkerFacts
  <2> HIDE DEF old
  <2>3. WellFormed(q, JobsOf("songs")) /\ SameJobs(q, old)
    BY <2>2, XReadGroupOK DEF ClaimNewEntries
  <2> HIDE DEF q
  <2>4. PICK i \in q.own \cap q.live : wk' = [wk EXCEPT !.pc = "handle", !.stream = "songs", !.entry = i]
    <3>1. CASE PriorityPrep(q)
      BY <3>1 DEF PriorityPrep, PriorityEntries
    <3>2. CASE NextPrep(q)
      BY <3>2 DEF NextPrep
    <3> QED
      BY <2>1, <3>1, <3>2
  <2>5. i \in q.pel
    BY <2>3 DEF WellFormed
  <2>6. queue'["songs"] = q /\ \A n \in Streams \ {"songs"} : queue'[n] = queue[n]
    BY <1>0, <2>1, OneStream
  <2>7. \A n \in Streams : SameJobs(queue'[n], queue[n])
    BY <2>3, <2>6 DEF SameJobs, old
  <2>8. wk'.pc = "handle" /\ wk'.entry = i /\ wk'.stream = "songs" /\ wk'.stopping = wk.stopping
    BY <1>0, <2>4 DEF WorkerType
  <2> QED
    BY <1>0, <2>4, <2>5, <2>6, <2>7, <2>8, TakesLife
<1> QED
  BY <1>1, <1>2

\* process_entry returns with nothing written to the streams.
LEMMA ReturnLife ==
  ASSUME Inv, LifeInv, UNCHANGED <<req, known, streamId, status, complete, prep, queue>>, Return
  PROVE  LifeInv'
<1>1. \A n \in Streams : SameJobs(queue'[n], queue[n])
  BY StreamsUnchanged DEF SameStreams, SameStream
<1>2. wk'.pc \in IdlePC /\ wk'.stopping = wk.stopping
  BY WorkerMove DEF IdlePC
<1>3. wk'.stopping => "stop" \in Faults
  BY <1>2 DEF LifeInv, HandOK
<1> QED
  BY <1>1, <1>2, <1>3, DroppedLife

LEMMA HandleLife ==
  ASSUME Inv, LifeInv, ProcessFirst \/ HandleAnalysis \/ HandleSong
  PROVE  LifeInv'
<1> USE DEF unchangedAPI, unchangedTables, WorkerAt, Handling
<1>0. /\ UNCHANGED <<req, known, streamId, queue, complete>> /\ wk.pc \in HandlingPC
      /\ {"handle", "run", "finish", "ack"} \subseteq (HandlingPC \ {"delivered", "publish"}) \cup {"ack", "drop"}
  BY DEF ProcessFirst, HandleAnalysis, HandleSong, HandlingPC
<1>1. CASE ProcessFirst
  <2>1. UNCHANGED <<status, prep>> /\ Goes(IF wk.stopping THEN "loop" ELSE "handle")
    BY <1>1 DEF ProcessFirst
  <2>2. CASE wk.stopping
    <3>1. \A n \in Streams : SameJobs(queue'[n], queue[n])
      BY <1>0, StreamsUnchanged DEF SameStreams, SameStream
    <3>2. Stays("loop")
      BY <2>1, <2>2, WorkerMove
    <3> QED
      BY <1>0, <2>1, <3>1, <3>2, DroppedLife DEF Stays, IdlePC, LifeInv, HandOK
  <2>3. CASE ~wk.stopping
    BY <1>0, <2>1, <2>3, StaysQuietly
  <2> QED
    BY <2>2, <2>3
<1>2. CASE HandleAnalysis
  <2>1. wk.stream = "analyses" /\ UNCHANGED prep
    BY <1>2 DEF HandleAnalysis
  <2>2. CASE Return /\ UNCHANGED status
    BY <1>0, <2>1, <2>2, ReturnLife
  <2>3. CASE Goes("finish") /\ UNCHANGED status /\ JobId \in complete
    BY <1>0, <2>1, <2>3, StaysQuietly
  <2>4. CASE Goes("run") /\ SetStatus({JobId}, "processing")
    BY <1>0, <2>1, <2>4, StaysAnalysis
  <2> QED
    BY <1>2, <2>2, <2>3, <2>4 DEF HandleAnalysis
<1>3. CASE HandleSong
  <2>1. wk.stream = "songs" /\ UNCHANGED status /\ wk.pc \in EntryPC
    BY <1>3 DEF HandleSong, EntryPC, WorkerPC
  <2>2. CASE Return /\ UNCHANGED prep
    BY <1>0, <2>1, <2>2, ReturnLife
  <2>3. CASE Goes("finish") /\ UNCHANGED prep /\ JobId \in complete
    BY <1>0, <2>1, <2>3, StaysQuietly
  <2>4. CASE Goes("run") /\ SetPrep(JobId, "processing")
    <3>1. \A s \in PreparedAtStart : prep'[s] = prep[s]
      BY <2>1, <2>4, WorkerPrep
    <3> QED
      BY <1>0, <2>1, <2>4, <3>1, StaysQuietly
  <2> QED
    BY <1>3, <2>2, <2>3, <2>4 DEF HandleSong
<1> QED
  BY <1>1, <1>2, <1>3

LEMMA RunLife ==
  ASSUME Inv, LifeInv,
         RunCompletes \/ RunFails \/ RunInterrupted \/ FinishAnalysis \/ FinishSong \/ GiveUp
  PROVE  LifeInv'
<1> USE DEF unchangedAPI, unchangedTables, WorkerAt, Handling
<1>0. /\ UNCHANGED <<req, known, streamId, queue>> /\ wk.pc \in HandlingPC /\ wk.pc \in EntryPC
      /\ {"finish", "wake", "fail_waiting", "give_up_waiting", "ack"}
           \subseteq (HandlingPC \ {"delivered", "publish"}) \cup {"ack", "drop"}
      /\ wk.stream = "analyses" \/ wk.stream = "songs"
  BY LifeFacts DEF RunCompletes, RunFails, RunInterrupted, FinishAnalysis, FinishSong, GiveUp,
     HandlingPC, EntryPC, WorkerPC, Streams
<1>1. CASE RunCompletes
  <2>1. UNCHANGED <<status, prep>> /\ complete' = complete \cup {JobId} /\ Goes("finish")
    BY <1>1 DEF RunCompletes
  <2>2. complete \subseteq complete' /\ JobId \in complete'
    BY <2>1
  <2> QED
    BY <1>0, <2>1, <2>2, StaysQuietly
<1>2. CASE RunInterrupted
  BY <1>0, <1>2, ReturnLife DEF RunInterrupted
<1>3. CASE FinishAnalysis
  <2>1. /\ wk.stream = "analyses" /\ SetStatus({JobId}, "done") /\ Goes("ack")
        /\ UNCHANGED <<prep, complete>> /\ wk.pc = "finish"
    BY <1>3 DEF FinishAnalysis
  <2>2. JobId \in complete
    BY <2>1 DEF LifeInv, RunOK
  <2> QED
    BY <1>0, <2>1, <2>2, StaysAnalysis
<1>4. CASE (RunFails \/ GiveUp) /\ wk.stream = "analyses"
  <2>1. /\ SetStatus({JobId}, "failed") /\ UNCHANGED <<prep, complete>>
        /\ Goes("ack") \/ Goes("drop")
    BY <1>4 DEF RunFails, GiveUp
  <2> QED
    BY <1>0, <1>4, <2>1, StaysAnalysis
<1>5. CASE wk.stream = "songs" /\ (RunFails \/ GiveUp \/ FinishSong)
  <2>1. /\ UNCHANGED <<status, complete>>
        /\ SetPrep(JobId, "failed") \/ SetPrep(JobId, "ready")
        /\ Goes("fail_waiting") \/ Goes("give_up_waiting") \/ Goes("wake")
    BY <1>5 DEF RunFails, GiveUp, FinishSong
  <2>2. \A s \in PreparedAtStart : prep'[s] = prep[s]
    BY <1>0, <1>5, <2>1, WorkerPrep
  <2> QED
    BY <1>0, <2>1, <2>2, StaysQuietly
<1> QED
  BY <1>0, <1>1, <1>2, <1>3, <1>4, <1>5 DEF FinishSong

LEMMA WakeLife ==
  ASSUME Inv, LifeInv, Wake \/ PublishWoken \/ FailWaiting
  PROVE  LifeInv'
<1> USE DEF unchangedAPI, unchangedTables, WorkerAt
<1>0. /\ UNCHANGED <<req, known, streamId, prep, complete>> /\ wk.pc \in HandlingPC
      /\ "ack" \in (HandlingPC \ {"delivered", "publish"}) \cup {"ack", "drop"}
      /\ wk \in WorkerType /\ wk.pc \in EntryPC /\ wk.stream = "songs"
  BY LifeFacts DEF Wake, PublishWoken, FailWaiting, HandlingPC, EntryPC, WorkerPC, Inv, WorkerOK
<1>1. \A a \in WaitingFor(JobId) :
        /\ a \in Analyses /\ status[a] = "waiting_for_reference"
        /\ a \in known /\ SongOf[a] \notin PreparedAtStart
  BY DEF WaitingFor, LifeInv, RowOK, PreparedOK
<1> DEFINE woken == WaitingFor(JobId)
<1>2. CASE FailWaiting
  <2>0. PICK pc \in {"ack", "drop"} : Goes(pc)
    BY <1>2 DEF FailWaiting
  <2>1. SetStatus(woken, "failed") /\ Goes(pc) /\ UNCHANGED queue
    BY <1>2, <2>0 DEF FailWaiting
  <2>2. Stays(pc)
    BY <2>1, WorkerMove
  <2> HIDE DEF woken
  <2>3. \A a \in Analyses : a \in woken => status[a] = "waiting_for_reference"
    BY <1>1 DEF woken
  <2> QED
    BY <1>0, <2>1, <2>2, <2>3, StaysLife
<1>3. CASE Wake
  <2>1. SetStatus(woken, "queued") /\ UNCHANGED queue
        /\ wk' = [wk EXCEPT !.pc = "publish", !.wake = woken]
    BY <1>3 DEF Wake
  <2> HIDE DEF woken
  <2>2. /\ wk'.pc = "publish" /\ wk'.wake = woken /\ wk'.stream = wk.stream
        /\ wk'.entry = wk.entry /\ wk'.stopping = wk.stopping
    BY <1>0, <2>1 DEF WorkerType
  <2>3. \A n \in Streams : SameJobs(queue'[n], queue[n])
    BY <2>1, StreamsUnchanged DEF SameStreams, SameStream
  <2>4. EnqueueOK' /\ RetryOK' /\ EntryIdOK' /\ RowOK' /\ PreparedOK'
    <3>1. \A a \in woken : /\ a \in Analyses /\ status[a] = "waiting_for_reference"
                           /\ a \in known /\ SongOf[a] \notin PreparedAtStart
      BY <1>1 DEF woken
    <3> QED
      BY <1>0, <2>1, <2>2, <2>3, <3>1, WorkerKeepsRequests
  <2>5. RunOK'
    <3>1. \A a \in woken : a \in known /\ status'[a] # "none"
      BY <1>1, <2>1 DEF SetStatus, woken
    <3> QED
      BY <1>0, <2>2, <3>1 DEF RunOK
  <2>6. HandOK'
    BY <1>0, <2>1, <2>2 DEF LifeInv, HandOK, HandlingPC
  <2> QED
    BY <2>4, <2>5, <2>6 DEF LifeInv
<1>4. CASE PublishWoken /\ wk.wake = {}
  BY <1>0, <1>4, StaysQuietly DEF PublishWoken
<1>5. CASE PublishWoken /\ wk.wake # {}
  <2>1. PICK a \in wk.wake : /\ queue' = [queue EXCEPT !["analyses"] = XAdd(@, a)]
                             /\ wk' = [wk EXCEPT !.wake = @ \ {a}]
    BY <1>5 DEF PublishWoken
  <2> DEFINE rest == wk.wake \ {a}
  <2>2. /\ wk.pc = "publish" /\ a \in Analyses /\ a \in known /\ status[a] # "none"
        /\ SongOf[a] \notin PreparedAtStart /\ "analyses" \in Streams
        /\ JobsOf("analyses") = Analyses /\ UNCHANGED status
    BY <1>0, <1>5, LifeFacts DEF PublishWoken, WorkerType, LifeInv, RunOK, PreparedOK, JobsOf
  <2>3. wk' = [wk EXCEPT !.wake = rest]
    BY <2>1
  <2>4. rest \subseteq wk.wake
    OBVIOUS
  <2> HIDE DEF rest
  <2>5. /\ wk'.pc = "publish" /\ wk'.wake = rest /\ wk'.stream = wk.stream
        /\ wk'.entry = wk.entry /\ wk'.stopping = wk.stopping
    BY <1>0, <2>2, <2>3 DEF WorkerType
  <2>6. /\ \A i, b : IsEntry(i, b) => IsEntry(i, b)'
        /\ \A b : Published(b)' <=> Published(b) \/ b = a
        /\ \A s : NeverPublished(s)' <=> NeverPublished(s)
        /\ \A n \in Streams : /\ queue'[n].pel = queue[n].pel /\ queue'[n].last = queue[n].last
                              /\ queue[n].live \subseteq queue'[n].live
    BY <2>1, <2>2, NewEntry
  <2>7. EnqueueOK'
    <3>1. \A t \in Requests : req[t].pc \in NewRowPC => req[t].job # a
      BY <2>2 DEF LifeInv, EnqueueOK
    <3> QED
      BY <1>0, <2>2, <2>6, <3>1 DEF LifeInv, EnqueueOK
  <2>8. RetryOK' /\ EntryIdOK'
    BY <1>0, <2>2, <2>6 DEF LifeInv, RetryOK, EntryIdOK
  <2>9. RowOK'
    BY <1>0, <2>2, <2>6 DEF LifeInv, RowOK
  <2>10. PreparedOK'
    BY <1>0, <2>2, <2>4, <2>5, <2>6 DEF LifeInv, PreparedOK
  <2>11. RunOK'
    BY <1>0, <2>2, <2>4, <2>5 DEF LifeInv, RunOK
  <2>12. HandOK'
    BY <1>0, <2>2, <2>5, <2>6, LifeFacts DEF LifeInv, HandOK, HandlingPC
  <2> QED
    BY <2>7, <2>8, <2>9, <2>10, <2>11, <2>12 DEF LifeInv
<1> QED
  BY <1>2, <1>3, <1>4, <1>5

LEMMA AckLife ==
  ASSUME Inv, LifeInv, Ack \/ Del
  PROVE  LifeInv'
<1> USE DEF unchangedAPI, unchangedTables, WorkerAt
<1> DEFINE q == queue[wk.stream]
<1>0. /\ UNCHANGED <<req, known, streamId, status, prep, complete>> /\ wk.stream \in Streams
      /\ WellFormed(q, JobsOf(wk.stream)) /\ wk.entry \in Nat
  BY LifeFacts, WorkerFacts DEF Ack, Del, WorkerType
<1>1. CASE Ack
  <2> DEFINE p == XAck(q, wk.entry)
  <2>1. queue' = [queue EXCEPT ![wk.stream] = p] /\ Goes("del") /\ wk.pc \in {"ack", "drop"}
    BY <1>1 DEF Ack
  <2> HIDE DEF q
  <2>2. SameJobs(p, q) /\ p.last = q.last /\ p.pel = q.pel \ {wk.entry}
    BY <1>0, XAckOK, XAckViews
  <2> HIDE DEF p
  <2>3. queue'[wk.stream] = p /\ \A n \in Streams \ {wk.stream} : queue'[n] = queue[n]
    BY <1>0, <2>1, OneStream
  <2>4. \A n \in Streams : SameJobs(queue'[n], queue[n])
    BY <2>2, <2>3 DEF SameJobs, q
  <2>5. Stays("del")
    BY <2>1, WorkerMove
  <2> DEFINE none == {}
  <2>6. \A a \in Analyses : a \notin none
    OBVIOUS
  <2> HIDE DEF none
  <2>7. "queued" \in {"queued", "processing", "done", "failed"} /\ wk'.pc # "publish"
    BY <2>5 DEF Stays
  <2>8. EnqueueOK' /\ RetryOK' /\ EntryIdOK' /\ RowOK' /\ PreparedOK'
    BY <1>0, <2>4, <2>6, <2>7, WorkerKeepsRequests
  <2>9. RunOK'
    BY <2>5 DEF RunOK, Stays
  <2>10. wk.entry <= q.last
    <3>1. wk.entry \in q.pel
      BY <2>1 DEF LifeInv, HandOK, q
    <3> QED
      BY <1>0, <3>1, RecoverableLogged
  <2>11. HandOK'
    BY <2>2, <2>3, <2>5, <2>10 DEF LifeInv, HandOK, HandlingPC, Stays
  <2> QED
    BY <2>8, <2>9, <2>11 DEF LifeInv
<1>2. CASE Del
  <2> DEFINE p == XDel(q, wk.entry)
  <2>1. queue' = [queue EXCEPT ![wk.stream] = p] /\ Return
    BY <1>2 DEF Del
  <2> HIDE DEF q
  <2>2. SameJobs(p, q)
    BY <1>0, XDelOK
  <2> HIDE DEF p
  <2>3. queue'[wk.stream] = p /\ \A n \in Streams \ {wk.stream} : queue'[n] = queue[n]
    BY <1>0, <2>1, OneStream
  <2>4. \A n \in Streams : SameJobs(queue'[n], queue[n])
    BY <2>2, <2>3 DEF SameJobs, q
  <2>5. wk'.pc \in IdlePC /\ wk'.stopping = wk.stopping
    BY <2>1, WorkerMove DEF IdlePC
  <2> QED
    BY <1>0, <2>4, <2>5, DroppedLife DEF LifeInv, HandOK
<1> QED
  BY <1>1, <1>2

LEMMA WorkerFaultLife ==
  ASSUME Inv, LifeInv, RequestStop \/ HandlerFault \/ GiveUpFault
  PROVE  LifeInv'
<1> USE DEF unchangedAPI, unchangedTables, WorkerAt
<1>0. UNCHANGED <<req, known, streamId, status, prep, complete, queue>>
  BY DEF RequestStop, HandlerFault, GiveUpFault
<1>1. CASE HandlerFault
  BY <1>0, <1>1, ReturnLife DEF HandlerFault
<1>2. CASE GiveUpFault
  BY <1>0, <1>2, StaysQuietly DEF GiveUpFault, HandlingPC
<1>3. CASE RequestStop
  <2>1. /\ wk'.pc = wk.pc /\ wk'.stream = wk.stream /\ wk'.entry = wk.entry /\ wk'.wake = wk.wake
        /\ "stop" \in Faults
    BY <1>3, LifeFacts DEF RequestStop, Fault, WorkerType
  <2>2. JobId' = JobId /\ \A b : Published(b)' <=> Published(b)
    BY <1>0, <2>1 DEF JobId, Published
  <2>3. EnqueueOK' /\ RetryOK' /\ EntryIdOK' /\ RowOK' /\ PreparedOK'
    BY <1>0, <2>1 DEF LifeInv, EnqueueOK, RetryOK, EntryIdOK, RowOK, PreparedOK,
                      Published, IsEntry, NeverPublished
  <2>4. RunOK' /\ HandOK'
    BY <1>0, <2>1, <2>2 DEF LifeInv, RunOK, HandOK
  <2> QED
    BY <2>3, <2>4 DEF LifeInv
<1> QED
  BY <1>1, <1>2, <1>3
-----------------------------------------------------------------------------
LEMMA LifeInit == Init => LifeInv
<1> SUFFICES ASSUME Init PROVE LifeInv
  OBVIOUS
<1>1. \A n \in Streams : Len(queue[n].log) = 0
  BY DEF Init, EmptyStream
<1>2. /\ \A b : ~Published(b)
      /\ \A s : NeverPublished(s)
  BY <1>1 DEF Published, NeverPublished, Streams
<1>3. EnqueueOK /\ RetryOK /\ EntryIdOK
  BY DEF Init, Idle, EnqueueOK, RetryOK, EntryIdOK, NewRowPC, RetryPC
<1>4. RowOK /\ RunOK /\ HandOK
  BY <1>2 DEF Init, Down, RowOK, RunOK, HandOK, HandlingPC
<1>5. PreparedOK
  BY <1>2, JobAssumption DEF Init, Idle, Down, PreparedOK
<1> QED
  BY <1>3, <1>4, <1>5 DEF LifeInv

LEMMA LifeStep ==
  ASSUME Inv, LifeInv, [Next]_vars
  PROVE  LifeInv'
<1>1. ASSUME NEW r \in Requests, RequestStep(r) \/ ApiFault(r) PROVE LifeInv'
  BY <1>1, RequestLife
<1>2. CASE WorkerStep
  BY <1>2, StartLife, ReclaimEntryLife, TickLife, HandleLife, RunLife, WakeLife, AckLife
  DEF WorkerStep
<1>3. CASE WorkerFault
  BY <1>3, StartLife, WorkerFaultLife DEF WorkerFault
<1>4. CASE UNCHANGED vars
  BY <1>4 DEF vars, LifeInv, EnqueueOK, RetryOK, EntryIdOK, RowOK, RunOK, HandOK, PreparedOK,
              Published, IsEntry, NeverPublished, JobId
<1> QED
  BY <1>1, <1>2, <1>3, <1>4 DEF Next

(***************************************************************************)
(* What the API and the worker know of a row agrees with its history, in   *)
(* every reachable state: a row between INSERT and its outcome is nobody   *)
(* else's, an entry id names an entry of the same analysis, and a row that *)
(* is processing or done was published.                                    *)
(***************************************************************************)
THEOREM LifeInvAlways == Spec => []LifeInv
<1> QED
  BY LifeInit, LifeStep, InvAlways, PTL DEF Spec

\* No request touches a finished analysis.
LEMMA RequestSparesDone ==
  ASSUME Inv, LifeInv, NEW r \in Requests, RequestStep(r) \/ ApiFault(r),
         NEW a \in Analyses, status[a] = "done"
  PROVE  status'[a] = "done"
<1> USE DEF unchangedWorker, At
<1>1. status \in [Analyses -> AnalysisStatus \cup {"none"}]
  BY LifeFacts
<1>2. SongOf[a] \in cached
  BY DEF LifeInv, RowOK, Published, Inv, ReferenceReady
<1>3. req[r].pc \in NewRowPC => req[r].job # a
  BY DEF LifeInv, EnqueueOK
<1>4. CASE AnalysisRequest(r)
  <2>1. ASSUME NEW b \in Analyses, EnqueueStart(r, b) \/ RetryStart(r, b) \/ Cancel(r, b)
        PROVE  status'[a] = "done"
    BY <2>1 DEF EnqueueStart, RetryStart, Cancel, Cancelable, SetStatus
  <2>2. CASE EnqueuePrecheck(r) \/ EnqueueAdmit(r) \/ SetQueueStreamID(r) \/ CancelRemove(r)
               \/ RetryPrecheck(r) \/ RetryAdd(r)
    BY <2>2 DEF EnqueuePrecheck, EnqueueAdmit, SetQueueStreamID, CancelRemove, RetryPrecheck, RetryAdd
  <2>3. CASE EnqueueCreate(r) \/ EnqueueCreateWaiting(r) \/ EnqueueRollback(r)
    BY <1>1, <1>3, <2>3 DEF EnqueueCreate, EnqueueCreateWaiting, EnqueueRollback, NewRowPC
  <2>4. CASE RetryUpdate(r) \/ RetryToWaitingForReference(r)
    BY <1>1, <2>4 DEF RetryUpdate, RetryToWaitingForReference, Retryable, ResetFailed
  <2> QED
    BY <1>4, <2>1, <2>2, <2>3, <2>4 DEF AnalysisRequest
<1>5. CASE SongRequest(r)
  <2>1. CASE EnqueuePrepRollback(r)
    <3>1. req[r].job \notin cached
      BY <2>1 DEF EnqueuePrepRollback, Inv, SongOK, NewSongPC
    <3> QED
      BY <1>2, <2>1, <3>1 DEF EnqueuePrepRollback
  <2>2. CASE ~EnqueuePrepRollback(r)
    BY <1>5, <2>2 DEF SongRequest, AddSong, RetryPrepStart, EnqueuePrep, RetryPrepReset, RetryPrepAdd
  <2> QED
    BY <2>1, <2>2
<1>6. CASE ApiFault(r)
  BY <1>6 DEF ApiFault
<1> QED
  BY <1>4, <1>5, <1>6 DEF RequestStep

\* Of the worker's steps only a give-up does.
LEMMA WorkerSparesDone ==
  ASSUME Inv, LifeInv, WorkerStep \/ WorkerFault, wk.pc # "give_up",
         NEW a \in Analyses, status[a] = "done"
  PROVE  status'[a] = "done"
<1> USE DEF unchangedTables, WorkerAt, Handling
<1>1. a \in complete
  BY DEF LifeInv, RowOK
<1>2. CASE \/ Start \/ ReclaimNext \/ ReclaimEntry \/ TickAnalyses \/ ProcessFirst \/ TickSongs
           \/ Ack \/ Del \/ Exit \/ WorkerFault
  BY <1>2 DEF Start, ReclaimNext, ReclaimEntry, TickAnalyses, ProcessFirst, TickSongs, Ack, Del,
              Exit, WorkerFault, RequestStop, Crash, HandlerFault, GiveUpFault
<1>3. CASE HandleSong \/ RunCompletes \/ RunInterrupted \/ FinishSong \/ PublishWoken
  BY <1>3 DEF HandleSong, RunCompletes, RunInterrupted, FinishSong, PublishWoken
<1>4. CASE HandleAnalysis
  <2>1. UNCHANGED status \/ (JobId # a /\ SetStatus({JobId}, "processing"))
    BY <1>1, <1>4 DEF HandleAnalysis
  <2> QED
    BY <2>1 DEF SetStatus
<1>5. CASE RunFails
  <2>1. wk.stream = "analyses" => JobId # a
    BY <1>5 DEF RunFails, LifeInv, RunOK
  <2> QED
    BY <1>5, <2>1 DEF RunFails, SetStatus
<1>6. CASE FinishAnalysis
  BY <1>6 DEF FinishAnalysis, SetStatus
<1>7. CASE Wake \/ FailWaiting
  BY <1>7 DEF Wake, FailWaiting, SetStatus, WaitingFor
<1> QED
  BY <1>2, <1>3, <1>4, <1>5, <1>6, <1>7 DEF WorkerStep, GiveUp

(***************************************************************************)
(* A finished analysis is never run again: neither a redelivery of its     *)
(* entry (AnalysisJobHandler.handle skips a row with every stage in), nor  *)
(* a retry, nor a rollback takes `done' away; only giving up does.         *)
(***************************************************************************)
THEOREM FinishedStaysFinished == Spec => DoneIsNotRerun
<1>1. ASSUME Inv, LifeInv, [Next]_vars
      PROVE  \A a \in Analyses :
               status[a] = "done" => \/ status'[a] = "done"
                                     \/ WorkerAt("give_up")
  <2> SUFFICES ASSUME NEW a \in Analyses, status[a] = "done", wk.pc # "give_up"
               PROVE  status'[a] = "done"
    BY DEF WorkerAt
  <2>1. CASE UNCHANGED vars
    BY <2>1 DEF vars
  <2> QED
    BY <1>1, <2>1, RequestSparesDone, WorkerSparesDone DEF Next
<1> QED
  BY <1>1, InvAlways, LifeInvAlways, PTL DEF Spec, DoneIsNotRerun
=============================================================================
