--------------------------- MODULE JobSystemProofs ---------------------------
(***************************************************************************)
(* Proofs about JobSystem for every set of analyses, songs and requests,   *)
(* every cap, and every choice of operations and faults.                   *)
(***************************************************************************)
EXTENDS JobSystem, SequenceTheorems, TLAPS

\* Stream p names the same jobs as stream q, entry by entry.
SameJobs(p, q) ==
  /\ Len(p.log) = Len(q.log)
  /\ \A i \in 1 .. Len(q.log) : JobAt(p, i) = JobAt(q, i)

\* XADD keeps a stream well formed, adds one entry and touches no other.
LEMMA XAddOK ==
  ASSUME NEW J, NEW q, WellFormed(q, J), NEW job \in J
  PROVE  /\ WellFormed(XAdd(q, job), J)
         /\ Len(XAdd(q, job).log) = Len(q.log) + 1
         /\ \A i \in 1 .. Len(q.log) : JobAt(XAdd(q, job), i) = JobAt(q, i)
         /\ JobAt(XAdd(q, job), Len(q.log) + 1) = job
         /\ XAdd(q, job).pel = q.pel
<1> DEFINE Entry == [job : J, times : Nat]
<1> DEFINE new == [job |-> job, times |-> 0]
<1>1. q.log \in Seq(Entry) /\ new \in Entry
  BY DEF WellFormed, StreamType
<1>2. XAdd(q, job).log = Append(q.log, new)
  BY DEF XAdd
<1>3. new.job = job
  OBVIOUS
<1> HIDE DEF Entry, new
<1>4. /\ Append(q.log, new) \in Seq(Entry)
      /\ Len(Append(q.log, new)) = Len(q.log) + 1
      /\ Append(q.log, new)[Len(q.log) + 1] = new
      /\ \A i \in 1 .. Len(q.log) : Append(q.log, new)[i] = q.log[i]
  BY <1>1, AppendProperties
<1>5. WellFormed(XAdd(q, job), J)
  <2>1. XAdd(q, job).log \in Seq([job : J, times : Nat])
    BY <1>2, <1>4 DEF Entry
  <2> QED
    BY <1>2, <1>4, <2>1 DEF XAdd, WellFormed, StreamType
<1>6. XAdd(q, job).pel = q.pel
  BY DEF XAdd
<1> QED
  BY <1>2, <1>3, <1>4, <1>5, <1>6 DEF JobAt

\* Counting deliveries changes no job.
LEMMA CountDeliveriesOK ==
  ASSUME NEW J, NEW q, WellFormed(q, J), NEW ids
  PROVE  /\ CountDeliveries(q.log, ids) \in Seq([job : J, times : Nat])
         /\ Len(CountDeliveries(q.log, ids)) = Len(q.log)
         /\ \A i \in 1 .. Len(q.log) : CountDeliveries(q.log, ids)[i].job = q.log[i].job
<1> DEFINE log == q.log
<1> DEFINE c == CountDeliveries(log, ids)
<1> DEFINE Entry == [job : J, times : Nat]
<1>0. log \in Seq(Entry)
  BY DEF WellFormed, StreamType
<1> HIDE DEF log
<1>1. \A i \in 1 .. Len(log) : c[i] \in Entry /\ c[i].job = log[i].job
  <2> SUFFICES ASSUME NEW i \in 1 .. Len(log)
               PROVE  c[i] \in Entry /\ c[i].job = log[i].job
    OBVIOUS
  <2>1. log[i] \in Entry
    BY <1>0, ElementOfSeq
  <2>2. c[i] = IF i \in ids THEN [log[i] EXCEPT !.times = @ + 1] ELSE log[i]
    BY DEF CountDeliveries
  <2> QED
    BY <2>1, <2>2
<1>2. c = [i \in 1 .. Len(log) |-> c[i]]
  BY DEF CountDeliveries
<1>3. Len(log) \in Nat
  BY <1>0, LenProperties
<1> HIDE DEF c, Entry
<1>4. c \in Seq(Entry) /\ Len(c) = Len(log)
  BY <1>1, <1>2, <1>3
<1> QED
  BY <1>1, <1>4 DEF c, Entry, log

\* The other commands keep a stream well formed and its jobs as they are.
LEMMA XReadGroupOK ==
  ASSUME NEW J, NEW q, WellFormed(q, J), NEW i \in q.last .. Len(q.log)
  PROVE  /\ WellFormed(XReadGroup(q, i), J)
         /\ SameJobs(XReadGroup(q, i), q)
         /\ q.pel \subseteq XReadGroup(q, i).pel
         /\ XReadGroup(q, i).live = q.live
<1> DEFINE got == {k \in Undelivered(q) : k <= i}
<1> DEFINE log == CountDeliveries(q.log, got)
<1>1. XReadGroup(q, i) = [log |-> log, live |-> q.live, last |-> i,
                          pel |-> q.pel \cup got, own |-> q.own \cup got]
  BY DEF XReadGroup
<1>2. got \subseteq 1 .. i
  BY DEF Undelivered, WellFormed, StreamType
<1>3. q.log \in Seq([job : J, times : Nat]) /\ q.last \in Nat
  BY DEF WellFormed, StreamType
<1> HIDE DEF got
<1>4. /\ log \in Seq([job : J, times : Nat])
      /\ Len(log) = Len(q.log)
      /\ \A k \in 1 .. Len(q.log) : log[k].job = q.log[k].job
  BY CountDeliveriesOK
<1> HIDE DEF log
<1>5. i \in Nat /\ q.last <= i /\ i <= Len(q.log)
  BY <1>3, LenProperties
<1>6. WellFormed(XReadGroup(q, i), J)
  <2>1. q.pel \subseteq 1 .. i /\ q.own \subseteq q.pel /\ q.live \subseteq 1 .. Len(q.log)
    BY <1>3, <1>5 DEF WellFormed, StreamType
  <2>2. q.live \in SUBSET Nat /\ q.pel \in SUBSET Nat /\ q.own \in SUBSET Nat
    BY DEF WellFormed, StreamType
  <2>4. got \subseteq Nat
    BY <1>2, <1>5
  <2>5. q.pel \cup got \in SUBSET Nat /\ q.own \cup got \in SUBSET Nat
    BY <2>2, <2>4
  <2>3. XReadGroup(q, i) \in StreamType(J)
    BY <1>1, <1>4, <1>5, <2>2, <2>5 DEF StreamType
  <2> QED
    BY <1>1, <1>2, <1>4, <1>5, <2>1, <2>3 DEF WellFormed
<1> QED
  BY <1>1, <1>4, <1>6 DEF SameJobs, JobAt

\* XACK takes one entry off the pending list.
LEMMA XAckOK ==
  ASSUME NEW J, NEW q, WellFormed(q, J), NEW i
  PROVE  /\ WellFormed(XAck(q, i), J)
         /\ SameJobs(XAck(q, i), q)
         /\ XAck(q, i).pel = q.pel \ {i}
BY DEF XAck, WellFormed, StreamType, SameJobs, JobAt

\* XCLAIM of a pending entry takes it off the pending list only if it is deleted.
LEMMA XClaimOK ==
  ASSUME NEW J, NEW q, WellFormed(q, J), NEW i \in q.pel
  PROVE  /\ WellFormed(XClaim(q, i), J)
         /\ SameJobs(XClaim(q, i), q)
         /\ XClaim(q, i).pel = IF i \in q.live THEN q.pel ELSE q.pel \ {i}
<1>1. CASE i \in q.live
  <2> DEFINE log == CountDeliveries(q.log, {i})
  <2>1. XClaim(q, i) = [log |-> log, live |-> q.live, last |-> q.last,
                        pel |-> q.pel, own |-> q.own \cup {i}]
    BY <1>1 DEF XClaim
  <2>2. /\ log \in Seq([job : J, times : Nat])
        /\ Len(log) = Len(q.log)
        /\ \A k \in 1 .. Len(q.log) : log[k].job = q.log[k].job
    BY CountDeliveriesOK
  <2> HIDE DEF log
  <2>3. XClaim(q, i) \in StreamType(J)
    BY <2>1, <2>2 DEF WellFormed, StreamType
  <2>4. WellFormed(XClaim(q, i), J)
    BY <2>1, <2>2, <2>3 DEF WellFormed
  <2>5. SameJobs(XClaim(q, i), q)
    BY <2>1, <2>2 DEF SameJobs, JobAt
  <2> QED
    BY <1>1, <2>1, <2>4, <2>5
<1>2. CASE i \notin q.live
  BY <1>2, XAckOK DEF XClaim
<1> QED
  BY <1>1, <1>2

\* XDEL leaves the pending list alone.
LEMMA XDelOK ==
  ASSUME NEW J, NEW q, WellFormed(q, J), NEW i
  PROVE  /\ WellFormed(XDel(q, i), J)
         /\ SameJobs(XDel(q, i), q)
         /\ XDel(q, i).pel = q.pel
BY DEF XDel, WellFormed, StreamType, SameJobs, JobAt

\* A worker under a new name leaves the group's pending list alone.
LEMMA RenameConsumerOK ==
  ASSUME NEW J, NEW q, WellFormed(q, J)
  PROVE  /\ WellFormed(RenameConsumer(q), J)
         /\ SameJobs(RenameConsumer(q), q)
         /\ RenameConsumer(q).pel = q.pel
BY DEF RenameConsumer, WellFormed, StreamType, SameJobs, JobAt
-----------------------------------------------------------------------------
\* How a step may change the request it belongs to.
LEMMA RequestChange ==
  ASSUME req \in [Requests -> RequestType], NEW r \in Requests,
         NEW pc \in RequestPC, NEW job \in Job \cup {NoJob}, NEW id \in Nat
  PROVE  /\ Goto(r, pc) =>
              /\ req' \in [Requests -> RequestType]
              /\ req'[r].pc = pc /\ req'[r].job = req[r].job
              /\ \A t \in Requests \ {r} : req'[t] = req[t]
         /\ GotoWith(r, pc, id) =>
              /\ req' \in [Requests -> RequestType]
              /\ req'[r].pc = pc /\ req'[r].job = req[r].job
              /\ \A t \in Requests \ {r} : req'[t] = req[t]
         /\ Finish(r) =>
              /\ req' \in [Requests -> RequestType]
              /\ req'[r].pc = "idle"
              /\ \A t \in Requests \ {r} : req'[t] = req[t]
         /\ req' = [req EXCEPT ![r] = [pc |-> pc, job |-> job, id |-> id]] =>
              /\ req' \in [Requests -> RequestType]
              /\ req'[r].pc = pc /\ req'[r].job = job
              /\ \A t \in Requests \ {r} : req'[t] = req[t]
<1> USE DEF RequestType
<1>1. Idle \in RequestType
  BY DEF Idle, RequestPC
<1>2. Goto(r, pc) => /\ req' \in [Requests -> RequestType]
                     /\ req'[r].pc = pc /\ req'[r].job = req[r].job
                     /\ \A t \in Requests \ {r} : req'[t] = req[t]
  BY DEF Goto
<1>3. GotoWith(r, pc, id) => /\ req' \in [Requests -> RequestType]
                             /\ req'[r].pc = pc /\ req'[r].job = req[r].job
                             /\ \A t \in Requests \ {r} : req'[t] = req[t]
  <2> SUFFICES ASSUME GotoWith(r, pc, id)
               PROVE  /\ req' \in [Requests -> RequestType]
                      /\ req'[r].pc = pc /\ req'[r].job = req[r].job
                      /\ \A t \in Requests \ {r} : req'[t] = req[t]
    OBVIOUS
  <2> DEFINE moved == [pc |-> pc, job |-> req[r].job, id |-> id]
  <2>1. req[r] \in [pc : RequestPC, job : Job \cup {NoJob}, id : Nat]
    OBVIOUS
  <2>2. moved \in RequestType /\ moved.pc = pc /\ moved.job = req[r].job
    BY <2>1
  <2> DEFINE half == [req[r] EXCEPT !.pc = pc]
  <2>5. half = [pc |-> pc, job |-> req[r].job, id |-> req[r].id]
    BY <2>1
  <2>3. [half EXCEPT !.id = id] = moved
    <3> HIDE DEF half
    <3> QED
      BY <2>5
  <2>4. req' = [req EXCEPT ![r] = moved]
    BY <2>3 DEF GotoWith
  <2> HIDE DEF moved, RequestType
  <2> QED
    BY <2>2, <2>4
<1>4. Finish(r) => /\ req' \in [Requests -> RequestType]
                   /\ req'[r].pc = "idle"
                   /\ \A t \in Requests \ {r} : req'[t] = req[t]
  BY <1>1 DEF Finish, Idle
<1> QED
  BY <1>2, <1>3, <1>4

\* A request that begins holds the job it was asked for.
LEMMA RequestBegins ==
  ASSUME req \in [Requests -> RequestType],
         NEW r \in Requests, NEW pc \in RequestPC,
         NEW job \in Job \cup {NoJob},
         req' = [req EXCEPT ![r] = [pc |-> pc, job |-> job, id |-> 0]]
  PROVE  /\ req' \in [Requests -> RequestType]
         /\ req'[r].pc = pc /\ req'[r].job = job
         /\ \A t \in Requests \ {r} : req'[t] = req[t]
BY RequestChange

StreamsOK ==
  /\ DOMAIN queue = Streams
  /\ \A n \in Streams : WellFormed(queue[n], JobsOf(n))

\* A step leaves the entries it finds as they are; it may add others.
KeepsEntries ==
  \A n \in Streams :
    /\ Len(queue[n].log) <= Len(queue'[n].log)
    /\ \A i \in 1 .. Len(queue[n].log) : JobAt(queue'[n], i) = JobAt(queue[n], i)

\* A step adds no entry either.
SameEntries == \A n \in Streams : SameJobs(queue'[n], queue[n])

SamePending == \A n \in Streams : queue'[n].pel = queue[n].pel

\* A step that leaves the queue alone keeps entries and pending lists.
LEMMA QueueUnchanged ==
  ASSUME StreamsOK, UNCHANGED queue
  PROVE  StreamsOK' /\ SameEntries /\ SamePending
BY DEF StreamsOK, SameEntries, SamePending, SameJobs

\* A step on one stream is a step on the queue.
LEMMA StreamStep ==
  ASSUME StreamsOK, NEW name \in Streams, NEW q,
         WellFormed(q, JobsOf(name)), SameJobs(q, queue[name]),
         queue' = [queue EXCEPT ![name] = q]
  PROVE  /\ StreamsOK' /\ SameEntries
         /\ q.pel = queue[name].pel => SamePending
BY DEF StreamsOK, SameEntries, SamePending, SameJobs

\* With the same entries, what was (not) published stays so.
LEMMA SameKeepsEntries ==
  ASSUME StreamsOK, SameEntries
  PROVE  /\ KeepsEntries
         /\ \A s : NeverPublished(s)' <=> NeverPublished(s)
         /\ ReferenceReady /\ UNCHANGED cached => ReferenceReady'
<1>1. \A n \in Streams : Len(queue[n].log) \in Nat
  BY LenProperties DEF StreamsOK, WellFormed, StreamType
<1>2. "songs" \in Streams /\ "analyses" \in Streams
  BY DEF Streams
<1>3. KeepsEntries
  BY <1>1 DEF SameEntries, SameJobs, KeepsEntries
<1>4. \A s : NeverPublished(s)' <=> NeverPublished(s)
  BY <1>2 DEF SameEntries, SameJobs, NeverPublished
<1>5. ReferenceReady /\ UNCHANGED cached => ReferenceReady'
  BY <1>2 DEF SameEntries, SameJobs, ReferenceReady
<1> QED
  BY <1>3, <1>4, <1>5

\* Publishing a job adds one entry at the end of one stream.
LEMMA PublishOK ==
  ASSUME StreamsOK, NEW name \in Streams, NEW job \in JobsOf(name),
         queue' = [queue EXCEPT ![name] = XAdd(@, job)]
  PROVE  /\ StreamsOK' /\ KeepsEntries /\ SamePending
         /\ \A n \in Streams \ {name} : queue'[n] = queue[n]
         /\ Len(queue'[name].log) = Len(queue[name].log) + 1
         /\ JobAt(queue'[name], Len(queue[name].log) + 1) = job
<1> DEFINE q == XAdd(queue[name], job)
<1>1. WellFormed(queue[name], JobsOf(name))
  BY DEF StreamsOK
<1>2. /\ WellFormed(q, JobsOf(name))
      /\ Len(q.log) = Len(queue[name].log) + 1
      /\ \A i \in 1 .. Len(queue[name].log) : JobAt(q, i) = JobAt(queue[name], i)
      /\ JobAt(q, Len(queue[name].log) + 1) = job
      /\ q.pel = queue[name].pel
  BY <1>1, XAddOK
<1>3. queue'[name] = q /\ DOMAIN queue' = Streams
      /\ \A n \in Streams \ {name} : queue'[n] = queue[n]
  BY DEF StreamsOK
<1>4. \A n \in Streams : Len(queue[n].log) \in Nat
  BY LenProperties DEF StreamsOK, WellFormed, StreamType
<1> HIDE DEF q
<1> QED
  BY <1>1, <1>2, <1>3, <1>4 DEF StreamsOK, KeepsEntries, SamePending

\* The worker's part of the invariant does not mind what the API does.
LEMMA WorkerUndisturbed ==
  ASSUME StreamsOK, StreamsOK', wk \in WorkerType, WorkerOK,
         KeepsEntries, SamePending, UNCHANGED wk, cached \subseteq cached'
  PROVE  WorkerOK'
<1>1. wk.stream \in Streams
  BY DEF WorkerType
<1>2. Len(queue[wk.stream].log) \in Nat /\ Len(queue'[wk.stream].log) \in Nat
  BY <1>1, LenProperties DEF StreamsOK, WellFormed, StreamType
<1>3. wk.pc \in EntryPC => wk.entry \in 1 .. Len(queue'[wk.stream].log) /\ JobId' = JobId
  BY <1>1, <1>2 DEF WorkerOK, KeepsEntries, JobId
<1>4. queue'[wk.stream].pel = queue[wk.stream].pel
  BY <1>1 DEF SamePending
<1>5. "wake" \in EntryPC
  BY DEF EntryPC, WorkerPC
<1> QED
  BY <1>3, <1>4, <1>5 DEF WorkerOK

\* The invariant holds both streams well formed.
LEMMA InvStreams == Inv => StreamsOK
BY DEF Inv, TypeOK, StreamsOK

\* A request moves on, the songs and their stream's entries staying as they are.
LEMMA RequestMoves ==
  ASSUME Inv, NEW r \in Requests, StreamsOK', SameEntries, SamePending,
         UNCHANGED <<prep, cached, wk, complete, faults>>,
         status' \in [Analyses -> AnalysisStatus \cup {"none"}],
         streamId' \in [Analyses -> Nat],
         known' \subseteq Analyses,
         req' \in [Requests -> RequestType],
         \A t \in Requests \ {r} : req'[t] = req[t],
         req'[r].pc \notin NewSongPC /\ req'[r].pc # "prep_add",
         req'[r].pc \in AnalysisPC => req'[r].job \in Analyses,
         req'[r].pc \in PrepPC => req'[r].job \in Songs,
         req'[r].pc \in CheckedPC => SongOf[req'[r].job] \in cached
  PROVE  Inv'
<1>1. StreamsOK
  BY InvStreams
<1>2. /\ KeepsEntries
      /\ \A s : NeverPublished(s)' <=> NeverPublished(s)
      /\ ReferenceReady'
  BY <1>1, SameKeepsEntries DEF Inv
<1>3. TypeOK'
  BY DEF Inv, TypeOK, StreamsOK
<1>4. RequestOK'
  BY DEF Inv, RequestOK
<1>5. WorkerOK'
  BY <1>1, <1>2, WorkerUndisturbed DEF Inv, TypeOK
<1>6. SongOK'
  BY <1>2 DEF Inv, SongOK
<1> QED
  BY <1>2, <1>3, <1>4, <1>5, <1>6 DEF Inv

\* Enqueue and Retry publish an analysis whose song they found ready.
LEMMA AnalysisPublished ==
  ASSUME Inv, NEW r \in Requests, req[r].pc \in {"admit", "retry_add"},
         Publish("analyses", req[r].job),
         GotoWith(r, "set_id", NextId("analyses")),
         UNCHANGED <<status, streamId, known, prep, cached, wk, complete, faults>>
  PROVE  Inv'
<1> DEFINE a == req[r].job
<1> DEFINE id == Len(queue["analyses"].log) + 1
<1>1. StreamsOK /\ "analyses" \in Streams /\ "songs" \in Streams /\ JobsOf("analyses") = Analyses
  BY InvStreams DEF Streams, JobsOf
<1>2. a \in Analyses /\ SongOf[a] \in cached
  BY DEF Inv, RequestOK, AnalysisPC, CheckedPC
<1>3. id \in Nat
  BY <1>1, LenProperties DEF StreamsOK, WellFormed, StreamType
<1>4. /\ StreamsOK' /\ KeepsEntries /\ SamePending
      /\ queue'["songs"] = queue["songs"]
      /\ Len(queue'["analyses"].log) = id
      /\ JobAt(queue'["analyses"], id) = a
  BY <1>1, <1>2, PublishOK DEF Publish
<1>5. GotoWith(r, "set_id", id)
  BY DEF NextId
<1> HIDE DEF id
<1>6. /\ req' \in [Requests -> RequestType]
      /\ req'[r].pc = "set_id" /\ req'[r].job = a
      /\ \A t \in Requests \ {r} : req'[t] = req[t]
  BY <1>3, <1>5, RequestChange DEF Inv, TypeOK, RequestPC, Job, RequestType
<1>7. TypeOK'
  BY <1>4, <1>6 DEF Inv, TypeOK, StreamsOK
<1>8. RequestOK'
  BY <1>2, <1>6 DEF Inv, RequestOK, AnalysisPC, CheckedPC, PrepPC
<1>9. WorkerOK'
  BY <1>1, <1>4, WorkerUndisturbed DEF Inv, TypeOK
<1>10. SongOK'
  BY <1>4, <1>6 DEF Inv, SongOK, NeverPublished, NewSongPC
<1>11. ReferenceReady'
  BY <1>1, <1>2, <1>3, <1>4 DEF Inv, ReferenceReady, KeepsEntries, id
<1> QED
  BY <1>7, <1>8, <1>9, <1>10, <1>11 DEF Inv

\* Every round trip of Enqueue, Cancel and Retry keeps the invariant.
LEMMA AnalysisRequestOK ==
  ASSUME Inv, NEW r \in Requests, AnalysisRequest(r)
  PROVE  Inv'
<1> USE DEF unchangedWorker, At
<1>1. /\ req \in [Requests -> RequestType] /\ StreamsOK
      /\ status \in [Analyses -> AnalysisStatus \cup {"none"}]
      /\ streamId \in [Analyses -> Nat] /\ known \subseteq Analyses
      /\ "analyses" \in Streams /\ JobsOf("analyses") = Analyses
      /\ req[r].id \in Nat /\ req[r].job \in Job \cup {NoJob}
  BY InvStreams DEF Inv, TypeOK, Streams, JobsOf, RequestType
<1>2. /\ req[r].pc \in AnalysisPC => req[r].job \in Analyses
      /\ req[r].pc \in CheckedPC => SongOf[req[r].job] \in cached
  BY DEF Inv, RequestOK
<1>3. \A s \in Songs : ReadyForAnalysis(s) => s \in cached
  BY DEF Inv, SongOK, ReadyForAnalysis
<1>4. \A a \in Analyses : SongOf[a] \in Songs /\ a \in Job
  BY JobAssumption DEF Job
<1> USE DEF AnalysisPC, PrepPC, NewSongPC, CheckedPC, RequestPC, AnalysisStatus
<1>5. ASSUME NEW a \in Analyses, EnqueueStart(r, a) PROVE Inv'
  <2> DEFINE pc == IF ReadyForAnalysis(SongOf[a]) THEN "precheck" ELSE "create_waiting"
  <2>1. pc \in {"precheck", "create_waiting"} /\ (pc = "precheck" => SongOf[a] \in cached)
    BY <1>3, <1>4
  <2>2. /\ req' = [req EXCEPT ![r] = [pc |-> pc, job |-> a, id |-> 0]]
        /\ UNCHANGED <<status, streamId, known, prep, queue>> /\ unchangedWorker
    BY <1>5 DEF EnqueueStart, Begin
  <2> HIDE DEF pc
  <2>4. pc \in RequestPC /\ a \in Job \cup {NoJob}
    BY <1>4, <2>1
  <2>3. /\ req' \in [Requests -> RequestType]
        /\ req'[r].pc = pc /\ req'[r].job = a
        /\ \A t \in Requests \ {r} : req'[t] = req[t]
    <3> HIDE DEF RequestPC
    <3> QED
      BY <1>1, <2>2, <2>4, RequestBegins
  <2> QED
    BY <1>1, <2>1, <2>2, <2>3, QueueUnchanged, RequestMoves
<1>6. ASSUME NEW a \in Analyses, Cancel(r, a) PROVE Inv'
  BY <1>1, <1>4, <1>6, QueueUnchanged, RequestChange, RequestMoves DEF Cancel, SetStatus
<1>7. ASSUME NEW a \in Analyses, RetryStart(r, a) PROVE Inv'
  <2> DEFINE pc == IF ReadyForAnalysis(SongOf[a]) THEN "retry_precheck" ELSE "retry_waiting"
  <2>1. pc \in {"retry_precheck", "retry_waiting"} /\ (pc = "retry_precheck" => SongOf[a] \in cached)
    BY <1>3, <1>4
  <2>2. /\ req' = [req EXCEPT ![r] = [pc |-> pc, job |-> a, id |-> 0]]
        /\ UNCHANGED <<status, streamId, known, prep, queue>> /\ unchangedWorker
    BY <1>7 DEF RetryStart, Begin
  <2> HIDE DEF pc
  <2>4. pc \in RequestPC /\ a \in Job \cup {NoJob}
    BY <1>4, <2>1
  <2>3. /\ req' \in [Requests -> RequestType]
        /\ req'[r].pc = pc /\ req'[r].job = a
        /\ \A t \in Requests \ {r} : req'[t] = req[t]
    <3> HIDE DEF RequestPC
    <3> QED
      BY <1>1, <2>2, <2>4, RequestBegins
  <2> QED
    BY <1>1, <2>1, <2>2, <2>3, QueueUnchanged, RequestMoves
<1>8. CASE EnqueuePrecheck(r)
  BY <1>1, <1>2, <1>8, QueueUnchanged, RequestChange, RequestMoves DEF EnqueuePrecheck
<1>9. CASE EnqueueCreate(r)
  BY <1>1, <1>2, <1>9, QueueUnchanged, RequestChange, RequestMoves DEF EnqueueCreate
<1>10. CASE EnqueueCreateWaiting(r)
  <2>1. status' \in [Analyses -> AnalysisStatus \cup {"none"}]
    BY <1>1, <1>10 DEF EnqueueCreateWaiting
  <2>2. /\ Finish(r) /\ UNCHANGED <<streamId, prep, queue>> /\ unchangedWorker
        /\ known' = known \/ known' = known \cup {req[r].job}
    BY <1>10 DEF EnqueueCreateWaiting
  <2>3. known' \subseteq Analyses
    BY <1>1, <1>2, <1>10, <2>2 DEF EnqueueCreateWaiting, At
  <2> QED
    BY <1>1, <2>1, <2>2, <2>3, QueueUnchanged, RequestChange, RequestMoves
<1>11. CASE EnqueueAdmit(r)
  <2>1. CASE HasRoom("analyses")
    BY <1>1, <1>2, <1>11, <2>1, AnalysisPublished DEF EnqueueAdmit
  <2>2. CASE ~HasRoom("analyses")
    BY <1>1, <1>2, <1>11, <2>2, QueueUnchanged, RequestChange, RequestMoves DEF EnqueueAdmit
  <2> QED
    BY <2>1, <2>2
<1>12. CASE EnqueueRollback(r)
  BY <1>1, <1>2, <1>12, QueueUnchanged, RequestChange, RequestMoves DEF EnqueueRollback
<1>13. CASE SetQueueStreamID(r)
  <2>1. req[r].job \in Analyses /\ Finish(r)
        /\ UNCHANGED <<status, prep, queue>> /\ unchangedWorker
    BY <1>2, <1>13 DEF SetQueueStreamID
  <2>2. streamId' \in [Analyses -> Nat] /\ known' \subseteq Analyses
    BY <1>1, <1>13, <2>1 DEF SetQueueStreamID
  <2> QED
    BY <1>1, <2>1, <2>2, QueueUnchanged, RequestChange, RequestMoves
<1>14. CASE CancelRemove(r)
  <2>1. WellFormed(queue["analyses"], Analyses)
    BY <1>1 DEF StreamsOK
  <2>2. StreamsOK' /\ SameEntries /\ SamePending
    <3> DEFINE q == XDel(queue["analyses"], req[r].id)
    <3>1. queue' = [queue EXCEPT !["analyses"] = q]
      BY <1>14 DEF CancelRemove
    <3>2. WellFormed(q, Analyses) /\ SameJobs(q, queue["analyses"]) /\ q.pel = queue["analyses"].pel
      BY <2>1, XDelOK
    <3> HIDE DEF q
    <3> QED
      BY <1>1, <3>1, <3>2, StreamStep
  <2> QED
    BY <1>1, <1>2, <1>14, <2>2, RequestChange, RequestMoves DEF CancelRemove
<1>15. CASE RetryPrecheck(r)
  BY <1>1, <1>2, <1>15, QueueUnchanged, RequestChange, RequestMoves DEF RetryPrecheck
<1>16. CASE RetryUpdate(r)
  <2>1. /\ status' \in [Analyses -> AnalysisStatus \cup {"none"}]
        /\ streamId' \in [Analyses -> Nat]
    BY <1>1, <1>16 DEF RetryUpdate, ResetFailed
  <2>2. /\ Goto(r, "retry_add") \/ Finish(r)
        /\ UNCHANGED <<known, prep, queue>> /\ unchangedWorker
    BY <1>16 DEF RetryUpdate
  <2>3. req[r].job \in Analyses /\ SongOf[req[r].job] \in cached
    BY <1>2, <1>16 DEF RetryUpdate
  <2>4. CASE Goto(r, "retry_add")
    BY <1>1, <2>1, <2>2, <2>3, <2>4, QueueUnchanged, RequestChange, RequestMoves
  <2>5. CASE Finish(r)
    BY <1>1, <2>1, <2>2, <2>5, QueueUnchanged, RequestChange, RequestMoves
  <2> QED
    BY <2>2, <2>4, <2>5
<1>17. CASE RetryAdd(r)
  BY <1>1, <1>2, <1>17, AnalysisPublished DEF RetryAdd
<1>18. CASE RetryToWaitingForReference(r)
  <2>1. /\ status' \in [Analyses -> AnalysisStatus \cup {"none"}]
        /\ streamId' \in [Analyses -> Nat]
    BY <1>1, <1>18 DEF RetryToWaitingForReference, ResetFailed
  <2>2. Finish(r) /\ UNCHANGED <<known, prep, queue>> /\ unchangedWorker
    BY <1>18 DEF RetryToWaitingForReference
  <2> QED
    BY <1>1, <2>1, <2>2, QueueUnchanged, RequestChange, RequestMoves
<1> QED
  BY <1>5, <1>6, <1>7, <1>8, <1>9, <1>10, <1>11, <1>12, <1>13, <1>14, <1>15, <1>16, <1>17, <1>18 DEF AnalysisRequest

\* A song's job is published by the only request that may, then no longer new.
LEMMA SongPublished ==
  ASSUME Inv, NEW r \in Requests, req[r].pc \in {"prep_admit", "prep_add"},
         Publish("songs", req[r].job), Finish(r),
         UNCHANGED <<status, streamId, known, prep, cached, wk, complete, faults>>
  PROVE  Inv'
<1> DEFINE s == req[r].job
<1> DEFINE last == Len(queue["songs"].log)
<1>1. StreamsOK /\ "analyses" \in Streams /\ "songs" \in Streams /\ JobsOf("songs") = Songs
  BY InvStreams DEF Streams, JobsOf
<1>2. s \in Songs /\ s \in Job
  BY DEF Inv, RequestOK, PrepPC, Job
<1>3. last \in Nat
  BY <1>1, LenProperties DEF StreamsOK, WellFormed, StreamType
<1>4. /\ StreamsOK' /\ KeepsEntries /\ SamePending
      /\ queue'["analyses"] = queue["analyses"]
      /\ Len(queue'["songs"].log) = last + 1
      /\ JobAt(queue'["songs"], last + 1) = s
      /\ \A i \in 1 .. last : JobAt(queue'["songs"], i) = JobAt(queue["songs"], i)
  BY <1>1, <1>2, PublishOK DEF Publish, KeepsEntries
<1>5. /\ req' \in [Requests -> RequestType]
      /\ req'[r].pc = "idle"
      /\ \A t \in Requests \ {r} : req'[t] = req[t]
  BY <1>2, RequestChange DEF Inv, TypeOK, RequestPC
<1> HIDE DEF last
<1>6. \A u : NeverPublished(u)' <=> NeverPublished(u) /\ u # s
  BY <1>3, <1>4 DEF NeverPublished, last
<1> HIDE DEF s
<1>7. TypeOK'
  BY <1>4, <1>5 DEF Inv, TypeOK, StreamsOK
<1>8. RequestOK'
  BY <1>5 DEF Inv, RequestOK, AnalysisPC, CheckedPC, PrepPC
<1>9. WorkerOK'
  BY <1>1, <1>4, WorkerUndisturbed DEF Inv, TypeOK
<1>10. SongOK'
  <2>1. prep[s] # "none"
    BY <1>2 DEF Inv, SongOK, NewSongPC, s
  <2>2. \A t \in Requests \ {r} : req[t].pc \in NewSongPC => req[t].job # s
    BY <1>2 DEF Inv, SongOK, NewSongPC, s
  <2> QED
    BY <1>5, <1>6, <2>1, <2>2 DEF Inv, SongOK, NewSongPC
<1>11. ReferenceReady'
  BY <1>4 DEF Inv, ReferenceReady
<1> QED
  BY <1>7, <1>8, <1>9, <1>10, <1>11 DEF Inv

\* A song's request and the log of songs:prep disagree at no step.
LEMMA SongRequestOK ==
  ASSUME Inv, NEW r \in Requests, SongRequest(r)
  PROVE  Inv'
<1> USE DEF unchangedWorker, At
<1>1. /\ req \in [Requests -> RequestType] /\ StreamsOK
      /\ status \in [Analyses -> AnalysisStatus \cup {"none"}]
      /\ prep \in [Songs -> PrepStatus \cup {"none"}]
      /\ streamId \in [Analyses -> Nat] /\ known \subseteq Analyses
      /\ "songs" \in Streams /\ "analyses" \in Streams /\ JobsOf("songs") = Songs
      /\ 0 \in Nat
  BY InvStreams DEF Inv, TypeOK, Streams, JobsOf
<1>2. /\ req[r].pc \in PrepPC => req[r].job \in Songs
      /\ req[r].pc \in NewSongPC =>
           /\ prep[req[r].job] = "pending"
           /\ req[r].job \notin cached /\ NeverPublished(req[r].job)
      /\ req[r].pc = "prep_add" => ~NeverPublished(req[r].job)
  BY DEF Inv, RequestOK, SongOK
<1>3. \A s \in Songs : s \in Job
  BY DEF Job
<1>4. Len(queue["songs"].log) \in Nat
  BY <1>1, LenProperties DEF StreamsOK, WellFormed, StreamType
<1> USE DEF AnalysisPC, PrepPC, NewSongPC, CheckedPC, RequestPC, PrepStatus
<1>5. ASSUME NEW s \in Songs, AddSong(r, s) PROVE Inv'
  <2>1. /\ req' = [req EXCEPT ![r] = [pc |-> "prep_admit", job |-> s, id |-> 0]]
        /\ prep' = [prep EXCEPT ![s] = "pending"]
        /\ prep[s] = "none" /\ ~InFlight(s)
        /\ UNCHANGED <<status, streamId, known, queue, wk, complete, cached, faults>>
    BY <1>5 DEF AddSong, Begin
  <2>2. /\ req' \in [Requests -> RequestType]
        /\ req'[r].pc = "prep_admit" /\ req'[r].job = s
        /\ \A t \in Requests \ {r} : req'[t] = req[t]
    BY <1>1, <1>3, <2>1, RequestChange
  <2>3. /\ StreamsOK' /\ SameEntries /\ SamePending /\ KeepsEntries /\ ReferenceReady'
        /\ \A u : NeverPublished(u)' <=> NeverPublished(u)
    BY <1>1, <2>1, QueueUnchanged, SameKeepsEntries DEF Inv
  <2>4. TypeOK'
    BY <1>1, <2>1, <2>2, <2>3 DEF Inv, TypeOK, StreamsOK
  <2>5. RequestOK'
    BY <2>1, <2>2 DEF Inv, RequestOK
  <2>6. WorkerOK'
    BY <1>1, <2>1, <2>3, WorkerUndisturbed DEF Inv, TypeOK
  <2>7. SongOK'
    <3>1. s \notin cached /\ NeverPublished(s)
      BY <2>1 DEF Inv, SongOK
    <3>2. \A t \in Requests : req[t].pc \in NewSongPC => req[t].job # s
      BY <2>1 DEF InFlight
    <3> QED
      BY <1>1, <2>1, <2>2, <2>3, <3>1, <3>2 DEF Inv, SongOK
  <2> QED
    BY <2>3, <2>4, <2>5, <2>6, <2>7 DEF Inv
<1>6. ASSUME NEW s \in Songs, RetryPrepStart(r, s) PROVE Inv'
  <2>1. /\ req' = [req EXCEPT ![r] = [pc |-> "prep_reset", job |-> s, id |-> 0]]
        /\ UNCHANGED <<status, streamId, known, prep, queue, wk, complete, cached, faults>>
    BY <1>6 DEF RetryPrepStart, Begin
  <2>2. /\ req' \in [Requests -> RequestType]
        /\ req'[r].pc = "prep_reset" /\ req'[r].job = s
        /\ \A t \in Requests \ {r} : req'[t] = req[t]
    BY <1>1, <1>3, <2>1, RequestChange
  <2> QED
    BY <1>1, <2>1, <2>2, QueueUnchanged, RequestMoves
<1>7. CASE EnqueuePrep(r)
  <2>1. CASE HasRoom("songs")
    <3>1. Publish("songs", req[r].job) /\ Finish(r)
          /\ UNCHANGED <<status, streamId, known, prep, cached, wk, complete, faults>>
      BY <1>7, <2>1 DEF EnqueuePrep
    <3> QED
      BY <1>1, <1>2, <1>7, <3>1, RequestChange, SongPublished DEF EnqueuePrep
  <2>2. CASE ~HasRoom("songs")
    <3>1. /\ Goto(r, "prep_rollback") /\ req[r].pc = "prep_admit"
          /\ UNCHANGED <<status, streamId, known, prep, queue, wk, complete, cached, faults>>
      BY <1>7, <2>2 DEF EnqueuePrep
    <3>2. /\ req' \in [Requests -> RequestType]
          /\ req'[r].pc = "prep_rollback" /\ req'[r].job = req[r].job
          /\ \A t \in Requests \ {r} : req'[t] = req[t]
      BY <1>1, <3>1, RequestChange
    <3>3. /\ StreamsOK' /\ SameEntries /\ SamePending /\ KeepsEntries /\ ReferenceReady'
          /\ \A u : NeverPublished(u)' <=> NeverPublished(u)
      BY <1>1, <3>1, QueueUnchanged, SameKeepsEntries DEF Inv
    <3>4. TypeOK'
      BY <1>1, <3>1, <3>2, <3>3 DEF Inv, TypeOK, StreamsOK
    <3>5. RequestOK'
      BY <3>1, <3>2 DEF Inv, RequestOK
    <3>6. WorkerOK'
      BY <1>1, <3>1, <3>3, WorkerUndisturbed DEF Inv, TypeOK
    <3>7. SongOK'
      BY <3>1, <3>2, <3>3 DEF Inv, SongOK
    <3> QED
      BY <3>3, <3>4, <3>5, <3>6, <3>7 DEF Inv
  <2> QED
    BY <2>1, <2>2
<1>8. CASE EnqueuePrepRollback(r)
  <2> DEFINE s == req[r].job
  <2>1. s \in Songs /\ s \notin cached /\ NeverPublished(s)
    BY <1>2, <1>8 DEF EnqueuePrepRollback
  <2>2. /\ prep' = [prep EXCEPT ![s] = "none"] /\ cached' = cached /\ complete' \subseteq complete
        /\ status' \in [Analyses -> AnalysisStatus \cup {"none"}]
        /\ req[r].pc = "prep_rollback" /\ Finish(r)
        /\ UNCHANGED <<streamId, known, queue, wk, faults>>
    BY <1>1, <1>8, <2>1 DEF EnqueuePrepRollback
  <2>3. /\ req' \in [Requests -> RequestType]
        /\ req'[r].pc = "idle"
        /\ \A t \in Requests \ {r} : req'[t] = req[t]
    BY <1>1, <1>3, <2>1, <2>2, RequestChange
  <2>4. /\ StreamsOK' /\ SameEntries /\ SamePending /\ KeepsEntries /\ ReferenceReady'
        /\ \A u : NeverPublished(u)' <=> NeverPublished(u)
    BY <1>1, <2>2, QueueUnchanged, SameKeepsEntries DEF Inv
  <2> HIDE DEF s
  <2>5. TypeOK'
    BY <1>1, <2>1, <2>2, <2>3, <2>4 DEF Inv, TypeOK, StreamsOK
  <2>6. RequestOK'
    BY <2>2, <2>3 DEF Inv, RequestOK
  <2>7. WorkerOK'
    BY <1>1, <2>2, <2>4, WorkerUndisturbed DEF Inv, TypeOK
  <2>8. SongOK'
    BY <1>1, <2>1, <2>2, <2>3, <2>4 DEF Inv, SongOK, s
  <2> QED
    BY <2>4, <2>5, <2>6, <2>7, <2>8 DEF Inv
<1>9. CASE RetryPrepReset(r)
  <2> DEFINE s == req[r].job
  <2>1. s \in Songs
    BY <1>2, <1>9 DEF RetryPrepReset
  <2>2. CASE prep[s] = "failed"
    <3>1. SetPrep(s, "pending") /\ Goto(r, "prep_add")
          /\ UNCHANGED <<status, streamId, known, queue, wk, complete, cached, faults>>
      BY <1>9, <2>2 DEF RetryPrepReset
    <3>2. /\ req' \in [Requests -> RequestType]
          /\ req'[r].pc = "prep_add" /\ req'[r].job = s
          /\ \A t \in Requests \ {r} : req'[t] = req[t]
      BY <1>1, <3>1, RequestChange
    <3>3. /\ StreamsOK' /\ SameEntries /\ SamePending /\ KeepsEntries /\ ReferenceReady'
          /\ \A u : NeverPublished(u)' <=> NeverPublished(u)
      BY <1>1, <3>1, QueueUnchanged, SameKeepsEntries DEF Inv
    <3>4. ~NeverPublished(s)
      BY <2>1, <2>2 DEF Inv, SongOK
    <3> HIDE DEF s
    <3>5. TypeOK'
      BY <1>1, <3>1, <3>2, <3>3 DEF Inv, TypeOK, StreamsOK, SetPrep
    <3>6. RequestOK'
      BY <2>1, <3>1, <3>2 DEF Inv, RequestOK
    <3>7. WorkerOK'
      BY <1>1, <3>1, <3>3, WorkerUndisturbed DEF Inv, TypeOK
    <3>8. SongOK'
      BY <1>1, <2>1, <3>1, <3>2, <3>3, <3>4 DEF Inv, RequestOK, SongOK, SetPrep
    <3> QED
      BY <3>3, <3>5, <3>6, <3>7, <3>8 DEF Inv
  <2>3. CASE prep[s] # "failed"
    BY <1>1, <1>9, <2>1, <2>3, QueueUnchanged, RequestChange, RequestMoves DEF RetryPrepReset
  <2> QED
    BY <2>2, <2>3
<1>10. CASE RetryPrepAdd(r)
  BY <1>1, <1>2, <1>10, RequestChange, SongPublished DEF RetryPrepAdd
<1> QED
  BY <1>5, <1>6, <1>7, <1>8, <1>9, <1>10 DEF SongRequest

\* So does a round trip of any request that fails.
LEMMA ApiFaultOK ==
  ASSUME Inv, NEW r \in Requests, ApiFault(r)
  PROVE  Inv'
<1>1. /\ req \in [Requests -> RequestType] /\ StreamsOK
      /\ status \in [Analyses -> AnalysisStatus \cup {"none"}]
      /\ streamId \in [Analyses -> Nat] /\ known \subseteq Analyses
      /\ faults \in 0 .. MaxFaults
  BY InvStreams DEF Inv, TypeOK
<1>2. /\ Finish(r) /\ faults < MaxFaults /\ faults' = faults + 1
      /\ UNCHANGED <<status, streamId, known, prep, queue, wk, complete, cached>>
  BY DEF ApiFault, Fault
<1>3. /\ req' \in [Requests -> RequestType]
      /\ req'[r].pc = "idle"
      /\ \A t \in Requests \ {r} : req'[t] = req[t]
  <2>1. "idle" \in RequestPC /\ NoJob \in Job \cup {NoJob} /\ 0 \in Nat
    BY DEF RequestPC
  <2> QED
    BY <1>1, <1>2, <2>1, RequestChange
<1>4. /\ StreamsOK' /\ SameEntries /\ SamePending /\ KeepsEntries /\ ReferenceReady'
      /\ \A u : NeverPublished(u)' <=> NeverPublished(u)
  BY <1>1, <1>2, QueueUnchanged, SameKeepsEntries DEF Inv
<1>5. TypeOK'
  BY <1>1, <1>2, <1>3, <1>4, BoundAssumption DEF Inv, TypeOK, StreamsOK
<1>6. RequestOK'
  BY <1>2, <1>3 DEF Inv, RequestOK, AnalysisPC, PrepPC, CheckedPC
<1>7. WorkerOK'
  BY <1>1, <1>2, <1>4, WorkerUndisturbed DEF Inv, TypeOK
<1>8. SongOK'
  BY <1>2, <1>3, <1>4 DEF Inv, SongOK, NewSongPC
<1> QED
  BY <1>4, <1>5, <1>6, <1>7, <1>8 DEF Inv
-----------------------------------------------------------------------------
\* The worker goes on to another point of the code.
LEMMA WorkerChange ==
  ASSUME wk \in WorkerType, NEW pc \in WorkerPC
  PROVE  /\ Goes(pc) =>
              /\ wk' \in WorkerType /\ wk'.pc = pc
              /\ wk'.phase = wk.phase /\ wk'.stream = wk.stream /\ wk'.entry = wk.entry
              /\ wk'.todo = wk.todo /\ wk'.wake = wk.wake
         /\ Return =>
              /\ wk' \in WorkerType
              /\ wk'.phase = wk.phase /\ wk'.stream = wk.stream /\ wk'.entry = wk.entry
              /\ wk.phase = "main" => wk'.pc = "loop"
              /\ wk.phase # "main" => wk'.pc = "reclaim" /\ wk'.todo = wk.todo \ {wk.entry}
<1> USE DEF WorkerType, WorkerPC
<1>1. Goes(pc) =>
              /\ wk' \in WorkerType /\ wk'.pc = pc
              /\ wk'.phase = wk.phase /\ wk'.stream = wk.stream /\ wk'.entry = wk.entry
              /\ wk'.todo = wk.todo /\ wk'.wake = wk.wake
  BY DEF Goes
<1>2. ASSUME Return
      PROVE  /\ wk' \in WorkerType
             /\ wk'.phase = wk.phase /\ wk'.stream = wk.stream /\ wk'.entry = wk.entry
             /\ wk.phase = "main" => wk'.pc = "loop"
             /\ wk.phase # "main" => wk'.pc = "reclaim" /\ wk'.todo = wk.todo \ {wk.entry}
  <2>1. CASE wk.phase = "main"
    BY <1>2, <2>1 DEF Return
  <2>2. CASE wk.phase # "main"
    <3> DEFINE rest == wk.todo \ {wk.entry}
    <3>1. wk' = [wk EXCEPT !.pc = "reclaim", !.todo = rest]
      BY <1>2, <2>2 DEF Return
    <3>2. rest \in SUBSET Nat
      OBVIOUS
    <3> HIDE DEF rest
    <3>3. /\ wk' \in WorkerType
          /\ wk'.phase = wk.phase /\ wk'.stream = wk.stream /\ wk'.entry = wk.entry
          /\ wk'.pc = "reclaim" /\ wk'.todo = rest
      BY <3>1, <3>2
    <3> QED
      BY <2>2, <3>3 DEF rest
  <2> QED
    BY <2>1, <2>2
<1> QED
  BY <1>1, <1>2

\* A worker that stays with its entry, or leaves it, keeps its own books.
LEMMA WorkerGoesOK ==
  ASSUME Inv, StreamsOK', SameEntries, SamePending, cached \subseteq cached',
         wk.pc \in EntryPC \ {"del"},
         NEW pc \in EntryPC \ {"delivered", "publish", "del"}, Goes(pc),
         pc \in {"wake", "fail_waiting", "give_up_waiting"} => wk.stream = "songs",
         pc = "wake" => JobId \in cached'
  PROVE  wk' \in WorkerType /\ WorkerOK'
<1>1. wk \in WorkerType /\ wk.stream \in Streams /\ StreamsOK
  BY InvStreams DEF Inv, TypeOK, WorkerType
<1>2. /\ wk' \in WorkerType /\ wk'.pc = pc
      /\ wk'.phase = wk.phase /\ wk'.stream = wk.stream /\ wk'.entry = wk.entry
      /\ wk'.todo = wk.todo /\ wk'.wake = wk.wake
  BY <1>1, WorkerChange DEF EntryPC
<1>3. wk.entry \in 1 .. Len(queue'[wk.stream].log) /\ JobId' = JobId
  BY <1>1, <1>2 DEF Inv, WorkerOK, SameEntries, SameJobs, JobId
<1>4. queue'[wk.stream].pel = queue[wk.stream].pel
  BY <1>1 DEF SamePending
<1> QED
  BY <1>2, <1>3, <1>4 DEF Inv, WorkerOK, EntryPC

\* process_entry returns: what is still to be reclaimed is still pending.
LEMMA WorkerReturnsOK ==
  ASSUME Inv, StreamsOK', SameEntries, SamePending, Return,
         wk.pc \in EntryPC
  PROVE  wk' \in WorkerType /\ WorkerOK'
<1>1. wk \in WorkerType /\ wk.stream \in Streams /\ "loop" \in WorkerPC
  BY DEF Inv, TypeOK, WorkerType, WorkerPC
<1>2. /\ wk' \in WorkerType
      /\ wk'.phase = wk.phase /\ wk'.stream = wk.stream
      /\ wk.phase = "main" => wk'.pc = "loop"
      /\ wk.phase # "main" => wk'.pc = "reclaim" /\ wk'.todo = wk.todo \ {wk.entry}
  BY <1>1, WorkerChange
<1>3. queue'[wk.stream].pel = queue[wk.stream].pel
  BY <1>1 DEF SamePending
<1>4. wk.phase # "main" => wk.todo \ {wk.entry} \subseteq queue[wk.stream].pel
  BY DEF Inv, WorkerOK
<1> QED
  BY <1>2, <1>3, <1>4 DEF WorkerOK, EntryPC

\* What a worker step that keeps the songs' rows has to show.
LEMMA WorkerMoves ==
  ASSUME Inv, StreamsOK', SameEntries,
         UNCHANGED <<req, known, streamId, prep, cached>>,
         status' \in [Analyses -> AnalysisStatus \cup {"none"}],
         complete' \subseteq Job, faults' \in 0 .. MaxFaults,
         wk' \in WorkerType, WorkerOK'
  PROVE  Inv'
<1>1. ReferenceReady' /\ \A u : NeverPublished(u)' <=> NeverPublished(u)
  BY InvStreams, SameKeepsEntries DEF Inv
<1>2. TypeOK'
  BY DEF Inv, TypeOK, StreamsOK
<1>3. RequestOK'
  BY DEF Inv, RequestOK
<1>4. SongOK'
  BY <1>1 DEF Inv, SongOK
<1> QED
  BY <1>1, <1>2, <1>3, <1>4 DEF Inv

\* And one that records the outcome of the preparation it is at.
LEMMA WorkerSettlesSong ==
  ASSUME Inv, UNCHANGED <<queue, req, known, streamId, status, complete, faults>>,
         wk.pc \in EntryPC, wk.stream = "songs",
         NEW new \in {"processing", "ready", "failed"}, SetPrep(JobId, new),
         cached' \in {cached, cached \cup {JobId}}, new = "ready" => JobId \in cached',
         wk' \in WorkerType, WorkerOK'
  PROVE  Inv'
<1> DEFINE s == JobId
<1>1. /\ StreamsOK /\ SameEntries /\ StreamsOK'
      /\ \A u : NeverPublished(u)' <=> NeverPublished(u)
  BY InvStreams, QueueUnchanged, SameKeepsEntries
<1>2. s \in Songs /\ ~NeverPublished(s)
  <2>1. WellFormed(queue["songs"], Songs)
    BY <1>1 DEF StreamsOK, Streams, JobsOf
  <2>2. wk.entry \in 1 .. Len(queue["songs"].log)
    BY DEF Inv, WorkerOK
  <2>3. queue["songs"].log[wk.entry] \in [job : Songs, times : Nat]
    <3>1. queue["songs"].log \in Seq([job : Songs, times : Nat])
      BY <2>1 DEF WellFormed, StreamType
    <3> QED
      BY <2>2, <3>1, ElementOfSeq
  <2> QED
    BY <2>2, <2>3 DEF NeverPublished, JobId, JobAt
<1> HIDE DEF s
<1>3. TypeOK'
  <2>1. prep' \in [Songs -> PrepStatus \cup {"none"}] /\ cached' \subseteq Songs
    BY <1>2 DEF Inv, TypeOK, SetPrep, PrepStatus, s
  <2> QED
    BY <1>1, <2>1 DEF Inv, TypeOK, StreamsOK
<1>4. RequestOK'
  BY DEF Inv, RequestOK
<1>5. SongOK'
  <2>1. /\ prep' = [t \in Songs |-> IF t = s /\ prep[t] # "none" THEN new ELSE prep[t]]
        /\ cached' \subseteq cached \cup {s} /\ cached \subseteq cached'
        /\ new = "ready" => s \in cached'
    BY DEF SetPrep, s
  <2>2. /\ \A r \in Requests : req[r].pc \in NewSongPC => req[r].job # s
        /\ \A r \in Requests : req[r].pc \in NewSongPC => req[r].job \in Songs
        /\ prep[s] # "none"
    BY <1>2 DEF Inv, SongOK, RequestOK, NewSongPC, PrepPC
  <2> QED
    BY <1>1, <1>2, <2>1, <2>2 DEF Inv, SongOK
<1>6. ReferenceReady'
  BY DEF Inv, ReferenceReady
<1> QED
  BY <1>3, <1>4, <1>5, <1>6 DEF Inv
-----------------------------------------------------------------------------
\* What the steps of the worker find.
LEMMA WorkerFacts ==
  ASSUME Inv
  PROVE  /\ wk \in WorkerType /\ wk.stream \in Streams /\ StreamsOK
         /\ "analyses" \in Streams /\ "songs" \in Streams
         /\ status \in [Analyses -> AnalysisStatus \cup {"none"}]
         /\ complete \subseteq Job /\ cached \subseteq Songs
         /\ faults \in 0 .. MaxFaults
         /\ \A n \in Streams : /\ WellFormed(queue[n], JobsOf(n))
                               /\ Len(queue[n].log) \in Nat
                               /\ queue[n].last \in 0 .. Len(queue[n].log)
                               /\ queue[n].pel \subseteq 1 .. Len(queue[n].log)
         /\ wk.pc \in EntryPC => JobId \in JobsOf(wk.stream)
<1>1. /\ wk \in WorkerType /\ wk.stream \in Streams /\ StreamsOK
      /\ "analyses" \in Streams /\ "songs" \in Streams
  BY InvStreams DEF Inv, TypeOK, WorkerType, Streams
<1>2. ASSUME NEW n \in Streams
      PROVE  /\ WellFormed(queue[n], JobsOf(n))
             /\ queue[n].log \in Seq([job : JobsOf(n), times : Nat])
             /\ Len(queue[n].log) \in Nat
             /\ queue[n].last \in 0 .. Len(queue[n].log)
             /\ queue[n].pel \subseteq 1 .. Len(queue[n].log)
  <2> DEFINE J == JobsOf(n)
  <2>1. WellFormed(queue[n], J)
    BY <1>1 DEF StreamsOK
  <2> HIDE DEF J
  <2>2. /\ queue[n].log \in Seq([job : J, times : Nat])
        /\ queue[n].last \in Nat /\ queue[n].last <= Len(queue[n].log)
        /\ queue[n].pel \subseteq 1 .. queue[n].last
    BY <2>1 DEF WellFormed, StreamType
  <2>3. Len(queue[n].log) \in Nat
    BY <2>2, LenProperties
  <2> QED
    BY <2>1, <2>2, <2>3 DEF J
<1>3. wk.pc \in EntryPC => JobId \in JobsOf(wk.stream)
  <2>1. wk.pc \in EntryPC => wk.entry \in 1 .. Len(queue[wk.stream].log)
    BY DEF Inv, WorkerOK
  <2>2. wk.pc \in EntryPC =>
          queue[wk.stream].log[wk.entry] \in [job : JobsOf(wk.stream), times : Nat]
    BY <1>1, <1>2, <2>1, ElementOfSeq
  <2> QED
    BY <2>2 DEF JobId, JobAt
<1> QED
  BY <1>1, <1>2, <1>3 DEF Inv, TypeOK

\* SetStatus writes a legal status, whatever rows it names.
LEMMA SetStatusOK ==
  ASSUME status \in [Analyses -> AnalysisStatus \cup {"none"}],
         NEW ids, NEW new \in AnalysisStatus, SetStatus(ids, new)
  PROVE  status' \in [Analyses -> AnalysisStatus \cup {"none"}]
BY DEF SetStatus

\* A starting worker, and one that goes to the next stream to reclaim.
LEMMA StartOK ==
  ASSUME Inv, Start
  PROVE  Inv'
<1> USE DEF unchangedAPI, unchangedTables
<1>1. PICK renamed \in BOOLEAN :
        queue' = [n \in Streams |-> IF renamed THEN RenameConsumer(queue[n]) ELSE queue[n]]
  BY DEF Start
<1>2. StreamsOK' /\ SameEntries /\ SamePending
  <2>1. \A n \in Streams : /\ WellFormed(RenameConsumer(queue[n]), JobsOf(n))
                           /\ SameJobs(RenameConsumer(queue[n]), queue[n])
                           /\ RenameConsumer(queue[n]).pel = queue[n].pel
    BY WorkerFacts, RenameConsumerOK
  <2>2. \A n \in Streams : WellFormed(queue[n], JobsOf(n)) /\ SameJobs(queue[n], queue[n])
    BY WorkerFacts DEF SameJobs
  <2> QED
    BY <1>1, <2>1, <2>2 DEF StreamsOK, SameEntries, SamePending
<1>3. PICK stuck \in IdleEntries("analyses") :
        wk' = [Down EXCEPT !.pc = "reclaim", !.phase = "analyses", !.todo = stuck]
  BY DEF Start
<1>4. stuck \subseteq queue["analyses"].pel /\ stuck \in SUBSET Nat
  <2>1. stuck \subseteq queue["analyses"].pel
    BY <1>3 DEF IdleEntries
  <2> QED
    BY <2>1, WorkerFacts DEF WellFormed, StreamType
<1>5. wk' \in WorkerType /\ WorkerOK'
  <2>1. /\ wk' \in WorkerType /\ wk'.pc = "reclaim" /\ wk'.phase = "analyses"
        /\ wk'.stream = "analyses" /\ wk'.todo = stuck
    BY <1>3, <1>4 DEF Down, WorkerType, WorkerPC, Streams
  <2> QED
    BY <1>2, <1>4, <2>1, WorkerFacts DEF WorkerOK, EntryPC, SamePending
<1> QED
  BY <1>2, <1>5, WorkerFacts, WorkerMoves DEF Start

\* The sweep of one stream is over.
LEMMA ReclaimNextOK ==
  ASSUME Inv, ReclaimNext
  PROVE  Inv'
<1> USE DEF unchangedAPI, unchangedTables, WorkerAt
<1>1. StreamsOK' /\ SameEntries /\ SamePending
  BY WorkerFacts, QueueUnchanged DEF ReclaimNext
<1>2. wk' \in WorkerType /\ WorkerOK'
  <2>1. CASE wk.phase = "analyses"
    <3>1. PICK stuck \in IdleEntries("songs") :
            wk' = [wk EXCEPT !.phase = "songs", !.stream = "songs", !.todo = stuck]
      BY <2>1 DEF ReclaimNext
    <3>2. stuck \subseteq queue["songs"].pel
      BY <3>1 DEF IdleEntries
    <3>3. stuck \in SUBSET Nat
      BY <3>2, WorkerFacts DEF WellFormed, StreamType
    <3>4. /\ wk' \in WorkerType /\ wk'.pc = "reclaim" /\ wk'.phase = "songs"
          /\ wk'.stream = "songs" /\ wk'.todo = stuck
      BY <3>1, <3>3, WorkerFacts DEF ReclaimNext, WorkerType, Streams
    <3> QED
      BY <1>1, <3>2, <3>4, WorkerFacts DEF WorkerOK, EntryPC, SamePending
  <2>2. CASE wk.phase # "analyses"
    <3>1. wk' = [wk EXCEPT !.phase = "main", !.pc = "loop"]
      BY <2>2 DEF ReclaimNext
    <3>2. wk' \in WorkerType /\ wk'.pc = "loop" /\ wk'.phase = "main"
      BY <3>1, WorkerFacts DEF WorkerType, WorkerPC
    <3> QED
      BY <3>2 DEF WorkerOK, EntryPC
  <2> QED
    BY <2>1, <2>2
<1> QED
  BY <1>1, <1>2, WorkerFacts, WorkerMoves DEF ReclaimNext

\* Reclaim takes up entries that are pending, so that they exist.
LEMMA ReclaimEntryOK ==
  ASSUME Inv, ReclaimEntry
  PROVE  Inv'
<1> USE DEF unchangedAPI, unchangedTables, WorkerAt
<1> DEFINE q == queue[wk.stream]
<1>1. PICK i \in wk.todo :
        IF GivesUp(q.log[i].times)
        THEN /\ wk' = [wk EXCEPT !.entry = i, !.pc = IF i \in q.live THEN "give_up" ELSE "drop"]
             /\ UNCHANGED queue
        ELSE /\ queue' = [queue EXCEPT ![wk.stream] = XClaim(q, i)]
             /\ wk' = IF i \in q.live
                      THEN [wk EXCEPT !.entry = i, !.pc = "handle"]
                      ELSE [wk EXCEPT !.todo = @ \ {i}]
  BY DEF ReclaimEntry
<1>2. /\ wk.pc = "reclaim" /\ wk.phase # "main" /\ wk.todo \subseteq q.pel
      /\ wk.todo \in SUBSET Nat /\ i \in q.pel /\ i \in Nat
  BY <1>1, WorkerFacts DEF ReclaimEntry, Inv, WorkerOK, WorkerType
<1>3. WellFormed(q, JobsOf(wk.stream)) /\ i \in 1 .. Len(q.log)
  BY <1>2, WorkerFacts
<1>4. /\ StreamsOK' /\ SameEntries /\ wk' \in WorkerType /\ WorkerOK'
  <2>1. CASE GivesUp(q.log[i].times)
    <3>1. StreamsOK' /\ SameEntries /\ UNCHANGED queue
      BY <1>1, <2>1, WorkerFacts, QueueUnchanged
    <3> DEFINE pc == IF i \in q.live THEN "give_up" ELSE "drop"
    <3>2. wk' = [wk EXCEPT !.entry = i, !.pc = pc] /\ pc \in {"give_up", "drop"}
      BY <1>1, <2>1
    <3> HIDE DEF pc
    <3>3. /\ wk' \in WorkerType /\ wk'.pc \in {"give_up", "drop"} /\ wk'.entry = i
          /\ wk'.stream = wk.stream /\ wk'.todo = wk.todo /\ wk'.phase = wk.phase
      BY <1>2, <3>2, WorkerFacts DEF WorkerType, WorkerPC
    <3> QED
      BY <1>2, <1>3, <3>1, <3>3 DEF WorkerOK
  <2>2. CASE ~GivesUp(q.log[i].times)
    <3> DEFINE p == XClaim(q, i)
    <3>1. /\ WellFormed(p, JobsOf(wk.stream)) /\ SameJobs(p, q)
          /\ p.pel = IF i \in q.live THEN q.pel ELSE q.pel \ {i}
      <4> HIDE DEF q
      <4> QED
        BY <1>2, <1>3, XClaimOK
    <3>2. queue' = [queue EXCEPT ![wk.stream] = p]
      BY <1>1, <2>2
    <3> HIDE DEF p
    <3>3. StreamsOK' /\ SameEntries /\ queue'[wk.stream] = p
      BY <3>1, <3>2, WorkerFacts, StreamStep DEF StreamsOK
    <3>4. CASE i \in q.live
      <4>1. wk' = [wk EXCEPT !.entry = i, !.pc = "handle"]
        BY <1>1, <2>2, <3>4
      <4>2. /\ wk' \in WorkerType /\ wk'.pc = "handle" /\ wk'.entry = i
            /\ wk'.stream = wk.stream /\ wk'.todo = wk.todo /\ wk'.phase = wk.phase
        BY <1>2, <4>1, WorkerFacts DEF WorkerType, WorkerPC
      <4> QED
        BY <1>2, <1>3, <3>1, <3>3, <3>4, <4>2 DEF WorkerOK, SameJobs
    <3>5. CASE i \notin q.live
      <4> DEFINE rest == wk.todo \ {i}
      <4>1. wk' = [wk EXCEPT !.todo = rest] /\ rest \in SUBSET Nat
        BY <1>1, <1>2, <2>2, <3>5
      <4> HIDE DEF rest
      <4>2. /\ wk' \in WorkerType /\ wk'.pc = "reclaim"
            /\ wk'.stream = wk.stream /\ wk'.todo = rest /\ wk'.phase = wk.phase
        BY <1>2, <4>1, WorkerFacts DEF WorkerType
      <4> QED
        BY <1>2, <3>1, <3>3, <3>5, <4>2 DEF WorkerOK, EntryPC, rest
    <3> QED
      BY <3>4, <3>5
  <2> QED
    BY <2>1, <2>2
<1> QED
  BY <1>4, WorkerFacts, WorkerMoves DEF ReclaimEntry

\* The tick's entry has just been delivered to this worker.
LEMMA TickAnalysesOK ==
  ASSUME Inv, TickAnalyses
  PROVE  Inv'
<1> USE DEF unchangedAPI, unchangedTables, WorkerAt
<1> DEFINE q == queue["analyses"]
<1>1. PICK i \in Undelivered(q) :
        /\ queue' = [queue EXCEPT !["analyses"] = XReadGroup(@, i)]
        /\ wk' = [wk EXCEPT !.pc = "delivered", !.stream = "analyses", !.entry = i]
  BY DEF TickAnalyses
<1>2. WellFormed(q, JobsOf("analyses")) /\ Len(q.log) \in Nat /\ q.last \in Nat
  BY WorkerFacts
<1>3. i \in q.last .. Len(q.log) /\ i \in 1 .. Len(q.log) /\ i \in Nat
  BY <1>1, <1>2 DEF Undelivered, WellFormed
<1> DEFINE p == XReadGroup(q, i)
<1>4. queue' = [queue EXCEPT !["analyses"] = p]
  BY <1>1
<1> HIDE DEF q
<1>5. WellFormed(p, JobsOf("analyses")) /\ SameJobs(p, q)
  BY <1>2, <1>3, XReadGroupOK
<1> HIDE DEF p
<1>6. StreamsOK' /\ SameEntries /\ queue'["analyses"] = p
  BY <1>4, <1>5, WorkerFacts, StreamStep DEF StreamsOK, q
<1>7. /\ wk.phase = "main" /\ wk' \in WorkerType /\ wk'.pc = "delivered"
      /\ wk'.stream = "analyses" /\ wk'.entry = i /\ wk'.phase = wk.phase
  BY <1>1, <1>3, WorkerFacts DEF TickAnalyses, Inv, WorkerOK, WorkerType, WorkerPC, Streams
<1>8. WorkerOK'
  BY <1>3, <1>5, <1>6, <1>7 DEF WorkerOK, SameJobs
<1> QED
  BY <1>6, <1>7, <1>8, WorkerFacts, WorkerMoves DEF TickAnalyses

\* The tick picks one of the entries pending under the worker's own name.
LEMMA TickSongsOK ==
  ASSUME Inv, TickSongs
  PROVE  Inv'
<1> USE DEF unchangedAPI, unchangedTables, WorkerAt
<1> DEFINE old == queue["songs"]
<1> DEFINE q == ClaimNewEntries(old)
<1>1. queue' = [queue EXCEPT !["songs"] = q] /\ (PriorityPrep(q) \/ NextPrep(q))
  BY DEF TickSongs
<1>2. WellFormed(old, JobsOf("songs")) /\ Len(old.log) \in old.last .. Len(old.log)
  BY WorkerFacts
<1> HIDE DEF old
<1>3. WellFormed(q, JobsOf("songs")) /\ SameJobs(q, old)
  BY <1>2, XReadGroupOK DEF ClaimNewEntries
<1> HIDE DEF q
<1>4. q.own \subseteq 1 .. Len(old.log)
  BY <1>2, <1>3 DEF WellFormed, StreamType, SameJobs
<1>5. PICK i \in q.own : wk' = [wk EXCEPT !.pc = "handle", !.stream = "songs", !.entry = i]
  <2>1. CASE PriorityPrep(q)
    BY <2>1 DEF PriorityPrep, PriorityEntries
  <2>2. CASE NextPrep(q)
    BY <2>2 DEF NextPrep
  <2> QED
    BY <1>1, <2>1, <2>2
<1>6. StreamsOK' /\ SameEntries /\ queue'["songs"] = q
  BY <1>1, <1>3, WorkerFacts, StreamStep DEF StreamsOK, old
<1>7. i \in Nat
  BY <1>4, <1>5
<1>8. /\ wk.phase = "main" /\ wk' \in WorkerType /\ wk'.pc = "handle"
      /\ wk'.stream = "songs" /\ wk'.entry = i /\ wk'.phase = wk.phase
  BY <1>5, <1>7, WorkerFacts DEF TickSongs, Inv, WorkerOK, WorkerType, WorkerPC, Streams
<1>9. WorkerOK'
  BY <1>3, <1>4, <1>5, <1>6, <1>8 DEF WorkerOK, SameJobs
<1> QED
  BY <1>6, <1>8, <1>9, WorkerFacts, WorkerMoves DEF TickSongs

\* The steps of a handler, from the entry to its acknowledgement.
LEMMA ProcessFirstOK ==
  ASSUME Inv, ProcessFirst
  PROVE  Inv'
<1> USE DEF unchangedAPI, unchangedTables, WorkerAt
<1>1. StreamsOK' /\ SameEntries /\ SamePending
  BY WorkerFacts, QueueUnchanged DEF ProcessFirst
<1>2. wk' \in WorkerType /\ WorkerOK'
  <2>1. CASE wk.stopping
    <3>1. /\ wk.phase = "main" /\ wk' \in WorkerType /\ wk'.pc = "loop"
          /\ wk'.phase = wk.phase
      BY <2>1, WorkerFacts, WorkerChange DEF ProcessFirst, Inv, WorkerOK, WorkerPC
    <3> QED
      BY <3>1 DEF WorkerOK, EntryPC
  <2>2. CASE ~wk.stopping
    BY <1>1, <2>2, WorkerGoesOK DEF ProcessFirst, EntryPC, WorkerPC
  <2> QED
    BY <2>1, <2>2
<1> QED
  BY <1>1, <1>2, WorkerFacts, WorkerMoves DEF ProcessFirst

\* AnalysisJobHandler.handle up to the pipeline writes at most the status.
LEMMA HandleAnalysisOK ==
  ASSUME Inv, HandleAnalysis
  PROVE  Inv'
<1> USE DEF unchangedAPI, WorkerAt
<1>1. /\ StreamsOK' /\ SameEntries /\ SamePending
      /\ wk.pc = "handle" /\ wk.pc \in EntryPC \ {"del"}
      /\ UNCHANGED <<req, known, streamId, queue, prep, complete, cached, faults>>
  BY WorkerFacts, QueueUnchanged DEF HandleAnalysis, EntryPC, WorkerPC
<1>2. \/ Return /\ UNCHANGED status
      \/ Goes("finish") /\ UNCHANGED status
      \/ Goes("run") /\ SetStatus({JobId}, "processing")
  BY DEF HandleAnalysis
<1>3. status' \in [Analyses -> AnalysisStatus \cup {"none"}]
  BY <1>2, WorkerFacts, SetStatusOK DEF AnalysisStatus
<1>4. wk' \in WorkerType /\ WorkerOK'
  <2>1. CASE Return
    BY <1>1, <2>1, WorkerReturnsOK
  <2>2. CASE Goes("finish")
    BY <1>1, <2>2, WorkerGoesOK DEF EntryPC, WorkerPC
  <2>3. CASE Goes("run")
    BY <1>1, <2>3, WorkerGoesOK DEF EntryPC, WorkerPC
  <2> QED
    BY <1>2, <2>1, <2>2, <2>3
<1> QED
  BY <1>1, <1>3, <1>4, WorkerFacts, WorkerMoves

\* SongPrepJobHandler.handle up to the pipeline, of a song whose job was published.
LEMMA HandleSongOK ==
  ASSUME Inv, HandleSong
  PROVE  Inv'
<1> USE DEF unchangedAPI, WorkerAt, Handling
<1>1. /\ StreamsOK' /\ SameEntries /\ SamePending
      /\ wk.pc \in EntryPC \ {"del"} /\ wk.stream = "songs"
      /\ UNCHANGED <<req, known, streamId, queue, status, complete, cached, faults>>
  BY WorkerFacts, QueueUnchanged DEF HandleSong, EntryPC, WorkerPC
<1>2. CASE Return /\ UNCHANGED prep
  BY <1>1, <1>2, WorkerFacts, WorkerReturnsOK, WorkerMoves
<1>3. CASE Goes("finish") /\ UNCHANGED prep
  <2>1. wk' \in WorkerType /\ WorkerOK'
    BY <1>1, <1>3, WorkerGoesOK DEF EntryPC, WorkerPC
  <2> QED
    BY <1>1, <1>3, <2>1, WorkerFacts, WorkerMoves
<1>4. CASE Goes("run") /\ SetPrep(JobId, "processing")
  <2>1. wk' \in WorkerType /\ WorkerOK'
    BY <1>1, <1>4, WorkerGoesOK DEF EntryPC, WorkerPC
  <2> QED
    BY <1>1, <1>4, <2>1, WorkerSettlesSong
<1> QED
  BY <1>2, <1>3, <1>4 DEF HandleSong

\* The pipeline finishes, fails or is interrupted between two stages.
LEMMA RunEndsOK ==
  ASSUME Inv, RunCompletes \/ RunFails \/ RunInterrupted
  PROVE  Inv'
<1> USE DEF unchangedAPI, unchangedTables, WorkerAt, Handling
<1>1. /\ StreamsOK' /\ SameEntries /\ SamePending
      /\ wk.pc = "run" /\ wk.pc \in EntryPC \ {"del"}
      /\ UNCHANGED <<req, known, streamId, queue, cached, faults>>
  BY WorkerFacts, QueueUnchanged DEF RunCompletes, RunFails, RunInterrupted, EntryPC, WorkerPC
<1>2. CASE RunCompletes
  <2>1. complete' \subseteq Job
    BY <1>1, <1>2, WorkerFacts DEF RunCompletes, JobsOf, Job
  <2>2. wk' \in WorkerType /\ WorkerOK'
    BY <1>1, <1>2, WorkerGoesOK DEF RunCompletes, EntryPC, WorkerPC
  <2> QED
    BY <1>1, <1>2, <2>1, <2>2, WorkerFacts, WorkerMoves DEF RunCompletes
<1>3. CASE RunFails /\ wk.stream = "analyses"
  <2>1. /\ SetStatus({JobId}, "failed") /\ Goes("ack")
        /\ UNCHANGED <<prep, complete>>
    BY <1>3 DEF RunFails
  <2>2. status' \in [Analyses -> AnalysisStatus \cup {"none"}]
    BY <2>1, WorkerFacts, SetStatusOK DEF AnalysisStatus
  <2>3. wk' \in WorkerType /\ WorkerOK'
    BY <1>1, <2>1, WorkerGoesOK DEF EntryPC, WorkerPC
  <2> QED
    BY <1>1, <2>1, <2>2, <2>3, WorkerFacts, WorkerMoves
<1>4. CASE RunFails /\ wk.stream # "analyses"
  <2>1. /\ SetPrep(JobId, "failed") /\ Goes("fail_waiting")
        /\ UNCHANGED <<status, complete>> /\ wk.stream = "songs"
    BY <1>4, WorkerFacts DEF RunFails, Streams
  <2>2. wk' \in WorkerType /\ WorkerOK'
    BY <1>1, <2>1, WorkerGoesOK DEF EntryPC, WorkerPC
  <2> QED
    BY <1>1, <2>1, <2>2, WorkerSettlesSong
<1>5. CASE RunInterrupted
  BY <1>1, <1>5, WorkerFacts, WorkerReturnsOK, WorkerMoves DEF RunInterrupted
<1> QED
  BY <1>2, <1>3, <1>4, <1>5

\* The outcome is stored; a song's reference enters the cache with its status.
LEMMA FinishOK ==
  ASSUME Inv, FinishAnalysis \/ FinishSong
  PROVE  Inv'
<1> USE DEF unchangedAPI, WorkerAt, Handling
<1>1. /\ StreamsOK' /\ SameEntries /\ SamePending
      /\ wk.pc \in EntryPC \ {"del"}
      /\ UNCHANGED <<req, known, streamId, queue, complete, faults>>
  BY WorkerFacts, QueueUnchanged DEF FinishAnalysis, FinishSong, EntryPC, WorkerPC
<1>2. CASE FinishAnalysis
  <2>1. status' \in [Analyses -> AnalysisStatus \cup {"none"}]
    BY <1>2, WorkerFacts, SetStatusOK DEF FinishAnalysis, AnalysisStatus
  <2>2. wk' \in WorkerType /\ WorkerOK'
    BY <1>1, <1>2, WorkerGoesOK DEF FinishAnalysis, EntryPC, WorkerPC
  <2> QED
    BY <1>1, <1>2, <2>1, <2>2, WorkerFacts, WorkerMoves DEF FinishAnalysis
<1>3. CASE FinishSong
  <2>1. /\ SetPrep(JobId, "ready") /\ cached' = cached \cup {JobId} /\ Goes("wake")
        /\ wk.stream = "songs" /\ UNCHANGED status
    BY <1>3 DEF FinishSong
  <2>2. wk' \in WorkerType /\ WorkerOK'
    BY <1>1, <2>1, WorkerGoesOK DEF EntryPC, WorkerPC
  <2> QED
    BY <1>1, <2>1, <2>2, WorkerSettlesSong
<1> QED
  BY <1>2, <1>3

\* Only analyses of the song just prepared are woken.
LEMMA WakeOK ==
  ASSUME Inv, Wake
  PROVE  Inv'
<1> USE DEF unchangedAPI, WorkerAt
<1>1. StreamsOK' /\ SameEntries /\ SamePending
  BY WorkerFacts, QueueUnchanged DEF Wake
<1>2. status' \in [Analyses -> AnalysisStatus \cup {"none"}]
  BY WorkerFacts, SetStatusOK DEF Wake, AnalysisStatus
<1> DEFINE woken == WaitingFor(JobId)
<1>3. /\ wk.pc = "wake" /\ wk.stream = "songs" /\ JobId \in cached
      /\ wk.entry \in 1 .. Len(queue["songs"].log)
  BY DEF Wake, Inv, WorkerOK, EntryPC, WorkerPC
<1>4. wk' = [wk EXCEPT !.pc = "publish", !.wake = woken]
  BY DEF Wake
<1>5. woken \in SUBSET Analyses /\ \A a \in woken : SongOf[a] \in cached
  BY <1>3 DEF WaitingFor
<1> HIDE DEF woken
<1>6. /\ wk' \in WorkerType /\ wk'.pc = "publish" /\ wk'.wake = woken
      /\ wk'.phase = wk.phase /\ wk'.stream = wk.stream /\ wk'.entry = wk.entry
      /\ wk'.todo = wk.todo
  BY <1>4, <1>5, WorkerFacts DEF WorkerType, WorkerPC
<1>7. WorkerOK'
  BY <1>1, <1>3, <1>5, <1>6, WorkerFacts
  DEF Wake, Inv, WorkerOK, SamePending, SameEntries, SameJobs
<1> QED
  BY <1>1, <1>2, <1>6, <1>7, WorkerFacts, WorkerMoves DEF Wake

\* And their entries are published with the reference in the cache.
LEMMA PublishWokenOK ==
  ASSUME Inv, PublishWoken
  PROVE  Inv'
<1> USE DEF unchangedAPI, unchangedTables, WorkerAt
<1>1. /\ wk.pc = "publish" /\ wk.pc \in EntryPC \ {"del"} /\ wk.stream = "songs"
      /\ wk.entry \in 1 .. Len(queue["songs"].log)
      /\ \A a \in wk.wake : SongOf[a] \in cached
      /\ UNCHANGED <<req, known, streamId, status, prep, complete, cached, faults>>
  BY DEF PublishWoken, Inv, WorkerOK, EntryPC, WorkerPC
<1>2. CASE wk.wake = {}
  <2>1. StreamsOK' /\ SameEntries /\ SamePending /\ Goes("ack")
    BY <1>2, WorkerFacts, QueueUnchanged DEF PublishWoken
  <2>2. wk' \in WorkerType /\ WorkerOK'
    BY <1>1, <2>1, WorkerGoesOK DEF EntryPC, WorkerPC
  <2> QED
    BY <1>1, <2>1, <2>2, WorkerFacts, WorkerMoves
<1>3. CASE wk.wake # {}
  <2>1. PICK a \in wk.wake : /\ queue' = [queue EXCEPT !["analyses"] = XAdd(@, a)]
                             /\ wk' = [wk EXCEPT !.wake = @ \ {a}]
    BY <1>3 DEF PublishWoken
  <2> DEFINE rest == wk.wake \ {a}
  <2>2. wk' = [wk EXCEPT !.wake = rest] /\ rest \in SUBSET Analyses /\ a \in Analyses
        /\ SongOf[a] \in cached /\ \A b \in rest : SongOf[b] \in cached
    BY <1>1, <2>1, WorkerFacts DEF WorkerType
  <2> HIDE DEF rest
  <2>3. JobsOf("analyses") = Analyses
    BY DEF JobsOf
  <2>4. /\ StreamsOK' /\ KeepsEntries /\ SamePending
        /\ queue'["songs"] = queue["songs"]
        /\ Len(queue'["analyses"].log) = Len(queue["analyses"].log) + 1
        /\ JobAt(queue'["analyses"], Len(queue["analyses"].log) + 1) = a
    BY <2>1, <2>2, <2>3, WorkerFacts, PublishOK
  <2>5. /\ wk' \in WorkerType /\ wk'.pc = "publish" /\ wk'.wake = rest
        /\ wk'.phase = wk.phase /\ wk'.stream = wk.stream /\ wk'.entry = wk.entry
        /\ wk'.todo = wk.todo
    BY <1>1, <2>2, WorkerFacts DEF WorkerType
  <2>6. WorkerOK'
    BY <1>1, <2>2, <2>4, <2>5 DEF Inv, WorkerOK
  <2>7. TypeOK'
    BY <1>1, <2>4, <2>5 DEF Inv, TypeOK, StreamsOK
  <2>8. RequestOK' /\ SongOK'
    BY <1>1, <2>4 DEF Inv, RequestOK, SongOK, NeverPublished
  <2>9. ReferenceReady'
    BY <1>1, <2>2, <2>4, WorkerFacts DEF Inv, ReferenceReady, KeepsEntries
  <2> QED
    BY <2>6, <2>7, <2>8, <2>9 DEF Inv
<1> QED
  BY <1>2, <1>3

\* The analyses of a song that could not be prepared fail with it.
LEMMA FailWaitingOK ==
  ASSUME Inv, FailWaiting
  PROVE  Inv'
<1> USE DEF unchangedAPI
<1>1. /\ StreamsOK' /\ SameEntries /\ SamePending /\ wk.pc \in EntryPC \ {"del"}
      /\ \E pc \in {"ack", "drop"} : Goes(pc)
  BY WorkerFacts, QueueUnchanged DEF FailWaiting, EntryPC, WorkerPC
<1>2. status' \in [Analyses -> AnalysisStatus \cup {"none"}]
  BY WorkerFacts, SetStatusOK DEF FailWaiting, AnalysisStatus
<1>3. wk' \in WorkerType /\ WorkerOK'
  BY <1>1, WorkerGoesOK DEF FailWaiting, EntryPC, WorkerPC
<1> QED
  BY <1>1, <1>2, <1>3, WorkerFacts, WorkerMoves DEF FailWaiting

\* mark_permanently_failed of either handler.
LEMMA GiveUpOK ==
  ASSUME Inv, GiveUp
  PROVE  Inv'
<1> USE DEF unchangedAPI, WorkerAt, Handling
<1>1. /\ StreamsOK' /\ SameEntries /\ SamePending /\ wk.pc \in EntryPC \ {"del"}
      /\ UNCHANGED <<req, known, streamId, queue, complete, cached, faults>>
  BY WorkerFacts, QueueUnchanged DEF GiveUp, EntryPC, WorkerPC
<1>2. CASE wk.stream = "analyses"
  <2>1. SetStatus({JobId}, "failed") /\ Goes("drop") /\ UNCHANGED prep
    BY <1>2 DEF GiveUp
  <2>2. status' \in [Analyses -> AnalysisStatus \cup {"none"}]
    BY <2>1, WorkerFacts, SetStatusOK DEF AnalysisStatus
  <2>3. wk' \in WorkerType /\ WorkerOK'
    BY <1>1, <2>1, WorkerGoesOK DEF EntryPC, WorkerPC
  <2> QED
    BY <1>1, <2>1, <2>2, <2>3, WorkerFacts, WorkerMoves
<1>3. CASE wk.stream # "analyses"
  <2>1. /\ SetPrep(JobId, "failed") /\ Goes("give_up_waiting") /\ UNCHANGED status
        /\ wk.stream = "songs"
    BY <1>3, WorkerFacts DEF GiveUp, Streams
  <2>2. wk' \in WorkerType /\ WorkerOK'
    BY <1>1, <2>1, WorkerGoesOK DEF EntryPC, WorkerPC
  <2> QED
    BY <1>1, <2>1, <2>2, WorkerSettlesSong
<1> QED
  BY <1>2, <1>3

\* The acknowledged entry leaves what reclaim still has to look at.
LEMMA AckOK ==
  ASSUME Inv, Ack
  PROVE  Inv'
<1> USE DEF unchangedAPI, unchangedTables, WorkerAt
<1> DEFINE q == queue[wk.stream]
<1> DEFINE p == XAck(q, wk.entry)
<1>1. wk.pc \in {"ack", "drop"} /\ wk.pc \in EntryPC /\ Goes("del") /\ queue' = [queue EXCEPT ![wk.stream] = p]
  BY DEF Ack, EntryPC, WorkerPC
<1>2. WellFormed(q, JobsOf(wk.stream))
  BY WorkerFacts
<1> HIDE DEF q
<1>3. WellFormed(p, JobsOf(wk.stream)) /\ SameJobs(p, q) /\ p.pel = q.pel \ {wk.entry}
  BY <1>2, XAckOK
<1> HIDE DEF p
<1>4. StreamsOK' /\ SameEntries /\ queue'[wk.stream] = p
  BY <1>1, <1>3, WorkerFacts, StreamStep DEF StreamsOK, q
<1>5. /\ wk' \in WorkerType /\ wk'.pc = "del"
      /\ wk'.phase = wk.phase /\ wk'.stream = wk.stream /\ wk'.entry = wk.entry
      /\ wk'.todo = wk.todo
  BY <1>1, WorkerFacts, WorkerChange DEF WorkerPC
<1>6. WorkerOK'
  BY <1>1, <1>3, <1>4, <1>5 DEF Inv, WorkerOK, SameJobs, q
<1> QED
  BY <1>4, <1>5, <1>6, WorkerFacts, WorkerMoves DEF Ack

\* XDEL of the acknowledged entry, and back to the caller.
LEMMA DelOK ==
  ASSUME Inv, Del
  PROVE  Inv'
<1> USE DEF unchangedAPI, unchangedTables, WorkerAt
<1> DEFINE q == queue[wk.stream]
<1> DEFINE p == XDel(q, wk.entry)
<1>1. wk.pc \in EntryPC /\ Return /\ queue' = [queue EXCEPT ![wk.stream] = p]
  BY DEF Del, EntryPC, WorkerPC
<1>2. WellFormed(q, JobsOf(wk.stream))
  BY WorkerFacts
<1> HIDE DEF q
<1>3. WellFormed(p, JobsOf(wk.stream)) /\ SameJobs(p, q) /\ p.pel = q.pel
  BY <1>2, XDelOK
<1> HIDE DEF p
<1>4. StreamsOK' /\ SameEntries /\ SamePending
  BY <1>1, <1>3, WorkerFacts, StreamStep DEF q
<1>5. wk' \in WorkerType /\ WorkerOK'
  BY <1>1, <1>4, WorkerReturnsOK
<1> QED
  BY <1>4, <1>5, WorkerFacts, WorkerMoves DEF Del

\* Shutdowns, deaths and exceptions.
LEMMA WorkerEndsOK ==
  ASSUME Inv, Exit \/ Crash \/ RequestStop
  PROVE  Inv'
<1> USE DEF unchangedAPI, unchangedTables, WorkerAt
<1>1. StreamsOK' /\ SameEntries /\ SamePending
      /\ UNCHANGED <<req, known, streamId, queue, status, prep, complete, cached>>
  BY WorkerFacts, QueueUnchanged DEF Exit, Crash, RequestStop
<1>2. faults' \in 0 .. MaxFaults
  BY WorkerFacts, BoundAssumption DEF Exit, Crash, RequestStop, Fault
<1>3. wk' \in WorkerType /\ WorkerOK'
  <2>1. CASE wk' = Down
    <3>1. wk' \in WorkerType /\ wk'.pc = "down" /\ wk'.phase = "main"
      BY <2>1 DEF Down, WorkerType, WorkerPC, Streams
    <3> QED
      BY <3>1 DEF WorkerOK, EntryPC
  <2>2. CASE wk' = [wk EXCEPT !.stopping = TRUE]
    <3>1. /\ wk' \in WorkerType /\ wk'.pc = wk.pc /\ wk'.phase = wk.phase
          /\ wk'.stream = wk.stream /\ wk'.entry = wk.entry
          /\ wk'.todo = wk.todo /\ wk'.wake = wk.wake
      BY <2>2, WorkerFacts DEF WorkerType
    <3> QED
      BY <1>1, <3>1 DEF Inv, WorkerOK, JobId
  <2> QED
    BY <2>1, <2>2 DEF Exit, Crash, RequestStop
<1> QED
  BY <1>1, <1>2, <1>3, WorkerFacts, WorkerMoves

\* A call inside a handler, or inside giving up, raises.
LEMMA HandlerFaultsOK ==
  ASSUME Inv, HandlerFault \/ GiveUpFault
  PROVE  Inv'
<1> USE DEF unchangedAPI, unchangedTables
<1>1. StreamsOK' /\ SameEntries /\ SamePending
      /\ wk.pc \in EntryPC \ {"del"}
      /\ UNCHANGED <<req, known, streamId, queue, status, prep, complete, cached>>
  BY WorkerFacts, QueueUnchanged DEF HandlerFault, HandlerPC, GiveUpFault, EntryPC, WorkerPC
<1>2. faults' \in 0 .. MaxFaults
  BY WorkerFacts, BoundAssumption DEF HandlerFault, GiveUpFault, Fault
<1>3. wk' \in WorkerType /\ WorkerOK'
  <2>1. CASE HandlerFault
    BY <1>1, <2>1, WorkerReturnsOK DEF HandlerFault
  <2>2. CASE GiveUpFault
    BY <1>1, <2>2, WorkerGoesOK DEF GiveUpFault, EntryPC, WorkerPC
  <2> QED
    BY <2>1, <2>2
<1> QED
  BY <1>1, <1>2, <1>3, WorkerFacts, WorkerMoves
-----------------------------------------------------------------------------
\* An empty system with some songs prepared satisfies the invariant.
LEMMA InitOK == Init => Inv
<1> SUFFICES ASSUME Init PROVE Inv
  OBVIOUS
<1>1. TypeOK
  <2>1. \A n \in Streams : WellFormed(EmptyStream, JobsOf(n))
    <3> SUFFICES ASSUME NEW J PROVE WellFormed(EmptyStream, J)
      OBVIOUS
    <3>1. <<>> \in Seq([job : J, times : Nat]) /\ Len(<<>>) = 0
      OBVIOUS
    <3> QED
      BY <3>1 DEF WellFormed, StreamType, EmptyStream
  <2>2. Idle \in RequestType /\ Down \in WorkerType
    BY DEF Idle, RequestType, RequestPC, Down, WorkerType, WorkerPC, Streams
  <2>3. prep \in [Songs -> PrepStatus \cup {"none"}]
    BY DEF Init, PrepStatus
  <2> QED
    BY <2>1, <2>2, <2>3, JobAssumption, BoundAssumption DEF Init, TypeOK, Job, AnalysisStatus
<1>2. RequestOK
  BY DEF Init, RequestOK, Idle, AnalysisPC, PrepPC, CheckedPC
<1>3. WorkerOK
  BY DEF Init, WorkerOK, Down, EntryPC
<1>4. \A n \in Streams : Len(queue[n].log) = 0
  BY DEF Init, EmptyStream
<1>5. SongOK
  <2>1. \A s \in Songs : NeverPublished(s)
    BY <1>4 DEF NeverPublished, Streams
  <2> QED
    BY <2>1 DEF Init, SongOK, Idle, NewSongPC
<1>6. ReferenceReady
  BY <1>4 DEF ReferenceReady, Streams
<1> QED
  BY <1>1, <1>2, <1>3, <1>5, <1>6 DEF Inv

\* A step that changes nothing keeps it.
LEMMA StutterOK ==
  ASSUME Inv, UNCHANGED vars
  PROVE  Inv'
BY DEF vars, Inv, TypeOK, RequestOK, WorkerOK, SongOK, ReferenceReady, NeverPublished, JobId, JobAt

\* And so does every step of every request and of the worker.
LEMMA NextOK ==
  ASSUME Inv, [Next]_vars
  PROVE  Inv'
<1>1. ASSUME NEW r \in Requests, RequestStep(r) \/ ApiFault(r) PROVE Inv'
  BY <1>1, AnalysisRequestOK, SongRequestOK, ApiFaultOK DEF RequestStep
<1>2. CASE WorkerStep
  BY <1>2, StartOK, ReclaimNextOK, ReclaimEntryOK, TickAnalysesOK, ProcessFirstOK, TickSongsOK,
     HandleAnalysisOK, HandleSongOK, RunEndsOK, FinishOK, WakeOK, PublishWokenOK, FailWaitingOK,
     GiveUpOK, AckOK, DelOK, WorkerEndsOK
  DEF WorkerStep
<1>3. CASE WorkerFault
  BY <1>3, WorkerEndsOK, HandlerFaultsOK DEF WorkerFault
<1> QED
  BY <1>1, <1>2, <1>3, StutterOK DEF Next

(***************************************************************************)
(* The invariant holds in every state of every behaviour: the API and the  *)
(* worker, under all faults, keep requests, worker, songs and streams      *)
(* consistent with each other.                                             *)
(***************************************************************************)
THEOREM InvAlways == Spec => []Inv
<1> QED
  BY InitOK, NextOK, PTL DEF Spec

(***************************************************************************)
(* Type correctness: rows, streams, requests and the worker stay in the    *)
(* shapes JobState declares; pending entries are logged ones.              *)
(***************************************************************************)
THEOREM TypeCorrect == Spec => []TypeOK
<1>1. Inv => TypeOK
  BY DEF Inv
<1> QED
  BY <1>1, InvAlways, PTL

(***************************************************************************)
(* No analysis is ever published before its song's reference is cached:    *)
(* what AnalysisJobHandler.handle relies on "the scheduler" to hold, under *)
(* every interleaving of Enqueue, Retry and the worker's wake-up.          *)
(***************************************************************************)
THEOREM ReferenceAlwaysReady == Spec => []ReferenceReady
<1>1. Inv => ReferenceReady
  BY DEF Inv
<1> QED
  BY <1>1, InvAlways, PTL

\* Of all steps only the rollback of a full queue deletes a song's row.
LEMMA RowsKept ==
  ASSUME Inv, [Next]_vars, NEW s \in Songs, prep[s] # "none", prep'[s] = "none"
  PROVE  \E r \in Requests : EnqueuePrepRollback(r) /\ req[r].job = s
<1>1. prep \in [Songs -> PrepStatus \cup {"none"}]
  BY DEF Inv, TypeOK
<1>2. ~UNCHANGED prep
  OBVIOUS
<1>3. ASSUME NEW j, NEW new \in PrepStatus, SetPrep(j, new) PROVE FALSE
  BY <1>1, <1>3 DEF SetPrep, PrepStatus
<1>4. ASSUME NEW r \in Requests, AnalysisRequest(r) PROVE FALSE
  BY <1>2, <1>4
  DEF AnalysisRequest, EnqueueStart, Cancel, RetryStart, EnqueuePrecheck, EnqueueCreate,
      EnqueueCreateWaiting, EnqueueAdmit, EnqueueRollback, SetQueueStreamID, CancelRemove,
      RetryPrecheck, RetryUpdate, RetryAdd, RetryToWaitingForReference
<1>5. ASSUME NEW r \in Requests, SongRequest(r)
      PROVE  EnqueuePrepRollback(r) /\ req[r].job = s
  <2>1. ASSUME NEW t \in Songs PROVE ~AddSong(r, t) /\ ~RetryPrepStart(r, t)
    BY <1>1, <1>2 DEF AddSong, RetryPrepStart
  <2>2. ~EnqueuePrep(r) /\ ~RetryPrepAdd(r)
    BY <1>2 DEF EnqueuePrep, RetryPrepAdd
  <2>3. ~RetryPrepReset(r)
    BY <1>2, <1>3 DEF RetryPrepReset, PrepStatus
  <2>4. EnqueuePrepRollback(r)
    BY <1>5, <2>1, <2>2, <2>3 DEF SongRequest
  <2> QED
    BY <1>1, <2>4 DEF EnqueuePrepRollback
<1>6. ASSUME NEW r \in Requests, ApiFault(r) PROVE FALSE
  BY <1>2, <1>6 DEF ApiFault
<1>7. CASE WorkerStep
  <2> USE DEF unchangedTables, PrepStatus
  <2>1. ~Start /\ ~ReclaimNext /\ ~ReclaimEntry /\ ~TickAnalyses /\ ~ProcessFirst /\ ~TickSongs
    BY <1>2 DEF Start, ReclaimNext, ReclaimEntry, TickAnalyses, ProcessFirst, TickSongs
  <2>2. ~HandleAnalysis /\ ~RunCompletes /\ ~RunInterrupted /\ ~FinishAnalysis /\ ~Wake
        /\ ~PublishWoken /\ ~FailWaiting /\ ~Ack /\ ~Del /\ ~Exit
    BY <1>2 DEF HandleAnalysis, RunCompletes, RunInterrupted, FinishAnalysis, Wake,
                PublishWoken, FailWaiting, Ack, Del, Exit
  <2>3. ~HandleSong /\ ~RunFails /\ ~FinishSong /\ ~GiveUp
    BY <1>2, <1>3 DEF HandleSong, RunFails, FinishSong, GiveUp
  <2> QED
    BY <1>7, <2>1, <2>2, <2>3 DEF WorkerStep
<1>8. CASE WorkerFault
  BY <1>2, <1>8 DEF WorkerFault, RequestStop, Crash, HandlerFault, GiveUpFault, unchangedTables
<1>9. CASE UNCHANGED vars
  BY <1>2, <1>9 DEF vars
<1> QED
  BY <1>4, <1>5, <1>6, <1>7, <1>8, <1>9 DEF Next, RequestStep

(***************************************************************************)
(* A song's row is deleted only while nobody can have worked on it: the    *)
(* DELETE of enqueuePrep names the row it inserted and looks at nothing,   *)
(* yet it never takes a prepared reference or a published preparation.     *)
(***************************************************************************)
THEOREM RollbackIsSafe == Spec => RollbackSparesPrepared
<1>1. ASSUME Inv, [Next]_vars
      PROVE  \A s \in Songs : prep[s] # "none" /\ prep'[s] = "none" =>
                                s \notin cached /\ NeverPublished(s)
  <2> SUFFICES ASSUME NEW s \in Songs, prep[s] # "none", prep'[s] = "none"
               PROVE  s \notin cached /\ NeverPublished(s)
    OBVIOUS
  <2>1. PICK r \in Requests : EnqueuePrepRollback(r) /\ req[r].job = s
    BY <1>1, RowsKept
  <2> QED
    BY <1>1, <2>1 DEF EnqueuePrepRollback, At, Inv, SongOK, NewSongPC
<1> QED
  BY <1>1, InvAlways, PTL DEF Spec, RollbackSparesPrepared
=============================================================================
