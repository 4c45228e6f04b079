---------------------------- MODULE JobLossProofs ----------------------------
(***************************************************************************)
(* No job is lost: whatever a step takes from a job whose row promises     *)
(* work, something else still holds it.  And no job is on its stream       *)
(* twice, where a handler that recorded an outcome goes on to acknowledge  *)
(* it: whoever publishes found the job with nobody.                        *)
(***************************************************************************)
EXTENDS JobQueueProofs

\* The row says the job is still to be done.
Promised(n, job) ==
  IF n = "analyses" THEN status[job] \in {"queued", "processing"}
                    ELSE prep[job] \in {"pending", "processing"}

Kept(n, job) == Promised(n, job) => Held(n, job)

\* The faults and operations under which stream n loses nothing.
Safe(n) == NoGap /\ (n = "analyses" => CancelIsSafe /\ WakeIsWhole)

\* Who is about to publish.
LEMMA Publishers ==
  ASSUME NEW job
  PROVE  /\ BeingPublished(job) <=> (\E r \in Requests : Publishes(r, job)) \/ Woken(job)
         /\ BeingPublished(job)' <=> (\E r \in Requests : Publishes(r, job)') \/ Woken(job)'
BY DEF BeingPublished, Publishes, PublisherPC, Woken, WorkerAt

\* Which entries are about to be removed.
LEMMA DoomedIs ==
  ASSUME NEW n, NEW i
  PROVE  /\ i \in Doomed(n) <=>
              \/ i = wk.entry /\ wk.pc \in SettledPC /\ wk.stream = n
              \/ \E r \in Requests : req[r].pc = "remove_entry" /\ n = "analyses" /\ req[r].id = i
         /\ i \in Doomed(n)' <=>
              \/ i = wk'.entry /\ wk'.pc \in SettledPC /\ wk'.stream = n
              \/ \E r \in Requests : req'[r].pc = "remove_entry" /\ n = "analyses" /\ req'[r].id = i
BY DEF Doomed

\* A job belongs to one stream.
LEMMA OneKind ==
  ASSUME NEW n \in Streams, NEW m \in Streams, NEW job, job \in JobsOf(n), job \in JobsOf(m)
  PROVE  n = m
BY JobAssumption DEF Streams, JobsOf

\* The entries of a job after a step that removes some and adds none.
LEMMA EntriesKept ==
  ASSUME Inv, NEW n \in Streams, SameJobs(queue'[n], queue[n]), NEW gone,
         Recoverable(queue'[n]) = Recoverable(queue[n]) \ gone
  PROVE  \A job : EntriesOf(queue'[n], job) = EntriesOf(queue[n], job) \ gone
<1>1. Recoverable(queue[n]) \subseteq 1 .. Len(queue[n].log)
  BY WorkerFacts, RecoverableLogged
<1> QED
  BY <1>1 DEF EntriesOf, SameJobs

\* And when one is published: it is new, and it is the job's.
LEMMA EntriesAdded ==
  ASSUME Inv, NEW name \in Streams, NEW job \in JobsOf(name),
         queue' = [queue EXCEPT ![name] = XAdd(@, job)]
  PROVE  LET id == Len(queue[name].log) + 1 IN
         /\ \A n \in Streams \ {name} : queue'[n] = queue[n]
         /\ EntriesOf(queue'[name], job) = EntriesOf(queue[name], job) \cup {id}
         /\ \A b : b # job => EntriesOf(queue'[name], b) = EntriesOf(queue[name], b)
         /\ id \in Nat /\ \A i \in 1 .. Len(queue[name].log) : i # id
<1> DEFINE id == Len(queue[name].log) + 1
<1>1. Recoverable(queue[name]) \subseteq 1 .. Len(queue[name].log) /\ Len(queue[name].log) \in Nat
  BY WorkerFacts, RecoverableLogged
<1>2. /\ \A n \in Streams \ {name} : queue'[n] = queue[n]
      /\ JobAt(queue'[name], id) = job
      /\ \A i \in 1 .. Len(queue[name].log) : JobAt(queue'[name], i) = JobAt(queue[name], i)
      /\ Recoverable(queue'[name]) = Recoverable(queue[name]) \cup {id}
      /\ id \in Nat
  BY PublishViews
<1>3. \A i \in 1 .. Len(queue[name].log) : i # id
  BY <1>1
<1>4. \A b : \A i : i \in EntriesOf(queue'[name], b) <=>
                      i \in EntriesOf(queue[name], b) \/ (i = id /\ b = job)
  <2> HIDE DEF id
  <2> QED
    BY <1>1, <1>2, <1>3 DEF EntriesOf
<1> HIDE DEF id
<1>5. /\ EntriesOf(queue'[name], job) = EntriesOf(queue[name], job) \cup {id}
      /\ \A b : b # job => EntriesOf(queue'[name], b) = EntriesOf(queue[name], b)
  BY <1>4
<1> QED
  BY <1>2, <1>3, <1>5 DEF id
-----------------------------------------------------------------------------
\* A request that takes nothing from the job.
LEMMA RequestKeeps ==
  ASSUME Inv, NEW r \in Requests, UNCHANGED wk, NEW n \in Streams, NEW job \in JobsOf(n),
         Held(n, job),
         NEW pc, NEW j, NEW id, Moves(r, pc, j, id),
         pc = "remove_entry" /\ n = "analyses" => id \notin EntriesOf(queue[n], job),
         \A i \in EntriesOf(queue[n], job) : i \notin Doomed(n) => i \in EntriesOf(queue'[n], job),
         wk.pc \in EntryPC => queue'[wk.stream].log[wk.entry].job = JobId,
         req[r].pc \in PublisherPC /\ req[r].job = job => pc \in PublisherPC /\ j = job
  PROVE  Held(n, job)'
<1>1. CASE \E i \in EntriesOf(queue[n], job) : i \notin Doomed(n)
  <2>1. PICK i \in EntriesOf(queue[n], job) : i \notin Doomed(n)
    BY <1>1
  <2>2. i \notin Doomed(n)'
    BY <2>1, DoomedIs DEF Moves
  <2> QED
    BY <2>1, <2>2 DEF Held
<1>2. CASE wk.pc \in WorkingPC /\ wk.stream = n /\ JobId = job
  <2>1. JobId' = JobId
    BY <1>2 DEF JobId, JobAt, WorkingPC, EntryPC, WorkerPC
  <2> QED
    BY <1>2, <2>1 DEF Held
<1>3. CASE BeingPublished(job)
  <2>1. (\E t \in Requests : Publishes(t, job)') \/ Woken(job)'
    BY <1>3, Publishers DEF Publishes, Woken, Moves
  <2> QED
    BY <2>1, Publishers DEF Held
<1> QED
  BY <1>1, <1>2, <1>3 DEF Held

LEMMA RequestHeld ==
  ASSUME Inv, LifeInv, NEW r \in Requests, RequestStep(r),
         NEW n \in Streams, NEW job \in JobsOf(n), Kept(n, job)
  PROVE  Kept(n, job)'
<1> SUFFICES ASSUME Promised(n, job)' PROVE Held(n, job)'
  BY DEF Kept
<1>0. /\ RequestForm(r) /\ UNCHANGED wk /\ Rows(r)
      /\ \A t \in Requests : /\ req[t].pc \in AnalysisPC => req[t].job \in Analyses
                             /\ req[t].pc \in PrepPC => req[t].job \in Songs
      /\ n = "analyses" => job \in Analyses
      /\ n # "analyses" => job \in Songs
      /\ "analyses" \in Streams
  BY RequestTakesForm, RowsChange, LifeFacts DEF JobsOf
<1>1. CASE req'[r].pc \in PublisherPC /\ req'[r].job = job
  BY <1>1, Publishers DEF Publishes, Held
<1>2. CASE ~(req'[r].pc \in PublisherPC /\ req'[r].job = job)
  <2>1. Promised(n, job)
    BY <1>0, <1>2 DEF Rows, Promised, PublisherPC
  <2>2. Held(n, job)
    BY <2>1 DEF Kept
  <2>3. UNCHANGED queue /\ wk.pc \in EntryPC => queue'[wk.stream].log[wk.entry].job = JobId
    BY DEF JobId, JobAt
  <2>4. CASE Waits(r)
    <3>1. PICK pc, j, id : pc \in QuietPC /\ Moves(r, pc, j, id)
      BY <2>4 DEF Waits
    <3>2. UNCHANGED queue /\ pc # "remove_entry" /\ req[r].pc \notin PublisherPC
      BY <2>4, <3>1, RequestPlaces DEF Waits
    <3> QED
      BY <1>0, <2>2, <2>3, <3>1, <3>2, RequestKeeps
  <2>5. ASSUME NEW j \in Job, NEW pc \in ClaimPC, Claims(r, pc, j) PROVE Held(n, job)'
    <3>1. PICK id \in Nat : Moves(r, pc, j, id)
      BY <2>5 DEF Claims
    <3>2. UNCHANGED queue /\ pc # "remove_entry" /\ req[r].pc \notin PublisherPC
      BY <2>5 DEF Claims, ClaimPC, PublisherPC
    <3> QED
      BY <1>0, <2>2, <2>3, <3>1, <3>2, RequestKeeps
  <2>6. CASE Refused(r)
    <3>1. PICK pc, id : pc \in {"rollback", "prep_rollback"} /\ Moves(r, pc, req[r].job, id)
      BY <2>6 DEF Refused
    <3>2. UNCHANGED queue /\ pc # "remove_entry" /\ pc \in PublisherPC
      BY <2>6, <3>1 DEF Refused, PublisherPC
    <3> QED
      BY <1>0, <2>2, <2>3, <3>1, <3>2, RequestKeeps
  <2>7. CASE RollsBack(r)
    <3>1. req[r].job # job
      BY <1>0, <2>7, JobAssumption DEF RollsBack, Promised
    <3>2. UNCHANGED queue /\ Moves(r, "idle", NoJob, 0) /\ "idle" # "remove_entry"
      BY <2>7 DEF RollsBack
    <3> QED
      BY <1>0, <2>2, <2>3, <3>1, <3>2, RequestKeeps
  <2>8. ASSUME NEW name \in Streams, NEW j \in Job, Enters(r, name, j) PROVE Held(n, job)'
    <3>1. PICK pc, k, id : pc \in {"set_id", "idle"} /\ Moves(r, pc, k, id)
      BY <2>8 DEF Enters
    <3>2. queue' = [queue EXCEPT ![name] = XAdd(@, j)] /\ j \in JobsOf(name) /\ req[r].job = j
      BY <2>8 DEF Enters
    <3> DEFINE new == Len(queue[name].log) + 1
    <3>3. /\ \A m \in Streams \ {name} : queue'[m] = queue[m]
          /\ EntriesOf(queue'[name], j) = EntriesOf(queue[name], j) \cup {new}
          /\ \A b : b # j => EntriesOf(queue'[name], b) = EntriesOf(queue[name], b)
          /\ \A i \in 1 .. Len(queue[name].log) : i # new
      BY <3>2, EntriesAdded
    <3> HIDE DEF new
    <3>4. CASE j = job
      <4>1. n = name
        BY <3>2, <3>4, OneKind
      <4>2. new \in EntriesOf(queue'[n], job)
        BY <3>3, <3>4, <4>1
      <4>3. new \notin Doomed(n)'
        <5>1. wk.pc \in SettledPC => wk.entry \in 1 .. Len(queue[wk.stream].log)
          BY DEF Inv, WorkerOK, SettledPC, EntryPC, WorkerPC
        <5>2. \A t \in Requests : req[t].pc = "remove_entry" =>
                                    req[t].id \in 1 .. Len(queue["analyses"].log)
          BY DEF LifeInv, EntryIdOK, IsEntry
        <5>3. \A t \in Requests : req'[t].pc = "remove_entry" =>
                                    req[t].pc = "remove_entry" /\ req'[t].id = req[t].id
          BY <3>1 DEF Moves
        <5> QED
          BY <1>0, <3>3, <4>1, <5>1, <5>2, <5>3, DoomedIs
      <4> QED
        BY <4>2, <4>3 DEF Held
    <3>5. CASE j # job
      <4>1. EntriesOf(queue'[n], job) = EntriesOf(queue[n], job)
        BY <3>3, <3>5
      <4>2. wk.pc \in EntryPC => queue'[wk.stream].log[wk.entry].job = JobId
        BY <3>2, NewEntry
      <4>3. pc # "remove_entry"
        BY <3>1
      <4> QED
        BY <1>0, <2>2, <3>1, <3>2, <3>5, <4>1, <4>2, <4>3, RequestKeeps
    <3> QED
      BY <3>4, <3>5
  <2>9. ASSUME NEW a \in Analyses, Marks(r, a) PROVE Held(n, job)'
    <3>1. /\ UNCHANGED queue /\ Moves(r, "remove_entry", a, streamId[a])
          /\ IsEntry(streamId[a], a) /\ status'[a] = "canceled" /\ req[r].pc \notin PublisherPC
      BY <2>9 DEF Marks, PublisherPC
    <3>2. n = "analyses" => a # job
      BY <3>1 DEF Promised
    <3>3. n = "analyses" => streamId[a] \notin EntriesOf(queue[n], job)
      BY <3>1, <3>2 DEF IsEntry, EntriesOf
    <3> QED
      BY <1>0, <2>2, <2>3, <3>1, <3>3, RequestKeeps
  <2>10. ASSUME NEW id \in Nat, Removes(r, id) PROVE Held(n, job)'
    <3> DEFINE q == queue["analyses"]
    <3> DEFINE p == XDel(q, id)
    <3>1. /\ queue' = [queue EXCEPT !["analyses"] = p] /\ Moves(r, "idle", NoJob, 0)
          /\ req[r].pc = "remove_entry" /\ req[r].id = id /\ req[r].pc \notin PublisherPC
      BY <2>10 DEF Removes, PublisherPC
    <3>2. SameJobs(p, q) /\ Recoverable(p) = Recoverable(q) \ {id}
      BY <1>0, WorkerFacts, XDelOK, XDelViews
    <3> HIDE DEF p
    <3>3. queue'["analyses"] = p /\ \A m \in Streams \ {"analyses"} : queue'[m] = queue[m]
      BY <1>0, <3>1, OneStream
    <3>4. \A b : EntriesOf(queue'["analyses"], b) = EntriesOf(q, b) \ {id}
      BY <1>0, <3>2, <3>3, EntriesKept
    <3>5. n = "analyses" => id \in Doomed(n)
      BY <3>1, DoomedIs
    <3>6. \A i \in EntriesOf(queue[n], job) : i \notin Doomed(n) => i \in EntriesOf(queue'[n], job)
      BY <1>0, <3>3, <3>4, <3>5
    <3>7. \A m \in Streams : SameJobs(queue'[m], queue[m])
      BY <3>2, <3>3 DEF SameJobs
    <3>8. wk.pc \in EntryPC => queue'[wk.stream].log[wk.entry].job = JobId
      BY <3>7, SameLogs
    <3>9. "idle" # "remove_entry"
      OBVIOUS
    <3> QED
      BY <1>0, <2>2, <3>1, <3>6, <3>8, <3>9, RequestKeeps
  <2> QED
    BY <1>0, <2>4, <2>5, <2>6, <2>7, <2>8, <2>9, <2>10 DEF RequestForm
<1> QED
  BY <1>1, <1>2
-----------------------------------------------------------------------------
\* A worker step that takes no entry of the job out of everybody's hands.
LEMMA HeldThrough ==
  ASSUME Inv, NEW n \in Streams, NEW job \in JobsOf(n), UNCHANGED req, Held(n, job),
         \A i \in EntriesOf(queue[n], job) : i \notin Doomed(n) => i \in EntriesOf(queue'[n], job),
         wk'.pc \in SettledPC /\ wk'.stream = n /\ wk'.entry \in EntriesOf(queue[n], job) =>
           wk.pc \in SettledPC /\ wk.stream = n /\ wk.entry = wk'.entry,
         wk.pc \in WorkingPC /\ wk.stream = n /\ JobId = job => Held(n, job)',
         Woken(job) => Woken(job)' \/ Held(n, job)'
  PROVE  Held(n, job)'
<1>1. CASE \E i \in EntriesOf(queue[n], job) : i \notin Doomed(n)
  <2>1. PICK i \in EntriesOf(queue[n], job) : i \notin Doomed(n)
    BY <1>1
  <2>2. i \notin Doomed(n)'
    BY <2>1, DoomedIs
  <2> QED
    BY <2>1, <2>2 DEF Held
<1>2. CASE BeingPublished(job)
  <2>1. CASE Woken(job)
    BY <2>1, Publishers DEF Held
  <2>2. CASE \E r \in Requests : Publishes(r, job)
    <3>1. \E r \in Requests : Publishes(r, job)'
      BY <2>2 DEF Publishes
    <3> QED
      BY <3>1, Publishers DEF Held
  <2> QED
    BY <1>2, <2>1, <2>2, Publishers
<1> QED
  BY <1>1, <1>2 DEF Held

\* The worker goes on with its entry.
LEMMA HeldByWorker ==
  ASSUME NEW n, NEW job, wk'.pc \in WorkingPC, wk'.stream = n, JobId' = job
  PROVE  Held(n, job)'
BY DEF Held

\* The worker lets go of its entry before the outcome is on the row: it stays
\* pending, and is still there.
LEMMA LetsGo ==
  ASSUME Inv, LifeInv, UNCHANGED req, NEW n \in Streams, NEW job,
         EntriesOf(queue'[n], job) = EntriesOf(queue[n], job),
         wk.pc \in WorkingPC, wk.stream = n, JobId = job, wk'.pc \in IdlePC,
         n = "songs" \/ "cancel" \notin Operations
  PROVE  Held(n, job)'
<1>1. wk.pc \in HandlingPC
  BY DEF WorkingPC, HandlingPC
<1>2. wk.entry \in queue[n].pel /\ wk.entry \in queue[n].live
  <2>1. wk.stream = "songs" \/ "cancel" \notin Operations
    OBVIOUS
  <2> QED
    BY <1>1, <2>1 DEF LifeInv, HandOK
<1>3. wk.entry \in EntriesOf(queue[n], job)
  BY <1>2 DEF EntriesOf, Recoverable, JobId
<1>4. wk'.pc \notin SettledPC
  BY DEF IdlePC, SettledPC
<1>5. n = "analyses" => \A r \in Requests : req[r].pc # "remove_entry"
  <2>1. "analyses" # "songs"
    OBVIOUS
  <2> QED
    BY <2>1 DEF LifeInv, EntryIdOK
<1>6. wk.entry \notin Doomed(n)'
  BY <1>4, <1>5, DoomedIs
<1> QED
  BY <1>3, <1>6 DEF Held

\* The same entries after a step.
LEMMA SameViewEntries ==
  ASSUME Inv, SameViews
  PROVE  /\ \A n \in Streams : \A job : EntriesOf(queue'[n], job) = EntriesOf(queue[n], job)
         /\ \A n \in Streams : SameJobs(queue'[n], queue[n])
<1> DEFINE none == {}
<1>1. \A n \in Streams : Recoverable(queue'[n]) = Recoverable(queue[n]) \ none
                           /\ SameJobs(queue'[n], queue[n])
  BY DEF SameViews
<1>2. \A n \in Streams : \A job : EntriesOf(queue'[n], job) = EntriesOf(queue[n], job) \ none
  <2> HIDE DEF none
  <2> QED
    BY <1>1, EntriesKept
<1> QED
  BY <1>1, <1>2

\* The worker goes on with the entry it has: if it settles it, the job's row
\* promises nothing any more.
LEMMA HeldWhileStaying ==
  ASSUME Inv, LifeInv, UNCHANGED <<req, queue>>, NEW n \in Streams, NEW job \in JobsOf(n),
         wk.pc \in WorkingPC \cup SettledPC, wk'.stream = wk.stream, wk'.entry = wk.entry,
         wk'.pc \in WorkingPC \cup SettledPC,
         wk'.pc \in WorkingPC => wk.pc \in WorkingPC,
         wk.pc = "publish" => wk.wake = {},
         Promised(n, job)',
         \/ Kept(n, job) /\ (Promised(n, job)' <=> Promised(n, job))
         \/ n = wk.stream /\ job = JobId /\ wk'.pc \in WorkingPC
         \/ Woken(job)',
         n = wk.stream /\ job = JobId => wk'.pc \in WorkingPC \/ wk.pc \in SettledPC
  PROVE  Held(n, job)'
<1>1. JobId' = JobId
  BY DEF JobId
<1>2. CASE Woken(job)'
  BY <1>2, Publishers DEF Held
<1>3. CASE n = wk.stream /\ job = JobId /\ wk'.pc \in WorkingPC
  BY <1>1, <1>3, HeldByWorker
<1>4. CASE Kept(n, job) /\ (Promised(n, job)' <=> Promised(n, job))
  <2>1. Held(n, job)
    BY <1>4 DEF Kept
  <2>2. ~Woken(job)
    BY DEF Woken
  <2>3. wk.pc \in WorkingPC /\ wk.stream = n /\ JobId = job => Held(n, job)'
    <3>1. SettledPC \cap WorkingPC = {}
      BY DEF SettledPC, WorkingPC
    <3> QED
      BY <1>1, <3>1, HeldByWorker
  <2>4. wk'.pc \in SettledPC /\ wk'.stream = n /\ wk'.entry \in EntriesOf(queue[n], job) =>
           wk.pc \in SettledPC /\ wk.stream = n /\ wk.entry = wk'.entry
    <3> SUFFICES ASSUME wk'.pc \in SettledPC, wk'.stream = n, wk'.entry \in EntriesOf(queue[n], job)
                 PROVE  wk.pc \in SettledPC
      OBVIOUS
    <3>1. job = JobId
      BY DEF EntriesOf, JobId
    <3>2. SettledPC \cap WorkingPC = {}
      BY DEF SettledPC, WorkingPC
    <3> QED
      BY <3>1, <3>2
  <2> QED
    BY <2>1, <2>2, <2>3, <2>4, HeldThrough
<1> QED
  BY <1>2, <1>3, <1>4

\* It works on its entry and writes the outcome.
LEMMA HandlerKeepsHeld ==
  ASSUME Inv, LifeInv, NEW n \in Streams, NEW job \in JobsOf(n), Kept(n, job), Promised(n, job)',
         \/ HandleAnalysis \/ HandleSong \/ RunCompletes \/ RunFails
         \/ FinishAnalysis \/ FinishSong \/ GiveUp
  PROVE  Held(n, job)'
<1> USE DEF WorkerAt, Handling, unchangedAPI, unchangedTables
<1> DEFINE mine == n = wk.stream /\ job = JobId
<1> DEFINE same == Promised(n, job)' <=> Promised(n, job)
<1>0. /\ UNCHANGED <<req, queue>> /\ wk.pc \in WorkingPC
      /\ n = "analyses" => job \in Analyses
      /\ n # "analyses" => job \in Songs /\ n = "songs"
      /\ wk.stream = "analyses" \/ wk.stream = "songs"
  BY LifeFacts DEF HandleAnalysis, HandleSong, RunCompletes, RunFails, FinishAnalysis,
                   FinishSong, GiveUp, WorkingPC, JobsOf, Streams
<1>1. ASSUME NEW pc \in WorkingPC \cup SettledPC, Goes(pc), same \/ (mine /\ pc \in WorkingPC),
             mine => pc \in WorkingPC
      PROVE  Held(n, job)'
  <2>1. wk'.pc = pc /\ wk'.stream = wk.stream /\ wk'.entry = wk.entry /\ wk.pc # "publish"
    BY <1>0, <1>1, WorkerMove DEF Stays, WorkingPC
  <2> QED
    BY <1>0, <1>1, <2>1, HeldWhileStaying
<1>2. CASE HandleAnalysis
  <2>1. wk.pc = "handle" /\ wk.stream = "analyses" /\ UNCHANGED prep
    BY <1>2 DEF HandleAnalysis
  <2>2. JobId \in Analyses /\ Published(JobId) /\ SongOf[JobId] \in cached
    BY <2>1, LifeFacts DEF EntryPC, WorkerPC
  <2>3. status[JobId] # "none"
    BY <2>2 DEF LifeInv, RowOK
  <2>4. \/ Goes("finish") /\ UNCHANGED status
        \/ Goes("run") /\ SetStatus({JobId}, "processing")
    BY <1>2, <2>2, <2>3 DEF HandleAnalysis
  <2>5. same \/ mine
    BY <1>0, <2>1, <2>4 DEF SetStatus, Promised
  <2> QED
    BY <1>1, <2>4, <2>5 DEF WorkingPC
<1>3. CASE HandleSong
  <2>1. wk.pc = "handle" /\ wk.stream = "songs" /\ UNCHANGED status
    BY <1>3 DEF HandleSong
  <2>2. JobId \in Songs /\ ~NeverPublished(JobId)
    BY <2>1, LifeFacts DEF EntryPC, WorkerPC
  <2>3. prep[JobId] # "none"
    BY <2>2 DEF Inv, SongOK
  <2>4. \/ Goes("finish") /\ UNCHANGED prep
        \/ Goes("run") /\ SetPrep(JobId, "processing")
    BY <1>3, <2>3 DEF HandleSong
  <2>5. same \/ mine
    BY <1>0, <2>1, <2>4 DEF SetPrep, Promised
  <2> QED
    BY <1>1, <2>4, <2>5 DEF WorkingPC
<1>4. CASE RunCompletes
  <2>1. Goes("finish") /\ UNCHANGED <<status, prep>>
    BY <1>4 DEF RunCompletes
  <2>2. same
    BY <2>1 DEF Promised
  <2> QED
    BY <1>1, <2>1, <2>2 DEF WorkingPC
<1>5. CASE RunFails \/ FinishAnalysis \/ FinishSong \/ GiveUp
  <2>1. \/ /\ wk.stream = "analyses" /\ UNCHANGED prep
           /\ SetStatus({JobId}, "failed") \/ SetStatus({JobId}, "done")
        \/ /\ wk.stream = "songs" /\ UNCHANGED status
           /\ SetPrep(JobId, "failed") \/ SetPrep(JobId, "ready")
    BY <1>0, <1>5 DEF RunFails, FinishAnalysis, FinishSong, GiveUp
  <2>2. PICK pc \in {"ack", "drop", "fail_waiting", "wake", "give_up_waiting"} : Goes(pc)
    BY <1>5 DEF RunFails, FinishAnalysis, FinishSong, GiveUp
  <2>3. ~mine
    BY <1>0, <2>1 DEF SetStatus, SetPrep, Promised
  <2>4. same
    BY <1>0, <2>1, <2>3 DEF SetStatus, SetPrep, Promised
  <2> QED
    BY <1>1, <2>2, <2>3, <2>4 DEF SettledPC
<1> QED
  BY <1>2, <1>3, <1>4, <1>5

\* A finished preparation wakes its analyses, a failed one fails them.
LEMMA WakeKeepsHeld ==
  ASSUME Inv, LifeInv, NEW n \in Streams, NEW job \in JobsOf(n), Kept(n, job), Promised(n, job)',
         Wake \/ PublishWoken \/ FailWaiting
  PROVE  Held(n, job)'
<1> USE DEF WorkerAt, unchangedAPI, unchangedTables
<1>0. /\ UNCHANGED req /\ wk.pc \in SettledPC /\ wk \in WorkerType
      /\ n = "analyses" => job \in Analyses
      /\ n # "analyses" => job \in Songs
      /\ \A a \in Analyses : a \notin Songs
      /\ "analyses" \in Streams
  BY LifeFacts DEF Wake, PublishWoken, FailWaiting, SettledPC, JobsOf
<1>1. CASE Wake
  <2> DEFINE woken == WaitingFor(JobId)
  <2>1. /\ SetStatus(woken, "queued") /\ UNCHANGED <<queue, prep>> /\ wk.pc = "wake"
        /\ wk' = [wk EXCEPT !.pc = "publish", !.wake = woken]
    BY <1>1 DEF Wake
  <2> HIDE DEF woken
  <2>2. wk'.pc = "publish" /\ wk'.wake = woken /\ wk'.stream = wk.stream /\ wk'.entry = wk.entry
    BY <1>0, <2>1 DEF WorkerType
  <2>3. (Promised(n, job)' <=> Promised(n, job)) \/ job \in woken
    BY <1>0, <2>1 DEF Promised, SetStatus
  <2>4. job \in woken => Woken(job)'
    BY <2>2 DEF Woken
  <2> QED
    BY <1>0, <2>1, <2>2, <2>3, <2>4, HeldWhileStaying DEF WorkingPC, SettledPC
<1>2. CASE FailWaiting
  <2> DEFINE failed == WaitingFor(JobId)
  <2>0. PICK pc \in {"ack", "drop"} : Goes(pc)
    BY <1>2 DEF FailWaiting
  <2>1. SetStatus(failed, "failed") /\ UNCHANGED <<queue, prep>> /\ Goes(pc)
        /\ wk.pc \in {"fail_waiting", "give_up_waiting"}
    BY <1>2, <2>0 DEF FailWaiting
  <2> HIDE DEF failed
  <2>2. Stays(pc)
    BY <2>1, WorkerMove
  <2>3. Promised(n, job)' <=> Promised(n, job)
    BY <1>0, <2>1 DEF Promised, SetStatus
  <2> QED
    BY <1>0, <2>1, <2>2, <2>3, HeldWhileStaying DEF WorkingPC, SettledPC, Stays
<1>3. CASE PublishWoken /\ wk.wake = {}
  <2>1. UNCHANGED <<queue, prep, status>> /\ Goes("ack")
    BY <1>3 DEF PublishWoken
  <2>2. Stays("ack")
    BY <2>1, WorkerMove
  <2>3. Promised(n, job)' <=> Promised(n, job)
    BY <2>1 DEF Promised
  <2> QED
    BY <1>0, <1>3, <2>1, <2>2, <2>3, HeldWhileStaying DEF WorkingPC, SettledPC, Stays
<1>4. CASE PublishWoken /\ wk.wake # {}
  <2>1. PICK a \in wk.wake : /\ queue' = [queue EXCEPT !["analyses"] = XAdd(@, a)]
                             /\ wk' = [wk EXCEPT !.wake = @ \ {a}]
    BY <1>4 DEF PublishWoken
  <2> DEFINE left == wk.wake \ {a}
  <2>2. wk' = [wk EXCEPT !.wake = left] /\ a \in Analyses /\ a \in JobsOf("analyses")
        /\ wk.pc = "publish" /\ UNCHANGED <<status, prep>>
    BY <1>0, <1>4, <2>1 DEF PublishWoken, WorkerType, JobsOf
  <2> HIDE DEF left
  <2>3. wk'.wake = left /\ wk'.pc = wk.pc /\ wk'.stream = wk.stream /\ wk'.entry = wk.entry
    BY <1>0, <2>2 DEF WorkerType
  <2> DEFINE new == Len(queue["analyses"].log) + 1
  <2>4. /\ \A m \in Streams \ {"analyses"} : queue'[m] = queue[m]
        /\ EntriesOf(queue'["analyses"], a) = EntriesOf(queue["analyses"], a) \cup {new}
        /\ \A b : b # a => EntriesOf(queue'["analyses"], b) = EntriesOf(queue["analyses"], b)
        /\ \A i \in 1 .. Len(queue["analyses"].log) : i # new
    BY <1>0, <2>1, <2>2, EntriesAdded
  <2> HIDE DEF new
  <2>5. n = "analyses" /\ job = a => Held(n, job)'
    <3> SUFFICES ASSUME n = "analyses", job = a PROVE Held(n, job)'
      OBVIOUS
    <3>1. wk.stream # "analyses"
      BY <2>2 DEF Inv, WorkerOK
    <3>2. \A t \in Requests : req[t].pc = "remove_entry" =>
                                req[t].id \in 1 .. Len(queue["analyses"].log)
      BY DEF LifeInv, EntryIdOK, IsEntry
    <3>3. new \notin Doomed(n)'
      BY <1>0, <2>3, <2>4, <3>1, <3>2, DoomedIs
    <3> QED
      BY <2>4, <3>3 DEF Held
  <2>6. job = a => n = "analyses"
    BY <1>0, <2>2
  <2>7. Promised(n, job)
    BY <2>2 DEF Promised
  <2>8. CASE job # a
    <3>1. Held(n, job)
      BY <2>7 DEF Kept
    <3>2. EntriesOf(queue'[n], job) = EntriesOf(queue[n], job)
      BY <2>4, <2>8
    <3>3. Woken(job) => Woken(job)'
      BY <2>2, <2>3, <2>8 DEF Woken, left
    <3>4. wk.pc \notin WorkingPC
      BY <2>2 DEF WorkingPC
    <3> QED
      BY <1>0, <2>3, <3>1, <3>2, <3>3, <3>4, HeldThrough
  <2> QED
    BY <2>5, <2>6, <2>8
<1> QED
  BY <1>1, <1>2, <1>3, <1>4

\* The worker takes up an entry, or lets go of the one it has, and the rows
\* stay as they are.
LEMMA HeldAtRest ==
  ASSUME Inv, LifeInv, UNCHANGED <<req, status, prep>>, NEW n \in Streams, NEW job \in JobsOf(n),
         Kept(n, job), Promised(n, job)',
         EntriesOf(queue'[n], job) = EntriesOf(queue[n], job),
         wk.pc \in WorkingPC /\ wk.stream = n =>
           wk'.pc \in IdlePC /\ (n = "songs" \/ "cancel" \notin Operations),
         wk'.pc \in SettledPC /\ wk'.stream = n => wk'.entry \notin EntriesOf(queue[n], job),
         ~Woken(job)
  PROVE  Held(n, job)'
<1>1. Held(n, job)
  BY DEF Kept, Promised
<1>2. wk.pc \in WorkingPC /\ wk.stream = n /\ JobId = job => Held(n, job)'
  BY LetsGo
<1> QED
  BY <1>1, <1>2, HeldThrough

LEMMA StartKeepsHeld ==
  ASSUME Inv, LifeInv, NEW n \in Streams, NEW job \in JobsOf(n), Kept(n, job), Promised(n, job)',
         Start \/ ReclaimNext \/ ReclaimEntry \/ TickAnalyses \/ TickSongs
  PROVE  Held(n, job)'
<1> USE DEF WorkerAt, unchangedAPI, unchangedTables
<1>0. /\ UNCHANGED <<req, status, prep>> /\ wk.pc \in IdlePC /\ wk \in WorkerType
      /\ SettledPC \cap IdlePC = {}
  BY LifeFacts DEF Start, ReclaimNext, ReclaimEntry, TickAnalyses, TickSongs, IdlePC, SettledPC
<1>1. wk.pc \notin WorkingPC /\ ~Woken(job)
  BY <1>0 DEF IdlePC, WorkingPC, Woken
<1>2. SameViews
  BY <1>0, WorkerViews DEF WorkerStep, Ack, Del, PublishWoken, IdlePC
<1>3. EntriesOf(queue'[n], job) = EntriesOf(queue[n], job)
  BY <1>2, SameViewEntries
<1>4. ASSUME wk'.pc \in SettledPC /\ wk'.stream = n
      PROVE  wk'.entry \notin EntriesOf(queue[n], job)
  <2>1. CASE Start
    <3>1. wk'.pc = "reclaim"
      BY <2>1 DEF Start, Down
    <3> QED
      BY <1>4, <3>1 DEF SettledPC
  <2>2. CASE ReclaimNext
    <3>1. wk'.pc \in {"reclaim", "loop"}
      BY <1>0, <2>2 DEF ReclaimNext, WorkerType
    <3> QED
      BY <1>4, <3>1 DEF SettledPC
  <2>3. CASE TickAnalyses \/ TickSongs
    <3>1. wk'.pc \in {"delivered", "handle"}
      BY <1>0, <2>3 DEF TickAnalyses, TickSongs, PriorityPrep, NextPrep, WorkerType
    <3> QED
      BY <1>4, <3>1 DEF SettledPC
  <2>4. CASE ReclaimEntry
    <3>1. PICK i \in wk.todo :
            \/ wk' = [wk EXCEPT !.entry = i, !.pc = IF i \in queue[wk.stream].live
                                                    THEN "give_up" ELSE "drop"]
            \/ wk' = [wk EXCEPT !.entry = i, !.pc = "handle"]
            \/ wk' = [wk EXCEPT !.todo = @ \ {i}]
      BY <2>4 DEF ReclaimEntry
    <3>2. wk.pc = "reclaim"
      BY <2>4 DEF ReclaimEntry
    <3> DEFINE rest == wk.todo \ {i}
    <3>3. wk' # [wk EXCEPT !.todo = rest]
      <4> HIDE DEF rest
      <4> QED
        BY <1>0, <1>4, <3>2 DEF SettledPC, WorkerType
    <3>4. wk' # [wk EXCEPT !.entry = i, !.pc = "handle"]
      BY <1>0, <1>4 DEF SettledPC, WorkerType
    <3> DEFINE pc == IF i \in queue[wk.stream].live THEN "give_up" ELSE "drop"
    <3>5. wk' = [wk EXCEPT !.entry = i, !.pc = pc]
      BY <3>1, <3>3, <3>4
    <3>6. wk'.pc = pc /\ wk'.entry = i /\ wk'.stream = wk.stream
      <4> HIDE DEF pc
      <4> QED
        BY <1>0, <3>5 DEF WorkerType
    <3>7. i \notin queue[n].live
      BY <1>4, <3>6 DEF SettledPC
    <3> QED
      BY <3>6, <3>7 DEF EntriesOf, Recoverable
  <2> QED
    BY <2>1, <2>2, <2>3, <2>4
<1> QED
  BY <1>0, <1>1, <1>3, <1>4, HeldAtRest

\* The worker is interrupted, dies, or is told to stop.
LEMMA FaultKeepsHeld ==
  ASSUME Inv, LifeInv, NEW n \in Streams, NEW job \in JobsOf(n), Kept(n, job), Promised(n, job)',
         Safe(n),
         ProcessFirst \/ RunInterrupted \/ Exit \/ RequestStop \/ Crash \/ HandlerFault
  PROVE  Held(n, job)'
<1> USE DEF WorkerAt, unchangedAPI, unchangedTables
<1>0. /\ UNCHANGED <<req, status, prep, queue>> /\ wk \in WorkerType
      /\ SettledPC \cap IdlePC = {}
      /\ n = "analyses" \/ n = "songs"
  BY LifeFacts DEF ProcessFirst, RunInterrupted, Exit, RequestStop, Crash, HandlerFault,
                   IdlePC, SettledPC, Streams
<1>1. CASE wk'.pc = wk.pc /\ wk'.stream = wk.stream /\ wk'.entry = wk.entry /\ wk'.wake = wk.wake
  <2>1. Held(n, job)
    BY <1>0 DEF Kept, Promised
  <2>2. JobId' = JobId
    BY <1>0, <1>1 DEF JobId
  <2> QED
    BY <1>0, <1>1, <2>1, <2>2, HeldThrough, HeldByWorker DEF Woken
<1>2. CASE RequestStop
  <2>1. wk' = [wk EXCEPT !.stopping = TRUE]
    BY <1>2 DEF RequestStop
  <2> QED
    BY <1>0, <1>1, <2>1 DEF WorkerType
<1>3. CASE ProcessFirst /\ ~wk.stopping
  <2>1. Stays("handle") /\ wk.pc = "delivered"
    BY <1>3, WorkerMove DEF ProcessFirst
  <2>2. Promised(n, job)' <=> Promised(n, job)
    BY <1>0 DEF Promised
  <2> QED
    BY <1>0, <2>1, <2>2, HeldWhileStaying DEF Stays, WorkingPC, SettledPC
<1>4. ASSUME wk'.pc \in IdlePC, wk.pc \in EntryPC => Faults # {},
             wk.pc = "publish" => Faults \cap {"crash", "handler"} # {}
      PROVE  Held(n, job)'
  <2>1. wk.pc \in WorkingPC /\ wk.stream = n => n = "songs" \/ "cancel" \notin Operations
    BY <1>0, <1>4 DEF Safe, CancelIsSafe, WorkingPC, EntryPC, WorkerPC
  <2>2. ~Woken(job)
    <3> SUFFICES ASSUME Woken(job) PROVE FALSE
      OBVIOUS
    <3>1. wk.pc = "publish" /\ job \in wk.wake /\ wk.wake \subseteq Analyses
      BY <1>0 DEF Woken, WorkerType
    <3>2. n = "analyses"
      BY <1>0, <3>1, JobAssumption DEF JobsOf
    <3>3. \A a \in Analyses : SongOf[a] \in PreparedAtStart
      BY <1>4, <3>1, <3>2 DEF Safe, WakeIsWhole
    <3> QED
      BY <3>1, <3>3 DEF LifeInv, PreparedOK
  <2>3. wk'.pc \notin SettledPC
    BY <1>0, <1>4
  <2> QED
    BY <1>0, <1>4, <2>1, <2>2, <2>3, HeldAtRest
<1>5. CASE (ProcessFirst /\ wk.stopping) \/ RunInterrupted
  <2>1. wk.stopping /\ wk.pc # "publish"
    BY <1>5 DEF ProcessFirst, RunInterrupted
  <2>2. "stop" \in Faults
    BY <2>1 DEF LifeInv, HandOK
  <2>3. wk'.pc \in IdlePC
    BY <1>5, WorkerMove DEF ProcessFirst, RunInterrupted, Stays, IdlePC
  <2> QED
    BY <1>4, <2>1, <2>2, <2>3
<1>6. CASE Exit \/ Crash
  <2>1. wk'.pc \in IdlePC
    BY <1>6 DEF Exit, Crash, Down, IdlePC
  <2>2. Crash => "crash" \in Faults
    BY DEF Crash, Fault
  <2>3. Exit => wk.pc = "loop"
    BY DEF Exit
  <2> QED
    BY <1>4, <1>6, <2>1, <2>2, <2>3 DEF EntryPC
<1>7. CASE HandlerFault
  <2>1. wk'.pc \in IdlePC /\ "handler" \in Faults
    BY <1>7, WorkerMove DEF HandlerFault, Fault, IdlePC
  <2> QED
    BY <1>4, <2>1
<1> QED
  BY <1>2, <1>3, <1>5, <1>6, <1>7

LEMMA AckKeepsHeld ==
  ASSUME Inv, LifeInv, NEW n \in Streams, NEW job \in JobsOf(n), Kept(n, job), Promised(n, job)',
         Ack \/ Del
  PROVE  Held(n, job)'
<1> USE DEF WorkerAt, unchangedAPI, unchangedTables
<1>0. UNCHANGED <<req, status, prep>> /\ wk.stream \in Streams
  BY LifeFacts DEF Ack, Del
<1>1. Held(n, job)
  BY <1>0 DEF Kept, Promised
<1>2. /\ \A m \in Streams : SameJobs(queue'[m], queue[m])
      /\ \A m \in Streams \ {wk.stream} : queue'[m] = queue[m]
      /\ Ack => Recoverable(queue'[wk.stream]) = Recoverable(queue[wk.stream]) \ {wk.entry}
      /\ Del => Recoverable(queue'[wk.stream]) = Recoverable(queue[wk.stream])
  BY AckDelViews
<1>3. CASE Ack
  <2>1. wk.pc \in {"ack", "drop"} /\ Stays("del")
    BY <1>3, WorkerMove DEF Ack
  <2>2. EntriesOf(queue'[wk.stream], job) = EntriesOf(queue[wk.stream], job) \ {wk.entry}
    BY <1>0, <1>2, <1>3, EntriesKept
  <2>3. wk.entry \in Doomed(wk.stream)
    BY <2>1, DoomedIs DEF SettledPC
  <2>4. \A i \in EntriesOf(queue[n], job) : i \notin Doomed(n) => i \in EntriesOf(queue'[n], job)
    BY <1>2, <2>2, <2>3
  <2>5. wk.pc \notin WorkingPC /\ ~Woken(job) /\ wk.pc \in SettledPC
    BY <2>1 DEF WorkingPC, Woken, SettledPC
  <2> QED
    BY <1>0, <1>1, <2>1, <2>4, <2>5, HeldThrough DEF Stays
<1>4. CASE Del
  <2>1. wk.pc = "del" /\ wk'.pc \in IdlePC
    BY <1>4, WorkerMove DEF Del, IdlePC
  <2>2. \A i \in EntriesOf(queue[n], job) : i \in EntriesOf(queue'[n], job)
    <3> DEFINE none == {}
    <3>1. Recoverable(queue'[wk.stream]) = Recoverable(queue[wk.stream]) \ none
      BY <1>2, <1>4
    <3>2. EntriesOf(queue'[wk.stream], job) = EntriesOf(queue[wk.stream], job) \ none
      <4> HIDE DEF none
      <4> QED
        BY <1>0, <1>2, <3>1, EntriesKept
    <3> QED
      BY <1>2, <3>2
  <2>3. wk.pc \notin WorkingPC /\ ~Woken(job) /\ wk'.pc \notin SettledPC
    BY <2>1 DEF WorkingPC, Woken, SettledPC, IdlePC
  <2> QED
    BY <1>0, <1>1, <2>2, <2>3, HeldThrough
<1> QED
  BY <1>3, <1>4

LEMMA KeptStep ==
  ASSUME Inv, LifeInv, [Next]_vars, NEW n \in Streams, NEW job \in JobsOf(n), Kept(n, job), Safe(n)
  PROVE  Kept(n, job)'
<1>1. ASSUME NEW r \in Requests, RequestStep(r) PROVE Kept(n, job)'
  BY <1>1, RequestHeld
<1>2. ASSUME NEW r \in Requests PROVE ~ApiFault(r)
  BY DEF ApiFault, Fault, Safe, NoGap
<1>3. ~GiveUpFault
  BY DEF GiveUpFault, Fault, Safe, NoGap
<1>4. ASSUME WorkerStep \/ WorkerFault, Promised(n, job)' PROVE Held(n, job)'
  BY <1>3, <1>4, HandlerKeepsHeld, WakeKeepsHeld, StartKeepsHeld, FaultKeepsHeld, AckKeepsHeld
     DEF WorkerStep, WorkerFault
<1>5. CASE UNCHANGED vars
  BY <1>5 DEF vars, Kept, Promised, Held, Doomed, JobId, BeingPublished, WorkerAt
<1> QED
  BY <1>1, <1>2, <1>4, <1>5 DEF Next, Kept

\* Who holds a job: an entry of it, the worker, or its publisher.
LEMMA HeldIsThere ==
  ASSUME NEW n, NEW job, Held(n, job)
  PROVE  EntriesOf(queue[n], job) # {} \/ Processing(n, job) \/ BeingPublished(job)
BY DEF Held, Processing, WorkingPC

(***************************************************************************)
(* A song whose row is pending or processing has an entry on songs:prep    *)
(* that a worker can still be handed, or is at a worker, or about to be    *)
(* published: whatever dies or raises in the worker and however requests   *)
(* interleave with it, as long as no request fails between its writes and  *)
(* no record of a give-up.                                                 *)
(***************************************************************************)
THEOREM NoPreparationIsLost == NoGap => (Spec => []PrepNotLost)
<1> SUFFICES ASSUME NoGap PROVE Spec => []PrepNotLost
  OBVIOUS
<1> DEFINE K == \A s \in Songs : Kept("songs", s)
<1>0. "songs" \in Streams /\ JobsOf("songs") = Songs /\ Safe("songs")
  BY DEF Streams, JobsOf, Safe
<1>1. Init => Inv /\ LifeInv /\ K
  BY InitOK, LifeInit DEF Init, Kept, Promised
<1>2. Inv /\ LifeInv /\ K /\ [Next]_vars => K'
  BY <1>0, KeptStep
<1>3. K => PrepNotLost
  BY HeldIsThere DEF PrepNotLost, Kept, Promised
<1> HIDE DEF K
<1> QED
  BY <1>1, <1>2, <1>3, InvAlways, LifeInvAlways, PTL DEF Spec

(***************************************************************************)
(* The same of an analysis that is queued or processing, where besides     *)
(* nothing is canceled while something fails (the cancel deletes the entry *)
(* a failing worker would leave behind) and no wake-up is cut short        *)
(* between its commit and its XADDs.                                       *)
(***************************************************************************)
THEOREM NoAnalysisIsLost == NoGap /\ CancelIsSafe /\ WakeIsWhole => (Spec => []JobNotLost)
<1> SUFFICES ASSUME NoGap, CancelIsSafe, WakeIsWhole PROVE Spec => []JobNotLost
  OBVIOUS
<1> DEFINE K == \A a \in Analyses : Kept("analyses", a)
<1>0. "analyses" \in Streams /\ JobsOf("analyses") = Analyses /\ Safe("analyses")
  BY DEF Streams, JobsOf, Safe
<1>1. Init => Inv /\ LifeInv /\ K
  BY InitOK, LifeInit DEF Init, Kept, Promised
<1>2. Inv /\ LifeInv /\ K /\ [Next]_vars => K'
  BY <1>0, KeptStep
<1>3. K => JobNotLost
  BY HeldIsThere DEF JobNotLost, Kept, Promised
<1> HIDE DEF K
<1> QED
  BY <1>1, <1>2, <1>3, InvAlways, LifeInvAlways, PTL DEF Spec
-----------------------------------------------------------------------------
\* The row is in a status from which the job may be published again.
Open(n, job) ==
  IF n = "analyses" THEN status[job] \in {"none", "waiting_for_reference", "failed"}
                    ELSE prep[job] \in {"none", "failed"}

One(n, job) == OneOf(n, job) /\ (Open(n, job) => NoneOf(n, job))

LEMMA OutstandingIs ==
  ASSUME NEW n, NEW job, NEW i
  PROVE  /\ i \in Outstanding(n, job) <=>
              /\ ~Settling(n, i)
              /\ \/ i \in EntriesOf(queue[n], job)
                 \/ i = wk.entry /\ wk.pc \in HandlingPC /\ wk.stream = n /\ JobId = job
         /\ i \in Outstanding(n, job)' <=>
              /\ ~Settling(n, i)'
              /\ \/ i \in EntriesOf(queue'[n], job)
                 \/ i = wk'.entry /\ wk'.pc \in HandlingPC /\ wk'.stream = n /\ JobId' = job
BY DEF Outstanding

\* With the same worker, what is outstanding follows the entries.
LEMMA OutstandingEntries ==
  ASSUME Inv, UNCHANGED wk, NEW n \in Streams, NEW job,
         wk.pc \in EntryPC => queue'[wk.stream].log[wk.entry].job = JobId
  PROVE  /\ EntriesOf(queue'[n], job) \subseteq EntriesOf(queue[n], job) =>
              Outstanding(n, job)' \subseteq Outstanding(n, job)
         /\ \A id : EntriesOf(queue'[n], job) = EntriesOf(queue[n], job) \cup {id} =>
              Outstanding(n, job)' \subseteq Outstanding(n, job) \cup {id}
<1>1. wk.pc \in HandlingPC => JobId' = JobId
  BY LifeFacts DEF JobId, JobAt
<1>2. \A i : Settling(n, i)' <=> Settling(n, i)
  BY DEF Settling
<1>3. \A i : i \in Outstanding(n, job)' /\ i \in EntriesOf(queue[n], job) => i \in Outstanding(n, job)
  BY <1>2, OutstandingIs
<1>4. \A i : i \in Outstanding(n, job)' /\ i \notin EntriesOf(queue'[n], job) => i \in Outstanding(n, job)
  BY <1>1, <1>2, OutstandingIs
<1> HIDE DEF Outstanding
<1>5. \A i : i \in Outstanding(n, job)' => i \in EntriesOf(queue'[n], job) \/ i \in Outstanding(n, job)
  BY <1>4
<1>6. ASSUME EntriesOf(queue'[n], job) \subseteq EntriesOf(queue[n], job)
      PROVE  Outstanding(n, job)' \subseteq Outstanding(n, job)
  BY <1>3, <1>5, <1>6
<1>7. ASSUME NEW id, EntriesOf(queue'[n], job) = EntriesOf(queue[n], job) \cup {id}
      PROVE  Outstanding(n, job)' \subseteq Outstanding(n, job) \cup {id}
  BY <1>3, <1>5, <1>7
<1> QED
  BY <1>6, <1>7

\* A step that leaves the job with fewer entries and publishers.
LEMMA OneThrough ==
  ASSUME NEW n, NEW job, One(n, job),
         Outstanding(n, job)' \subseteq Outstanding(n, job),
         \A r \in Requests : Publishes(r, job)' => Publishes(r, job),
         Woken(job)' => Woken(job),
         Open(n, job)' => Open(n, job) \/ NoneOf(n, job)'
  PROVE  One(n, job)'
BY DEF One, OneOf, NoneOf

\* No publisher, nobody woken, one entry.
LEMMA OneEntered ==
  ASSUME NEW n, NEW job, NEW id,
         Outstanding(n, job)' \subseteq {id},
         \A r \in Requests : ~Publishes(r, job)', ~Woken(job)', ~Open(n, job)'
  PROVE  One(n, job)'
BY DEF One, OneOf

\* Somebody is about to publish who alone knows of the job.
LEMMA OneClaimed ==
  ASSUME NEW n, NEW job, NEW r \in Requests,
         Outstanding(n, job)' = {}, ~Woken(job)',
         \A t \in Requests : Publishes(t, job)' => t = r, ~Open(n, job)'
  PROVE  One(n, job)'
BY DEF One, OneOf
-----------------------------------------------------------------------------
\* An analysis of a song without a reference is nowhere.
LEMMA UncachedIsNowhere ==
  ASSUME Inv, NEW a \in Analyses, SongOf[a] \notin cached
  PROVE  NoneOf("analyses", a)
<1>1. \A i \in 1 .. Len(queue["analyses"].log) : JobAt(queue["analyses"], i) # a
  BY DEF Inv, ReferenceReady
<1>2. EntriesOf(queue["analyses"], a) = {}
  BY <1>1, WorkerFacts, RecoverableLogged DEF EntriesOf
<1>3. ~(wk.pc \in HandlingPC /\ wk.stream = "analyses" /\ JobId = a)
  BY LifeFacts
<1>4. Outstanding("analyses", a) = {}
  BY <1>2, <1>3 DEF Outstanding
<1>5. ~Woken(a)
  BY DEF Woken, Inv, WorkerOK
<1>6. \A r \in Requests : ~Publishes(r, a)
  <2>1. PublisherPC \subseteq CheckedPC \cup PrepPC
    BY DEF PublisherPC, CheckedPC, PrepPC
  <2>2. \A r \in Requests : req[r].pc \in PrepPC => req[r].job # a
    BY LifeFacts
  <2> QED
    BY <2>1, <2>2 DEF Publishes, Inv, RequestOK
<1> QED
  BY <1>4, <1>5, <1>6 DEF NoneOf

\* A request that neither publishes nor begins to.
LEMMA RequestSpares ==
  ASSUME Inv, LifeInv, NEW r \in Requests, Rows(r), UNCHANGED wk,
         NEW n \in Streams, NEW job \in JobsOf(n), One(n, job),
         NEW pc, NEW j, NEW id, Moves(r, pc, j, id),
         pc \in PublisherPC /\ j = job => req[r].pc \in PublisherPC /\ req[r].job = job,
         EntriesOf(queue'[n], job) \subseteq EntriesOf(queue[n], job),
         wk.pc \in EntryPC => queue'[wk.stream].log[wk.entry].job = JobId,
         req[r].pc \in RollbackPC => pc = "idle"
  PROVE  One(n, job)'
<1>1. Outstanding(n, job)' \subseteq Outstanding(n, job)
  BY OutstandingEntries
<1>2. \A t \in Requests : Publishes(t, job)' => Publishes(t, job)
  BY DEF Publishes, Moves
<1>3. Woken(job)' <=> Woken(job)
  BY DEF Woken
<1>4. Open(n, job)' => Open(n, job) \/ NoneOf(n, job)'
  <2> SUFFICES ASSUME Open(n, job)', ~Open(n, job) PROVE NoneOf(n, job)'
    OBVIOUS
  <2>0. /\ n = "analyses" => job \in Analyses
        /\ n # "analyses" => job \in Songs
        /\ "rollback" \in PublisherPC /\ "prep_rollback" \in PublisherPC
        /\ "rollback" \in RollbackPC /\ "prep_rollback" \in RollbackPC /\ "idle" \notin PublisherPC
    BY DEF Streams, JobsOf, PublisherPC, RollbackPC
  <2>1. \/ req[r].pc \in RollbackPC /\ req[r].job = job
        \/ n = "analyses" /\ req[r].pc = "prep_rollback" /\ req[r].job = SongOf[job]
    BY <2>0 DEF Rows, Open
  <2>2. CASE req[r].pc \in RollbackPC /\ req[r].job = job
    <3>1. Publishes(r, job)
      BY <2>2, RequestPlaces DEF Publishes
    <3>2. /\ Outstanding(n, job) = {} /\ ~Woken(job)
          /\ \A t \in Requests : Publishes(t, job) => t = r
      BY <3>1 DEF One, OneOf
    <3>3. ~Publishes(r, job)'
      BY <2>0, <2>2 DEF Publishes, Moves
    <3> QED
      BY <1>1, <1>2, <1>3, <3>2, <3>3 DEF NoneOf
  <2>3. CASE n = "analyses" /\ req[r].pc = "prep_rollback" /\ req[r].job = SongOf[job]
    <3>1. SongOf[job] \notin cached
      BY <2>3 DEF Inv, SongOK, NewSongPC
    <3>2. NoneOf(n, job)
      BY <2>0, <2>3, <3>1, UncachedIsNowhere
    <3> QED
      BY <1>1, <1>2, <1>3, <3>2 DEF NoneOf
  <2> QED
    BY <2>1, <2>2, <2>3
<1> QED
  BY <1>1, <1>2, <1>3, <1>4, OneThrough

LEMMA RequestOnce ==
  ASSUME Inv, LifeInv, NEW r \in Requests, RequestStep(r),
         NEW n \in Streams, NEW job \in JobsOf(n), One(n, job)
  PROVE  One(n, job)'
<1>0. /\ RequestForm(r) /\ UNCHANGED wk /\ Rows(r)
      /\ n = "analyses" => job \in Analyses
      /\ n # "analyses" => job \in Songs /\ n = "songs"
      /\ "analyses" \in Streams /\ "idle" \notin PublisherPC
      /\ \A a \in Analyses : a \notin Songs
  BY RequestTakesForm, RowsChange, LifeFacts DEF JobsOf, Streams, PublisherPC
<1>1. UNCHANGED queue /\ wk.pc \in EntryPC => queue'[wk.stream].log[wk.entry].job = JobId
  BY DEF JobId, JobAt
<1>2. CASE Waits(r)
  <2>1. PICK pc, j, id : pc \in QuietPC /\ Moves(r, pc, j, id)
    BY <1>2 DEF Waits
  <2>2. UNCHANGED queue /\ pc \notin PublisherPC /\ req[r].pc \notin RollbackPC
    BY <1>2, <2>1, RequestPlaces DEF Waits
  <2> QED
    BY <1>0, <1>1, <2>1, <2>2, RequestSpares
<1>3. ASSUME NEW j \in Job, NEW pc \in ClaimPC, Claims(r, pc, j) PROVE One(n, job)'
  <2>1. PICK id \in Nat : Moves(r, pc, j, id)
    BY <1>3 DEF Claims
  <2>2. UNCHANGED queue /\ req[r].pc \notin RollbackPC
    BY <1>3 DEF Claims, RollbackPC
  <2>3. CASE j # job
    BY <1>0, <1>1, <2>1, <2>2, <2>3, RequestSpares
  <2>4. CASE j = job
    <3>1. Open(n, job) /\ ~Open(n, job)'
      BY <1>0, <1>3, <2>4 DEF Claims, Open
    <3>2. NoneOf(n, job)
      BY <3>1 DEF One
    <3>3. Outstanding(n, job)' = {}
      BY <1>0, <1>1, <2>2, <3>2, OutstandingEntries DEF NoneOf
    <3>4. ~Woken(job)' /\ \A t \in Requests : Publishes(t, job)' => t = r
      BY <1>0, <2>1, <3>2 DEF NoneOf, Woken, Publishes, Moves
    <3> QED
      BY <3>1, <3>3, <3>4, OneClaimed
  <2> QED
    BY <2>3, <2>4
<1>4. CASE Refused(r)
  <2>1. PICK pc, id : pc \in {"rollback", "prep_rollback"} /\ Moves(r, pc, req[r].job, id)
    BY <1>4 DEF Refused
  <2>2. UNCHANGED queue /\ req[r].pc \in PublisherPC /\ req[r].pc \notin RollbackPC
    BY <1>4 DEF Refused, PublisherPC, RollbackPC
  <2> QED
    BY <1>0, <1>1, <2>1, <2>2, RequestSpares
<1>5. CASE RollsBack(r)
  <2>1. UNCHANGED queue /\ Moves(r, "idle", NoJob, 0)
    BY <1>5 DEF RollsBack
  <2> QED
    BY <1>0, <1>1, <2>1, RequestSpares
<1>6. ASSUME NEW name \in Streams, NEW j \in Job, Enters(r, name, j) PROVE One(n, job)'
  <2>1. PICK pc, k, id : pc \in {"set_id", "idle"} /\ Moves(r, pc, k, id)
    BY <1>6 DEF Enters
  <2>2. /\ queue' = [queue EXCEPT ![name] = XAdd(@, j)] /\ j \in JobsOf(name)
        /\ req[r].job = j /\ req[r].pc \in PublisherPC /\ req[r].pc \notin RollbackPC
    BY <1>6, RequestPlaces DEF Enters
  <2>3. pc \notin PublisherPC
    BY <2>1 DEF PublisherPC
  <2> DEFINE new == Len(queue[name].log) + 1
  <2>4. /\ \A m \in Streams \ {name} : queue'[m] = queue[m]
        /\ EntriesOf(queue'[name], j) = EntriesOf(queue[name], j) \cup {new}
        /\ \A b : b # j => EntriesOf(queue'[name], b) = EntriesOf(queue[name], b)
    BY <2>2, EntriesAdded
  <2>5. wk.pc \in EntryPC => queue'[wk.stream].log[wk.entry].job = JobId
    BY <2>2, NewEntry
  <2> HIDE DEF new
  <2>6. CASE j # job
    <3>1. EntriesOf(queue'[n], job) = EntriesOf(queue[n], job)
      BY <2>4, <2>6
    <3> QED
      BY <1>0, <2>1, <2>2, <2>3, <2>5, <3>1, RequestSpares
  <2>7. CASE j = job
    <3>1. n = name
      BY <2>2, <2>7, OneKind
    <3>2. Publishes(r, job)
      BY <2>2, <2>7 DEF Publishes
    <3>3. /\ Outstanding(n, job) = {} /\ ~Woken(job) /\ ~Open(n, job)
          /\ \A t \in Requests : Publishes(t, job) => t = r
      BY <3>2 DEF One, OneOf, NoneOf
    <3>4. Outstanding(n, job)' \subseteq {new}
      BY <1>0, <2>4, <2>5, <2>7, <3>1, <3>3, OutstandingEntries
    <3>5. ~Woken(job)' /\ \A t \in Requests : ~Publishes(t, job)'
      BY <1>0, <2>1, <2>3, <3>3 DEF Woken, Publishes, Moves
    <3>6. ~Open(n, job)'
      <4>1. req[r].pc \notin {"rollback", "prep_rollback"}
        BY <2>2 DEF RollbackPC
      <4> QED
        BY <1>0, <3>3, <4>1 DEF Rows, Open
    <3> QED
      BY <3>4, <3>5, <3>6, OneEntered
  <2> QED
    BY <2>6, <2>7
<1>7. ASSUME NEW a \in Analyses, Marks(r, a) PROVE One(n, job)'
  <2>1. /\ UNCHANGED queue /\ Moves(r, "remove_entry", a, streamId[a])
        /\ "remove_entry" \notin PublisherPC /\ req[r].pc \notin RollbackPC
    BY <1>7, RequestPlaces DEF Marks, RollbackPC
  <2> QED
    BY <1>0, <1>1, <2>1, RequestSpares
<1>8. ASSUME NEW id \in Nat, Removes(r, id) PROVE One(n, job)'
  <2> DEFINE q == queue["analyses"]
  <2> DEFINE p == XDel(q, id)
  <2>1. /\ queue' = [queue EXCEPT !["analyses"] = p] /\ Moves(r, "idle", NoJob, 0)
        /\ req[r].pc \notin RollbackPC
    BY <1>8 DEF Removes, RollbackPC
  <2>2. SameJobs(p, q) /\ Recoverable(p) = Recoverable(q) \ {id}
    BY <1>0, WorkerFacts, XDelOK, XDelViews
  <2> HIDE DEF p
  <2>3. queue'["analyses"] = p /\ \A m \in Streams \ {"analyses"} : queue'[m] = queue[m]
    BY <1>0, <2>1, OneStream
  <2>4. \A b : EntriesOf(queue'["analyses"], b) = EntriesOf(q, b) \ {id}
    BY <1>0, <2>2, <2>3, EntriesKept
  <2>5. EntriesOf(queue'[n], job) \subseteq EntriesOf(queue[n], job)
    BY <2>3, <2>4
  <2>6. \A m \in Streams : SameJobs(queue'[m], queue[m])
    BY <2>2, <2>3 DEF SameJobs
  <2>7. wk.pc \in EntryPC => queue'[wk.stream].log[wk.entry].job = JobId
    BY <2>6, SameLogs
  <2> QED
    BY <1>0, <2>1, <2>5, <2>7, RequestSpares
<1> QED
  BY <1>0, <1>2, <1>3, <1>4, <1>5, <1>6, <1>7, <1>8 DEF RequestForm

LEMMA ApiFaultOnce ==
  ASSUME Inv, LifeInv, NEW r \in Requests, ApiFault(r),
         NEW n \in Streams, NEW job \in JobsOf(n), One(n, job)
  PROVE  One(n, job)'
<1>1. UNCHANGED <<status, prep, queue, wk>> /\ Moves(r, "idle", NoJob, 0)
  BY FinishMoves DEF ApiFault
<1>2. Rows(r)
  BY <1>1 DEF Rows
<1>3. "idle" \notin PublisherPC
  BY DEF PublisherPC
<1>4. wk.pc \in EntryPC => queue'[wk.stream].log[wk.entry].job = JobId
  BY <1>1 DEF JobId, JobAt
<1> QED
  BY <1>1, <1>2, <1>3, <1>4, RequestSpares
-----------------------------------------------------------------------------
\* The worker is at an entry whose outcome it has not recorded yet.
HandsPC == {"delivered", "handle", "run", "finish", "wake", "publish", "give_up"}

\* The worker makes nothing of the job outstanding that was not.
LEMMA OutstandingShrinks ==
  ASSUME NEW n \in Streams, NEW job,
         EntriesOf(queue'[n], job) \subseteq EntriesOf(queue[n], job),
         \A i \in EntriesOf(queue'[n], job) : Settling(n, i) => Settling(n, i)',
         wk'.pc \in HandsPC /\ wk'.stream = n /\ JobId' = job => wk'.entry \in Outstanding(n, job)
  PROVE  Outstanding(n, job)' \subseteq Outstanding(n, job)
<1> SUFFICES ASSUME NEW i, i \in Outstanding(n, job)' PROVE i \in Outstanding(n, job)
  OBVIOUS
<1>1. /\ ~Settling(n, i)'
      /\ \/ i \in EntriesOf(queue'[n], job)
         \/ i = wk'.entry /\ wk'.pc \in HandlingPC /\ wk'.stream = n /\ JobId' = job
  BY OutstandingIs
<1>2. CASE i \in EntriesOf(queue'[n], job)
  BY <1>1, <1>2, OutstandingIs
<1>3. CASE i = wk'.entry /\ wk'.pc \in HandlingPC /\ wk'.stream = n /\ JobId' = job
  <2>1. wk'.pc \in HandsPC
    BY <1>1, <1>3 DEF Settling, HandlingPC, HandsPC
  <2> QED
    BY <1>3, <2>1
<1> QED
  BY <1>1, <1>2, <1>3

LEMMA WorkerSpares ==
  ASSUME Inv, UNCHANGED req, NEW n \in Streams, NEW job \in JobsOf(n), One(n, job),
         EntriesOf(queue'[n], job) \subseteq EntriesOf(queue[n], job),
         \A i \in EntriesOf(queue'[n], job) : Settling(n, i) => Settling(n, i)',
         wk'.pc \in HandsPC /\ wk'.stream = n /\ JobId' = job => wk'.entry \in Outstanding(n, job),
         Woken(job)' => Woken(job),
         Open(n, job)' => Open(n, job) \/ NoneOf(n, job)'
  PROVE  One(n, job)'
<1>1. Outstanding(n, job)' \subseteq Outstanding(n, job)
  BY OutstandingShrinks
<1>2. \A r \in Requests : Publishes(r, job)' => Publishes(r, job)
  BY DEF Publishes
<1> QED
  BY <1>1, <1>2, OneThrough

\* What is outstanding while it goes on with the entry it has, or settles it.
LEMMA StaysOutstanding ==
  ASSUME Inv, UNCHANGED queue, NEW n \in Streams, NEW job,
         wk.pc \in HandlingPC, wk'.pc \in HandlingPC \cup {"ack", "drop"},
         wk'.stream = wk.stream, wk'.entry = wk.entry,
         wk.pc \in {"fail_waiting", "give_up_waiting"} => wk'.pc \in {"ack", "drop"}
  PROVE  /\ wk'.pc \in HandsPC /\ wk'.stream = n /\ JobId' = job =>
              wk'.entry \in Outstanding(n, job)
         /\ \A i \in EntriesOf(queue'[n], job) : Settling(n, i) => Settling(n, i)'
         /\ JobId' = JobId
<1>1. JobId' = JobId
  BY DEF JobId
<1>2. wk'.pc \in HandsPC /\ wk'.stream = n /\ JobId' = job => wk'.entry \in Outstanding(n, job)
  <2>1. ~Settling(n, wk.entry) \/ wk'.pc \in {"ack", "drop"}
    BY DEF Settling, HandlingPC
  <2>2. "ack" \notin HandsPC /\ "drop" \notin HandsPC
    BY DEF HandsPC
  <2> QED
    BY <1>1, <2>1, <2>2, OutstandingIs
<1>3. \A i \in EntriesOf(queue'[n], job) : Settling(n, i) => Settling(n, i)'
  BY DEF Settling, HandlingPC
<1> QED
  BY <1>1, <1>2, <1>3

\* A failure it has recorded leaves the job to nobody.
LEMMA SettledIsNowhere ==
  ASSUME Inv, UNCHANGED <<req, queue>>, NEW n \in Streams, NEW job, One(n, job),
         wk.pc \in HandsPC, wk'.pc \in {"ack", "drop", "fail_waiting", "give_up_waiting"},
         wk'.stream = wk.stream, wk'.entry = wk.entry, wk.stream = n, JobId = job
  PROVE  NoneOf(n, job)'
<1>0. wk.pc \in HandlingPC /\ wk'.pc \in HandlingPC \cup {"ack", "drop"}
      /\ wk.pc \notin {"fail_waiting", "give_up_waiting", "ack", "drop"}
      /\ wk'.pc \notin HandsPC
  BY DEF HandsPC, HandlingPC
<1>1. wk.entry \in Outstanding(n, job)
  BY <1>0, OutstandingIs DEF Settling
<1>2. /\ \A i \in Outstanding(n, job) : i = wk.entry
      /\ \A r \in Requests : ~Publishes(r, job)
  BY <1>1 DEF One, OneOf
<1>3. Outstanding(n, job)' \subseteq Outstanding(n, job)
  BY <1>0, StaysOutstanding, OutstandingShrinks
<1>4. wk.entry \notin Outstanding(n, job)'
  BY OutstandingIs DEF Settling
<1>5. Outstanding(n, job)' = {}
  BY <1>2, <1>3, <1>4
<1>6. ~Woken(job)' /\ \A r \in Requests : ~Publishes(r, job)'
  BY <1>2 DEF Woken, Publishes
<1> QED
  BY <1>5, <1>6 DEF NoneOf

\* It goes on with the entry it has; where that opens the row, it settles it.
LEMMA WorkerStaysOnce ==
  ASSUME Inv, UNCHANGED <<req, queue>>, NEW n \in Streams, NEW job \in JobsOf(n), One(n, job),
         wk.pc \in HandlingPC, wk'.pc \in HandlingPC \cup {"ack", "drop"},
         wk'.stream = wk.stream, wk'.entry = wk.entry,
         wk.pc \in {"fail_waiting", "give_up_waiting"} => wk'.pc \in {"ack", "drop"},
         Woken(job)' => Woken(job),
         \/ Open(n, job)' => Open(n, job)
         \/ /\ wk.stream = n /\ JobId = job /\ wk.pc \in HandsPC
            /\ wk'.pc \in {"ack", "drop", "fail_waiting", "give_up_waiting"}
  PROVE  One(n, job)'
<1>1. /\ wk'.pc \in HandsPC /\ wk'.stream = n /\ JobId' = job => wk'.entry \in Outstanding(n, job)
      /\ \A i \in EntriesOf(queue'[n], job) : Settling(n, i) => Settling(n, i)'
  BY StaysOutstanding
<1>2. Open(n, job)' => Open(n, job) \/ NoneOf(n, job)'
  BY SettledIsNowhere
<1> QED
  BY <1>1, <1>2, WorkerSpares

\* It works on its entry and records the outcome.
LEMMA HandlerOnce ==
  ASSUME Inv, LifeInv, NEW n \in Streams, NEW job \in JobsOf(n), One(n, job),
         \/ HandleAnalysis \/ HandleSong \/ RunCompletes \/ RunFails
         \/ FinishAnalysis \/ FinishSong \/ FailWaiting \/ GiveUp \/ GiveUpFault
         \/ PublishWoken /\ wk.wake = {}
         \/ ProcessFirst /\ ~wk.stopping
  PROVE  One(n, job)'
<1> USE DEF WorkerAt, Handling, unchangedAPI, unchangedTables
<1> DEFINE opens == Open(n, job)' => Open(n, job)
<1>0. /\ UNCHANGED <<req, queue>> /\ wk.pc \in HandlingPC /\ wk \in WorkerType
      /\ n = "analyses" => job \in Analyses
      /\ n # "analyses" => job \in Songs /\ n = "songs"
      /\ wk.stream = "analyses" \/ wk.stream = "songs"
  BY LifeFacts DEF HandleAnalysis, HandleSong, RunCompletes, RunFails, FinishAnalysis,
                   FinishSong, FailWaiting, GiveUp, GiveUpFault, PublishWoken, ProcessFirst,
                   HandlingPC, JobsOf, Streams
<1>1. ASSUME NEW pc \in HandlingPC \cup {"ack", "drop"}, Goes(pc),
             wk.pc \in {"fail_waiting", "give_up_waiting"} => pc \in {"ack", "drop"},
             pc = "publish" => wk.pc = "publish",
             \/ opens
             \/ /\ wk.stream = n /\ JobId = job /\ wk.pc \in HandsPC
                /\ pc \in {"ack", "drop", "fail_waiting", "give_up_waiting"}
      PROVE  One(n, job)'
  <2>1. wk'.pc = pc /\ wk'.stream = wk.stream /\ wk'.entry = wk.entry /\ wk'.wake = wk.wake
    BY <1>1, WorkerMove DEF Stays
  <2>2. Woken(job)' => Woken(job)
    BY <1>1, <2>1 DEF Woken
  <2> QED
    BY <1>0, <1>1, <2>1, <2>2, WorkerStaysOnce
<1>2. UNCHANGED <<status, prep>> => opens
  BY DEF Open
<1>3. CASE HandleAnalysis
  <2>1. wk.pc = "handle" /\ wk.stream = "analyses" /\ UNCHANGED prep
    BY <1>3 DEF HandleAnalysis
  <2>2. JobId \in Analyses /\ Published(JobId) /\ SongOf[JobId] \in cached
    BY <2>1, LifeFacts DEF EntryPC, WorkerPC
  <2>3. status[JobId] # "none"
    BY <2>2 DEF LifeInv, RowOK
  <2>4. \/ Goes("finish") /\ UNCHANGED status
        \/ Goes("run") /\ SetStatus({JobId}, "processing")
    BY <1>3, <2>2, <2>3 DEF HandleAnalysis
  <2>5. opens
    BY <1>0, <2>1, <2>4 DEF SetStatus, Open
  <2> QED
    BY <1>1, <2>1, <2>4, <2>5 DEF HandlingPC
<1>4. CASE HandleSong
  <2>1. wk.pc = "handle" /\ wk.stream = "songs" /\ UNCHANGED status
    BY <1>4 DEF HandleSong
  <2>2. JobId \in Songs /\ ~NeverPublished(JobId)
    BY <2>1, LifeFacts DEF EntryPC, WorkerPC
  <2>3. prep[JobId] # "none"
    BY <2>2 DEF Inv, SongOK
  <2>4. \/ Goes("finish") /\ UNCHANGED prep
        \/ Goes("run") /\ SetPrep(JobId, "processing")
    BY <1>4, <2>3 DEF HandleSong
  <2>5. opens
    BY <1>0, <2>1, <2>4 DEF SetPrep, Open
  <2> QED
    BY <1>1, <2>1, <2>4, <2>5 DEF HandlingPC
<1>5. CASE RunCompletes
  <2>1. Goes("finish") /\ wk.pc = "run" /\ UNCHANGED <<status, prep>>
    BY <1>5 DEF RunCompletes
  <2> QED
    BY <1>1, <1>2, <2>1 DEF HandlingPC
<1>6. CASE FinishAnalysis \/ FinishSong
  <2>1. \/ UNCHANGED prep /\ SetStatus({JobId}, "done") /\ Goes("ack")
        \/ UNCHANGED status /\ SetPrep(JobId, "ready") /\ Goes("wake")
    BY <1>6 DEF FinishAnalysis, FinishSong
  <2>2. opens
    BY <1>0, <2>1 DEF SetStatus, SetPrep, Open
  <2>3. wk.pc = "finish"
    BY <1>6 DEF FinishAnalysis, FinishSong
  <2> QED
    BY <1>1, <2>1, <2>2, <2>3 DEF HandlingPC
<1>7. CASE RunFails \/ GiveUp
  <2>1. \/ wk.stream = "analyses" /\ UNCHANGED prep /\ SetStatus({JobId}, "failed")
        \/ wk.stream = "songs" /\ UNCHANGED status /\ SetPrep(JobId, "failed")
    BY <1>0, <1>7 DEF RunFails, GiveUp
  <2>2. PICK pc \in {"ack", "drop", "fail_waiting", "give_up_waiting"} : Goes(pc)
    BY <1>7 DEF RunFails, GiveUp
  <2>3. wk.pc \in {"run", "give_up"}
    BY <1>7 DEF RunFails, GiveUp
  <2>4. opens \/ (wk.stream = n /\ JobId = job)
    BY <1>0, <2>1 DEF SetStatus, SetPrep, Open
  <2> QED
    BY <1>1, <2>2, <2>3, <2>4 DEF HandlingPC, HandsPC
<1>8. CASE FailWaiting
  <2> DEFINE failed == WaitingFor(JobId)
  <2>0. PICK pc \in {"ack", "drop"} : Goes(pc)
    BY <1>8 DEF FailWaiting
  <2>1. SetStatus(failed, "failed") /\ UNCHANGED prep /\ Goes(pc)
    BY <1>8, <2>0 DEF FailWaiting
  <2>2. \A a \in failed : status[a] = "waiting_for_reference"
    BY DEF WaitingFor
  <2> HIDE DEF failed
  <2>3. opens
    BY <1>0, <2>1, <2>2 DEF SetStatus, Open
  <2> QED
    BY <1>1, <2>1, <2>3
<1>9. CASE GiveUpFault \/ (PublishWoken /\ wk.wake = {})
  <2>1. (Goes("ack") \/ Goes("drop")) /\ UNCHANGED <<status, prep>>
    BY <1>9 DEF GiveUpFault, PublishWoken
  <2> QED
    BY <1>1, <1>2, <2>1
<1>10. CASE ProcessFirst /\ ~wk.stopping
  <2>1. Goes("handle") /\ wk.pc = "delivered" /\ UNCHANGED <<status, prep>>
    BY <1>10 DEF ProcessFirst
  <2> QED
    BY <1>1, <1>2, <2>1 DEF HandlingPC
<1> QED
  BY <1>3, <1>4, <1>5, <1>6, <1>7, <1>8, <1>9, <1>10

\* A wake-up finds the analyses with nobody, and each is published once.
LEMMA WakeOnce ==
  ASSUME Inv, LifeInv, NEW n \in Streams, NEW job \in JobsOf(n), One(n, job), Wake
  PROVE  One(n, job)'
<1> DEFINE woken == WaitingFor(JobId)
<1>0. /\ UNCHANGED <<req, queue, prep>> /\ wk.pc = "wake" /\ wk \in WorkerType
      /\ SetStatus(woken, "queued")
      /\ wk' = [wk EXCEPT !.pc = "publish", !.wake = woken]
      /\ n = "analyses" => job \in Analyses
      /\ n # "analyses" => job \in Songs
      /\ \A a \in Analyses : a \notin Songs
  BY LifeFacts DEF Wake, WorkerAt, unchangedAPI, JobsOf
<1>1. /\ woken \subseteq Analyses
      /\ \A a \in woken : status[a] = "waiting_for_reference"
  BY DEF WaitingFor
<1> HIDE DEF woken
<1>2. wk'.pc = "publish" /\ wk'.wake = woken /\ wk'.stream = wk.stream /\ wk'.entry = wk.entry
  BY <1>0 DEF WorkerType
<1>3. CASE job \notin woken
  <2>1. Open(n, job)' => Open(n, job)
    BY <1>0, <1>3 DEF Open, SetStatus
  <2>2. ~Woken(job)'
    BY <1>2, <1>3 DEF Woken
  <2> QED
    BY <1>0, <1>2, <2>1, <2>2, WorkerStaysOnce DEF HandlingPC
<1>4. CASE job \in woken
  <2>1. n = "analyses" /\ Open(n, job)
    BY <1>0, <1>1, <1>4 DEF Open
  <2>2. NoneOf(n, job)
    BY <2>1 DEF One
  <2>3. Outstanding(n, job)' = {}
    <3>1. Outstanding(n, job)' \subseteq Outstanding(n, job)
      BY <1>0, <1>2, StaysOutstanding, OutstandingShrinks DEF HandlingPC
    <3> QED
      BY <2>2, <3>1 DEF NoneOf
  <2>4. \A r \in Requests : ~Publishes(r, job)'
    BY <1>0, <2>2 DEF NoneOf, Publishes
  <2>5. ~Open(n, job)'
    BY <1>0, <1>1, <1>4, <2>1 DEF Open, SetStatus
  <2> QED
    BY <2>3, <2>4, <2>5 DEF One, OneOf
<1> QED
  BY <1>3, <1>4

LEMMA PublishOnce ==
  ASSUME Inv, LifeInv, NEW n \in Streams, NEW job \in JobsOf(n), One(n, job),
         PublishWoken, wk.wake # {}
  PROVE  One(n, job)'
<1>0. /\ UNCHANGED <<req, status, prep>> /\ wk.pc = "publish" /\ wk \in WorkerType
      /\ wk.stream = "songs"
      /\ n = "analyses" => job \in Analyses
      /\ n # "analyses" => job \in Songs /\ n = "songs"
      /\ \A a \in Analyses : a \notin Songs
      /\ "analyses" \in Streams
  BY LifeFacts DEF PublishWoken, WorkerAt, unchangedAPI, unchangedTables, JobsOf, Streams,
                   Inv, WorkerOK
<1>1. PICK a \in wk.wake : /\ queue' = [queue EXCEPT !["analyses"] = XAdd(@, a)]
                           /\ wk' = [wk EXCEPT !.wake = @ \ {a}]
  BY DEF PublishWoken
<1> DEFINE left == wk.wake \ {a}
<1>2. wk' = [wk EXCEPT !.wake = left] /\ a \in Analyses /\ a \in JobsOf("analyses")
  BY <1>0, <1>1 DEF WorkerType, JobsOf
<1> HIDE DEF left
<1>3. wk'.wake = left /\ wk'.pc = wk.pc /\ wk'.stream = wk.stream /\ wk'.entry = wk.entry
  BY <1>0, <1>2 DEF WorkerType
<1> DEFINE new == Len(queue["analyses"].log) + 1
<1>4. /\ \A m \in Streams \ {"analyses"} : queue'[m] = queue[m]
      /\ EntriesOf(queue'["analyses"], a) = EntriesOf(queue["analyses"], a) \cup {new}
      /\ \A b : b # a => EntriesOf(queue'["analyses"], b) = EntriesOf(queue["analyses"], b)
  BY <1>0, <1>1, <1>2, EntriesAdded
<1> HIDE DEF new
<1>5. \A i : Settling(n, i) <=> Settling(n, i)'
  BY <1>3 DEF Settling
<1>6. Open(n, job)' <=> Open(n, job)
  BY <1>0 DEF Open
<1>7. CASE job # a
  <2>1. EntriesOf(queue'[n], job) = EntriesOf(queue[n], job)
    BY <1>4, <1>7
  <2>2. JobId' = JobId
    BY <1>0, <1>1, <1>2, <1>3, NewEntry DEF JobId, JobAt, EntryPC, WorkerPC
  <2>3. wk'.pc \in HandsPC /\ wk'.stream = n /\ JobId' = job => wk'.entry \in Outstanding(n, job)
    BY <1>0, <1>3, <2>2, OutstandingIs DEF HandlingPC, Settling
  <2>4. Woken(job)' => Woken(job)
    BY <1>3 DEF Woken, left
  <2> QED
    BY <1>0, <1>5, <1>6, <2>1, <2>3, <2>4, WorkerSpares
<1>8. CASE job = a
  <2>1. n = "analyses" /\ Woken(job)
    BY <1>0, <1>2, <1>8 DEF Woken
  <2>2. /\ Outstanding(n, job) = {} /\ ~Open(n, job)
        /\ \A r \in Requests : ~Publishes(r, job)
    BY <2>1 DEF One, OneOf, NoneOf
  <2>3. Outstanding(n, job)' \subseteq {new}
    <3> SUFFICES ASSUME NEW i, i \in Outstanding(n, job)' PROVE i = new
      OBVIOUS
    <3>1. ~Settling(n, i) /\ i \in EntriesOf(queue'[n], job)
      BY <1>0, <1>3, <1>5, <2>1, OutstandingIs
    <3>2. i \notin EntriesOf(queue[n], job)
      BY <2>2, <3>1, OutstandingIs
    <3> QED
      BY <1>4, <1>8, <2>1, <3>1, <3>2
  <2>4. ~Woken(job)'
    BY <1>3, <1>8 DEF Woken, left
  <2>5. \A r \in Requests : ~Publishes(r, job)'
    BY <1>0, <2>2 DEF Publishes
  <2> QED
    BY <1>6, <2>2, <2>3, <2>4, <2>5, OneEntered
<1> QED
  BY <1>7, <1>8
-----------------------------------------------------------------------------
\* What a worker takes up can be recovered: nobody else will be handed it.
LEMMA TakesRecoverable ==
  ASSUME Inv, LifeInv, Start \/ ReclaimNext \/ ReclaimEntry \/ TickAnalyses \/ TickSongs
  PROVE  /\ wk'.pc # "publish"
         /\ wk'.pc \in HandsPC => wk'.entry \in Recoverable(queue[wk'.stream])
<1> USE DEF WorkerAt
<1>0. /\ wk \in WorkerType /\ wk.stream \in Streams
      /\ "analyses" \in Streams /\ "songs" \in Streams
      /\ \A n \in Streams : WellFormed(queue[n], JobsOf(n))
  BY WorkerFacts
<1>1. CASE Start
  <2>1. wk'.pc = "reclaim"
    BY <1>1 DEF Start, Down
  <2> QED
    BY <2>1 DEF HandsPC
<1>2. CASE ReclaimNext
  <2>1. wk'.pc \in {"reclaim", "loop"}
    BY <1>0, <1>2 DEF ReclaimNext, WorkerType
  <2> QED
    BY <2>1 DEF HandsPC
<1>3. CASE ReclaimEntry
  <2>1. PICK i \in wk.todo :
          \/ wk' = [wk EXCEPT !.entry = i, !.pc = IF i \in queue[wk.stream].live
                                                  THEN "give_up" ELSE "drop"]
          \/ i \in queue[wk.stream].live /\ wk' = [wk EXCEPT !.entry = i, !.pc = "handle"]
          \/ wk' = [wk EXCEPT !.todo = @ \ {i}]
    BY <1>3 DEF ReclaimEntry
  <2>2. wk.pc = "reclaim" /\ i \in queue[wk.stream].pel
    <3>1. wk.pc = "reclaim" /\ wk.phase # "main"
      BY <1>3 DEF ReclaimEntry, Inv, WorkerOK
    <3> QED
      BY <3>1 DEF Inv, WorkerOK
  <2>3. ASSUME NEW pc, pc \in {"give_up", "handle"} => i \in queue[wk.stream].live,
               pc \in {"give_up", "handle", "drop"}, wk' = [wk EXCEPT !.entry = i, !.pc = pc]
        PROVE  wk'.pc # "publish" /\ (wk'.pc \in HandsPC => wk'.entry \in Recoverable(queue[wk'.stream]))
    <3>1. wk'.pc = pc /\ wk'.entry = i /\ wk'.stream = wk.stream
      BY <1>0, <2>3 DEF WorkerType
    <3> QED
      BY <2>2, <2>3, <3>1 DEF HandsPC, Recoverable
  <2>4. CASE wk' = [wk EXCEPT !.todo = @ \ {i}]
    <3> DEFINE rest == wk.todo \ {i}
    <3>1. wk' = [wk EXCEPT !.todo = rest]
      BY <2>4
    <3>2. wk'.pc = wk.pc
      <4> HIDE DEF rest
      <4> QED
        BY <1>0, <3>1 DEF WorkerType
    <3> QED
      BY <2>2, <3>2 DEF HandsPC
  <2> DEFINE given == IF i \in queue[wk.stream].live THEN "give_up" ELSE "drop"
  <2>5. CASE wk' = [wk EXCEPT !.entry = i, !.pc = given]
    <3>1. given \in {"give_up", "handle", "drop"}
          /\ (given \in {"give_up", "handle"} => i \in queue[wk.stream].live)
      OBVIOUS
    <3> HIDE DEF given
    <3> QED
      BY <2>3, <2>5, <3>1
  <2>6. CASE i \in queue[wk.stream].live /\ wk' = [wk EXCEPT !.entry = i, !.pc = "handle"]
    BY <2>3, <2>6
  <2> QED
    BY <2>1, <2>4, <2>5, <2>6
<1>4. CASE TickAnalyses
  <2>1. PICK i \in Undelivered(queue["analyses"]) :
          wk' = [wk EXCEPT !.pc = "delivered", !.stream = "analyses", !.entry = i]
    BY <1>4 DEF TickAnalyses
  <2>2. wk'.pc = "delivered" /\ wk'.stream = "analyses" /\ wk'.entry = i
    BY <1>0, <2>1 DEF WorkerType
  <2> QED
    BY <2>1, <2>2 DEF Undelivered, Recoverable
<1>5. CASE TickSongs
  <2> DEFINE q == queue["songs"]
  <2> DEFINE p == ClaimNewEntries(q)
  <2>1. \E i \in p.own \cap p.live :
          wk' = [wk EXCEPT !.pc = "handle", !.stream = "songs", !.entry = i]
    <3> HIDE DEF p
    <3>1. PriorityPrep(p) \/ NextPrep(p)
      BY <1>5 DEF TickSongs, p
    <3> QED
      BY <3>1 DEF PriorityPrep, NextPrep, PriorityEntries
  <2>2. PICK i \in p.own \cap p.live :
          wk' = [wk EXCEPT !.pc = "handle", !.stream = "songs", !.entry = i]
    BY <2>1
  <2>3. wk'.pc = "handle" /\ wk'.stream = "songs" /\ wk'.entry = i
    BY <1>0, <2>2 DEF WorkerType
  <2>4. i \in q.live /\ (i \in q.own \/ i \in Undelivered(q))
    BY <2>2 DEF ClaimNewEntries, XReadGroup
  <2>5. q.own \subseteq q.pel
    BY <1>0 DEF WellFormed
  <2> QED
    BY <2>3, <2>4, <2>5 DEF Undelivered, Recoverable
<1> QED
  BY <1>1, <1>2, <1>3, <1>4, <1>5

LEMMA TakesOnce ==
  ASSUME Inv, LifeInv, NEW n \in Streams, NEW job \in JobsOf(n), One(n, job),
         Start \/ ReclaimNext \/ ReclaimEntry \/ TickAnalyses \/ TickSongs
  PROVE  One(n, job)'
<1> USE DEF WorkerAt, unchangedAPI, unchangedTables
<1>0. UNCHANGED <<req, status, prep>> /\ wk.pc \in IdlePC
  BY DEF Start, ReclaimNext, ReclaimEntry, TickAnalyses, TickSongs, IdlePC
<1>1. SameViews
  BY <1>0, WorkerViews DEF WorkerStep, Ack, Del, PublishWoken, IdlePC
<1>2. EntriesOf(queue'[n], job) = EntriesOf(queue[n], job) /\ SameJobs(queue'[n], queue[n])
  BY <1>1, SameViewEntries
<1>3. \A i : ~Settling(n, i)
  BY <1>0 DEF IdlePC, Settling
<1>4. ASSUME wk'.pc \in HandsPC, wk'.stream = n, JobId' = job
      PROVE  wk'.entry \in Outstanding(n, job)
  <2>1. PICK i : i = wk'.entry
    OBVIOUS
  <2>2. i \in Recoverable(queue[n])
    BY <1>4, <2>1, TakesRecoverable
  <2>3. i \in 1 .. Len(queue[n].log)
    BY <2>2, WorkerFacts, RecoverableLogged
  <2>4. JobAt(queue[n], i) = JobAt(queue'[n], i)
    BY <1>2, <2>3 DEF SameJobs
  <2>5. JobAt(queue'[n], i) = job
    BY <1>4, <2>1 DEF JobId
  <2>6. i \in EntriesOf(queue[n], job)
    BY <2>2, <2>4, <2>5 DEF EntriesOf
  <2> QED
    BY <1>3, <2>1, <2>6, OutstandingIs
<1>5. ~Woken(job)'
  BY TakesRecoverable DEF Woken
<1>6. Open(n, job)' => Open(n, job)
  BY <1>0 DEF Open
<1> QED
  BY <1>0, <1>2, <1>3, <1>4, <1>5, <1>6, WorkerSpares

\* It lets go of its entry, which stays pending, or is told to stop.
LEMMA RestOnce ==
  ASSUME Inv, LifeInv, NEW n \in Streams, NEW job \in JobsOf(n), One(n, job),
         (ProcessFirst /\ wk.stopping) \/ RunInterrupted \/ Exit \/ RequestStop
  PROVE  One(n, job)'
<1> USE DEF WorkerAt, unchangedAPI, unchangedTables
<1>0. UNCHANGED <<req, status, prep, queue>> /\ wk \in WorkerType
  BY LifeFacts DEF ProcessFirst, RunInterrupted, Exit, RequestStop
<1>1. Open(n, job)' => Open(n, job)
  BY <1>0 DEF Open
<1>2. CASE RequestStop
  <2>1. wk'.pc = wk.pc /\ wk'.stream = wk.stream /\ wk'.entry = wk.entry /\ wk'.wake = wk.wake
    BY <1>0, <1>2 DEF RequestStop, WorkerType
  <2>2. JobId' = JobId /\ \A i : Settling(n, i)' <=> Settling(n, i)
    BY <1>0, <2>1 DEF JobId, Settling
  <2>3. wk'.pc \in HandsPC /\ wk'.stream = n /\ JobId' = job => wk'.entry \in Outstanding(n, job)
    BY <2>1, <2>2, OutstandingIs DEF HandsPC, HandlingPC, Settling
  <2>4. Woken(job)' => Woken(job)
    BY <2>1 DEF Woken
  <2> QED
    BY <1>0, <1>1, <2>2, <2>3, <2>4, WorkerSpares
<1>3. CASE (ProcessFirst /\ wk.stopping) \/ RunInterrupted \/ Exit
  <2>1. wk'.pc \in IdlePC /\ wk.pc \in {"delivered", "run", "loop"}
    BY <1>3, WorkerMove DEF ProcessFirst, RunInterrupted, Exit, Down, Stays, IdlePC
  <2>2. wk'.pc \notin HandsPC /\ ~Woken(job)' /\ \A i : ~Settling(n, i)
    BY <2>1 DEF IdlePC, HandsPC, Woken, Settling
  <2> QED
    BY <1>0, <1>1, <2>2, WorkerSpares
<1> QED
  BY <1>2, <1>3

\* The entry it has settled goes, and with it what excused it.
LEMMA AckOnce ==
  ASSUME Inv, LifeInv, NEW n \in Streams, NEW job \in JobsOf(n), One(n, job), Ack \/ Del
  PROVE  One(n, job)'
<1> USE DEF WorkerAt, unchangedAPI, unchangedTables
<1>0. UNCHANGED <<req, status, prep>> /\ wk.stream \in Streams
  BY LifeFacts DEF Ack, Del
<1>1. Open(n, job)' => Open(n, job)
  BY <1>0 DEF Open
<1>2. /\ \A m \in Streams : SameJobs(queue'[m], queue[m])
      /\ \A m \in Streams \ {wk.stream} : queue'[m] = queue[m]
      /\ Ack => Recoverable(queue'[wk.stream]) = Recoverable(queue[wk.stream]) \ {wk.entry}
      /\ Del => Recoverable(queue'[wk.stream]) = Recoverable(queue[wk.stream])
  BY AckDelViews
<1>3. CASE Ack
  <2>1. wk.pc \in {"ack", "drop"} /\ wk'.pc = "del"
    BY <1>3, WorkerMove DEF Ack, Stays
  <2>2. EntriesOf(queue'[wk.stream], job) = EntriesOf(queue[wk.stream], job) \ {wk.entry}
    BY <1>0, <1>2, <1>3, EntriesKept
  <2>3. \A i \in EntriesOf(queue'[n], job) : ~Settling(n, i)
    BY <2>2 DEF Settling
  <2>4. wk'.pc \notin HandsPC /\ ~Woken(job)'
    BY <2>1 DEF HandsPC, Woken
  <2>5. EntriesOf(queue'[n], job) \subseteq EntriesOf(queue[n], job)
    BY <1>2, <2>2
  <2> QED
    BY <1>0, <1>1, <2>3, <2>4, <2>5, WorkerSpares
<1>4. CASE Del
  <2>1. wk.pc = "del" /\ wk'.pc \in IdlePC
    BY <1>4, WorkerMove DEF Del, IdlePC
  <2>2. EntriesOf(queue'[n], job) \subseteq EntriesOf(queue[n], job)
    <3> DEFINE none == {}
    <3>1. Recoverable(queue'[wk.stream]) = Recoverable(queue[wk.stream]) \ none
      BY <1>2, <1>4
    <3>2. EntriesOf(queue'[wk.stream], job) = EntriesOf(queue[wk.stream], job) \ none
      <4> HIDE DEF none
      <4> QED
        BY <1>0, <1>2, <3>1, EntriesKept
    <3> QED
      BY <1>2, <3>2
  <2>3. wk'.pc \notin HandsPC /\ ~Woken(job)' /\ \A i : ~Settling(n, i)
    BY <2>1 DEF IdlePC, HandsPC, Woken, Settling
  <2> QED
    BY <1>0, <1>1, <2>2, <2>3, WorkerSpares
<1> QED
  BY <1>3, <1>4

LEMMA OnceStep ==
  ASSUME Inv, LifeInv, RecordedIsAcked, [Next]_vars,
         NEW n \in Streams, NEW job \in JobsOf(n), One(n, job)
  PROVE  One(n, job)'
<1>1. ~Crash /\ ~HandlerFault
  BY DEF RecordedIsAcked, Crash, HandlerFault, Fault
<1>2. ASSUME NEW r \in Requests, RequestStep(r) \/ ApiFault(r) PROVE One(n, job)'
  BY <1>2, RequestOnce, ApiFaultOnce
<1>3. CASE WorkerStep \/ WorkerFault
  BY <1>1, <1>3, HandlerOnce, WakeOnce, PublishOnce, TakesOnce, RestOnce, AckOnce
     DEF WorkerStep, WorkerFault
<1>4. CASE UNCHANGED vars
  BY <1>4 DEF vars, One, OneOf, NoneOf, Open, Outstanding, Publishes, Woken, Settling, JobId
<1> QED
  BY <1>2, <1>3, <1>4 DEF Next

LEMMA OnceInit ==
  ASSUME Init, NEW n \in Streams, NEW job
  PROVE  One(n, job)
<1>1. EntriesOf(queue[n], job) = {}
  BY DEF Init, EntriesOf, Recoverable, EmptyStream
<1>2. wk.pc = "down" /\ \A r \in Requests : req[r].pc = "idle"
  BY DEF Init, Down, Idle
<1>3. Outstanding(n, job) = {} /\ ~Woken(job) /\ \A r \in Requests : ~Publishes(r, job)
  BY <1>1, <1>2 DEF Outstanding, Woken, Publishes, HandlingPC, PublisherPC
<1> QED
  BY <1>3 DEF One, OneOf, NoneOf

\* Entries that are all the same are at most one.
LEMMA OnceIsEnough ==
  ASSUME NEW n, NEW job, One(n, job)
  PROVE  Cardinality({i \in EntriesOf(queue[n], job) : ~Settling(n, i)}) <= 1
<1> DEFINE S == {i \in EntriesOf(queue[n], job) : ~Settling(n, i)}
<1>1. \A i, j \in S : i = j
  BY DEF One, OneOf, Outstanding
<1> HIDE DEF S
<1>2. ASSUME S = {} PROVE Cardinality(S) <= 1
  <2>1. Cardinality({}) = 0
    BY FS_EmptySet
  <2>2. Cardinality(S) = 0
    BY <1>2, <2>1, Zenon
  <2> QED
    BY <2>2
<1>3. ASSUME S # {} PROVE Cardinality(S) <= 1
  <2>1. PICK i : S = {i}
    BY <1>1, <1>3
  <2>2. Cardinality({i}) = 1
    BY FS_Singleton
  <2>3. Cardinality(S) = 1
    BY <2>1, <2>2, Zenon
  <2> QED
    BY <2>3
<1>4. Cardinality(S) <= 1
  BY <1>2, <1>3
<1> QED
  BY <1>4 DEF S

(***************************************************************************)
(* As long as the worker does not die, nor a handler raise, between the    *)
(* outcome on the row and its acknowledgement, a job has at most one entry *)
(* in circulation: Enqueue, RetryAnalysis and the two song requests        *)
(* publish a row they alone took out of a status that lets a job in, and   *)
(* wake_waiting_for_reference only what nobody else holds.                 *)
(***************************************************************************)
THEOREM NoJobIsDoubled == RecordedIsAcked => (Spec => []OneEntryPerJob)
<1> SUFFICES ASSUME RecordedIsAcked PROVE Spec => []OneEntryPerJob
  OBVIOUS
<1> DEFINE K == (\A a \in Analyses : One("analyses", a)) /\ (\A s \in Songs : One("songs", s))
<1>0. /\ Streams = {"analyses", "songs"}
      /\ JobsOf("analyses") = Analyses /\ JobsOf("songs") = Songs
  BY DEF Streams, JobsOf
<1>1. Init => Inv /\ LifeInv /\ K
  BY <1>0, InitOK, LifeInit, OnceInit
<1>2. Inv /\ LifeInv /\ K /\ [Next]_vars => K'
  BY <1>0, OnceStep
<1>3. K => OneEntryPerJob
  BY <1>0, OnceIsEnough DEF OneEntryPerJob
<1> HIDE DEF K
<1> QED
  BY <1>1, <1>2, <1>3, InvAlways, LifeInvAlways, PTL DEF Spec
=============================================================================
