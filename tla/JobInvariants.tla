---------------------------- MODULE JobInvariants ----------------------------
(***************************************************************************)
(* What holds of every reachable state of JobSystem besides Inv, so that   *)
(* the properties about lost and doubled jobs, caps, restarts and finished *)
(* analyses follow by induction.  LifeInv holds whatever fails; the        *)
(* others hold under the choice of faults and operations named with them.  *)
(***************************************************************************)
EXTENDS JobSystem

\* The entry i of analyses:run names the analysis a.
IsEntry(i, a) ==
  i \in 1 .. Len(queue["analyses"].log) /\ JobAt(queue["analyses"], i) = a

Published(a) == \E i \in 1 .. Len(queue["analyses"].log) : JobAt(queue["analyses"], i) = a

NewRowPC == {"precheck", "create", "create_waiting", "admit", "rollback"}
RetryPC == {"retry_precheck", "retry_update", "retry_add", "retry_waiting"}

\* Until Enqueue has published or given up, nobody else knows its row.
EnqueueOK ==
  \A r \in Requests : req[r].pc \in NewRowPC =>
    /\ req[r].job \notin known
    /\ ~Published(req[r].job)
    /\ req[r].pc \in {"admit", "rollback"} => status[req[r].job] = "queued"
    /\ req[r].pc \notin {"admit", "rollback"} => status[req[r].job] = "none"
    /\ \A t \in Requests : req[t].pc # "idle" /\ req[t].job = req[r].job => t = r

\* A retry is of a row a client was told of, which it does not lose on the way.
RetryOK ==
  \A r \in Requests :
    /\ req[r].pc \in RetryPC => req[r].job \in known
    /\ req[r].pc = "retry_add" => status[req[r].job] # "none"

\* The entry ids the API passes around are of entries of the same analysis.
EntryIdOK ==
  /\ \A r \in Requests :
       /\ req[r].pc \in {"set_id", "remove_entry"} => IsEntry(req[r].id, req[r].job)
       /\ req[r].pc = "remove_entry" => "cancel" \in Operations
  /\ \A a \in Analyses : streamId[a] # 0 => IsEntry(streamId[a], a)

\* What the status of a row says about its history.
RowOK ==
  \A a \in Analyses :
    /\ Published(a) => status[a] # "none"
    /\ status[a] = "waiting_for_reference" => a \in known
    /\ status[a] \in {"processing", "done"} => Published(a)
    /\ status[a] = "done" => a \in complete

\* The same of the rows the worker has in its hands.
RunOK ==
  /\ wk.pc = "run" /\ wk.stream = "analyses" => status[JobId] = "processing"
  /\ wk.pc = "finish" => JobId \in complete
  /\ wk.pc = "publish" => \A a \in wk.wake : a \in known /\ status[a] # "none"

HandlingPC == {"delivered", "handle", "run", "finish", "wake", "publish",
               "fail_waiting", "give_up", "give_up_waiting"}

\* The worker's entry stays pending until it is acknowledged, and is only
\* deleted under its hands by a cancel.
HandOK ==
  /\ wk.pc \in HandlingPC \cup {"ack", "drop"} => wk.entry \in queue[wk.stream].pel
  /\ wk.pc = "del" => /\ wk.entry \notin queue[wk.stream].pel
                      /\ wk.entry <= queue[wk.stream].last
  /\ wk.pc \in HandlingPC /\ (wk.stream = "songs" \/ "cancel" \notin Operations) =>
       wk.entry \in queue[wk.stream].live
  /\ wk.stopping => "stop" \in Faults

\* A song prepared before the start stays so; nobody waits for it.
PreparedOK ==
  /\ \A s \in PreparedAtStart : prep[s] = "ready" /\ NeverPublished(s)
  /\ \A a \in Analyses : status[a] = "waiting_for_reference" => SongOf[a] \notin PreparedAtStart
  /\ \A r \in Requests :
       req[r].pc \in {"create_waiting", "retry_waiting"} =>
         SongOf[req[r].job] \notin PreparedAtStart
  /\ wk.pc = "publish" => \A a \in wk.wake : SongOf[a] \notin PreparedAtStart

LifeInv ==
  EnqueueOK /\ RetryOK /\ EntryIdOK /\ RowOK /\ RunOK /\ HandOK /\ PreparedOK
-----------------------------------------------------------------------------
(***************************************************************************)
(* A job is held by an entry nobody is about to remove, by the worker      *)
(* before the outcome is on the row, or by whoever publishes it next.      *)
(* Without failing requests and give-ups every promise is held; analyses   *)
(* besides need that nothing is canceled where something fails, and that   *)
(* no wake-up is cut short.                                                *)
(***************************************************************************)
WorkingPC == {"delivered", "handle", "run", "finish", "give_up"}
SettledPC == {"wake", "publish", "fail_waiting", "give_up_waiting", "ack", "drop", "del"}

\* The entries somebody is about to remove.
Doomed(n) ==
  {i \in {wk.entry} : wk.pc \in SettledPC /\ wk.stream = n}
    \cup {req[r].id : r \in {t \in Requests : req[t].pc = "remove_entry" /\ n = "analyses"}}

Held(n, job) ==
  \/ \E i \in EntriesOf(queue[n], job) : i \notin Doomed(n)
  \/ wk.pc \in WorkingPC /\ wk.stream = n /\ JobId = job
  \/ BeingPublished(job)

PrepHeld ==
  \A s \in Songs : prep[s] \in {"pending", "processing"} => Held("songs", s)

JobHeld ==
  \A a \in Analyses : status[a] \in {"queued", "processing"} => Held("analyses", a)

NoGap == Faults \cap {"api", "give_up"} = {}

CancelIsSafe == "cancel" \in Operations => Faults = {}

WakeIsWhole ==
  \/ Faults \cap {"crash", "handler"} = {}
  \/ \A a \in Analyses : SongOf[a] \in PreparedAtStart
-----------------------------------------------------------------------------
(***************************************************************************)
(* At most one entry or publisher has the job, and none while the row is   *)
(* in a status that lets a new one come.                                   *)
(***************************************************************************)
Outstanding(n, job) ==
  {i \in EntriesOf(queue[n], job) : ~Settling(n, i)}
    \cup {i \in {wk.entry} : wk.pc \in HandlingPC /\ ~Settling(n, i)
                               /\ wk.stream = n /\ JobId = job}

PublisherPC == {"admit", "rollback", "retry_add", "prep_admit", "prep_rollback", "prep_add"}

Publishes(r, job) == req[r].pc \in PublisherPC /\ req[r].job = job

Woken(job) == wk.pc = "publish" /\ job \in wk.wake

OneOf(n, job) ==
  /\ \A i, j \in Outstanding(n, job) : i = j
  /\ \A r, t \in Requests : Publishes(r, job) /\ Publishes(t, job) => r = t
  /\ \A r \in Requests : Publishes(r, job) => Outstanding(n, job) = {} /\ ~Woken(job)
  /\ Woken(job) => Outstanding(n, job) = {}

NoneOf(n, job) ==
  Outstanding(n, job) = {} /\ ~Woken(job) /\ \A r \in Requests : ~Publishes(r, job)

OneInv ==
  /\ \A a \in Analyses :
       /\ OneOf("analyses", a)
       /\ status[a] \in {"none", "waiting_for_reference", "failed"} => NoneOf("analyses", a)
  /\ \A s \in Songs :
       /\ OneOf("songs", s)
       /\ prep[s] \in {"none", "failed"} => NoneOf("songs", s)

RecordedIsAcked == Faults \cap {"crash", "handler"} = {}
-----------------------------------------------------------------------------
(***************************************************************************)
(* A retry that looked at the length has its entry's room counted; the     *)
(* last to look saw one place free.                                        *)
(***************************************************************************)
Retrying(pcs) == {r \in Requests : req[r].pc \in pcs}

PrepCap ==
  XLen(queue["songs"]) + Cardinality(Retrying({"prep_reset", "prep_add"}))
    <= SongsPrepMaxLen + Overshoot

AnalysesCap ==
  XLen(queue["analyses"]) + Cardinality(Retrying({"retry_update", "retry_add"}))
    <= QUEUE_MAX_LENGTH + Overshoot

NothingToWake == \A a \in Analyses : SongOf[a] \in PreparedAtStart
-----------------------------------------------------------------------------
(***************************************************************************)
(* What is pending on analyses:run: what the sweep has before it, then     *)
(* only the entry in the worker's hands.                                   *)
(***************************************************************************)
ReclaimInv ==
  /\ wk.phase # "main" => wk.stream = wk.phase
  /\ wk.phase = "analyses" /\ wk.pc # "down" => queue["analyses"].pel \subseteq wk.todo
  /\ wk.phase = "songs" => queue["analyses"].pel = {}
  /\ wk.phase = "main" /\ wk.pc # "down" /\ ~wk.stopping =>
       queue["analyses"].pel \subseteq
         {i \in {wk.entry} : wk.pc \in HandlingPC \cup {"ack", "drop"} /\ wk.stream = "analyses"}

SweepsAll == RestartsAreSlow /\ "handler" \notin Faults
-----------------------------------------------------------------------------
(***************************************************************************)
(* All of it, each part under its condition.                               *)
(***************************************************************************)
OrderInv ==
  /\ LifeInv
  /\ NoGap => PrepHeld
  /\ NoGap /\ CancelIsSafe /\ WakeIsWhole => JobHeld
  /\ RecordedIsAcked => OneInv
  /\ PrepCap
  /\ NothingToWake => AnalysesCap
  /\ SweepsAll => ReclaimInv
=============================================================================
