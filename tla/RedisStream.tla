----------------------------- MODULE RedisStream -----------------------------
(***************************************************************************)
(* One Redis stream with its single consumer group, as the producer (Go)   *)
(* and the consumer (Python) use it.  Redis itself is outside the          *)
(* repository: these operators say what its commands do to the part of a   *)
(* stream the two programs can observe.                                    *)
(*                                                                         *)
(*   log     every entry ever added, in id order: an entry's id is its     *)
(*           place in the log, so ids grow and are never reused; `times'   *)
(*           is XPENDING's delivery counter                                *)
(*   live    ids XDEL has not removed: what XLEN counts                    *)
(*   last    the group's last-delivered id: the cursor behind ">"          *)
(*   pel     the group's pending-entries list: delivered, not acknowledged *)
(*   own     the part of pel held under the running worker's consumer name *)
(***************************************************************************)
EXTENDS Integers, Sequences, FiniteSets

\* Streams whose entries carry a job_id from the set Job.
StreamType(Job) ==
  [log  : Seq([job : Job, times : Nat]),
   live : SUBSET Nat,
   last : Nat,
   pel  : SUBSET Nat,
   own  : SUBSET Nat]

EmptyStream ==
  [log |-> <<>>, live |-> {}, last |-> 0, pel |-> {}, own |-> {}]

\* A stream value the two programs can bring about: only logged entries are
\* live, only delivered ones pending.
WellFormed(q, Job) ==
  /\ q \in StreamType(Job)
  /\ q.last <= Len(q.log)
  /\ q.live \subseteq 1 .. Len(q.log)
  /\ q.pel \subseteq 1 .. q.last
  /\ q.own \subseteq q.pel
-----------------------------------------------------------------------------
XLen(q) == Cardinality(q.live)

XAdd(q, job) ==
  [log  |-> Append(q.log, [job |-> job, times |-> 0]),
   live |-> q.live \cup {Len(q.log) + 1},
   last |-> q.last, pel |-> q.pel, own |-> q.own]

\* Entries XREADGROUP ">" has still to deliver.
Undelivered(q) == {i \in q.live : i > q.last}

IsOldest(i, ids) == i \in ids /\ \A j \in ids : i <= j

CountDeliveries(log, ids) ==
  [k \in DOMAIN log |->
     IF k \in ids THEN [log[k] EXCEPT !.times = @ + 1] ELSE log[k]]

\* XREADGROUP of the undelivered entries up to i, into the reader's own PEL.
\* (Whether the cursor passes deleted entries too makes no difference to anyone.)
XReadGroup(q, i) ==
  LET got == {k \in Undelivered(q) : k <= i}
  IN  [log  |-> CountDeliveries(q.log, got),
       live |-> q.live,
       last |-> i,
       pel  |-> q.pel \cup got,
       own  |-> q.own \cup got]

XAck(q, i) ==
  [log |-> q.log, live |-> q.live, last |-> q.last,
   pel |-> q.pel \ {i}, own |-> q.own \ {i}]

\* XCLAIM hands a live entry to the claimant and counts a delivery; one that
\* XDEL removed it drops from the PEL and returns nothing for (Redis 7).
XClaim(q, i) ==
  IF i \in q.live
  THEN [log  |-> CountDeliveries(q.log, {i}),
        live |-> q.live, last |-> q.last, pel |-> q.pel,
        own  |-> q.own \cup {i}]
  ELSE XAck(q, i)

XDel(q, i) == [q EXCEPT !.live = @ \ {i}]

\* A worker under another consumer name starts with an empty PEL of its own;
\* the entries of the old name stay in the group's.
RenameConsumer(q) == [q EXCEPT !.own = {}]
-----------------------------------------------------------------------------
JobAt(q, i) == q.log[i].job

\* Entries a worker can still be handed with their fields: not deleted, and
\* either undelivered or pending (so reclaimable).
Recoverable(q) == {i \in q.live : i > q.last \/ i \in q.pel}

EntriesOf(q, job) == {i \in Recoverable(q) : JobAt(q, i) = job}
=============================================================================
