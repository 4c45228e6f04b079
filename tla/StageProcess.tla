---------------------------- MODULE StageProcess ----------------------------
(***************************************************************************)
(* One entry of the pipeline in its subprocesses (runner.py,               *)
(* _start_group, _run_in_subprocess, _join_subprocess, _stage_worker): the *)
(* parent starts every member, then takes one answer after the other.  A   *)
(* single stage is a group of one.                                         *)
(*                                                                         *)
(* An answer goes through a pipe of its own, piece by piece: a thread of   *)
(* the child writes while there is room, and the child lives until all is  *)
(* written.  The timeout of a get ends the wait for the first piece only,  *)
(* and the end of the child does not close the pipe, whose writing end the *)
(* parent holds as well.                                                   *)
(***************************************************************************)
EXTENDS Integers, FiniteSets

CONSTANTS
  N,         \* members of the entry
  Sizes,     \* pieces of each member's result
  Capacity,  \* pieces a pipe holds
  Faults     \* what can go wrong: "hang", "crash", "stuck", "lost", "spawn"

Members == 1 .. N

ASSUME ProcessAssumption ==
  /\ N \in Nat \ {0} /\ Capacity \in Nat \ {0}
  /\ Sizes \in [Members -> Nat \ {0}]

VARIABLES
  pc,       \* where the parent stands
  cur,      \* the member it starts or waits for
  child,    \* each member's process
  put,      \* what it put into its queue
  sent,     \* pieces written to its pipe
  got,      \* pieces the parent has read
  signal,   \* the last signal sent to it
  outcome   \* what _join_subprocess returned for it

family == <<child, put, sent>>
vars == <<pc, cur, child, put, sent, got, signal, outcome>>

Answers == {"ok", "logical", "internal"}

\* An error is one piece.
Size(m) == IF put[m] = "ok" THEN Sizes[m] ELSE 1

InPipe(m) == sent[m] - got[m]
-----------------------------------------------------------------------------
Init ==
  /\ pc = "start" /\ cur = 1
  /\ child = [m \in Members |-> "unborn"]
  /\ put = [m \in Members |-> "none"]
  /\ sent = [m \in Members |-> 0]
  /\ got = [m \in Members |-> 0]
  /\ signal = [m \in Members |-> "none"]
  /\ outcome = [m \in Members |-> "none"]

(***************************************************************************)
(* The children.  A signal is the parent's; a crash is anything else that  *)
(* ends the process, the kernel's memory killer included.                  *)
(***************************************************************************)
Becomes(m, s) == child' = [child EXCEPT ![m] = s]

\* The stage returns, raises an error of its own, or raises any other.
Put(m) ==
  /\ child[m] = "running"
  /\ \E answer \in Answers : put' = [put EXCEPT ![m] = answer]
  /\ Becomes(m, "writing")
  /\ UNCHANGED <<pc, cur, sent, got, signal, outcome>>

Send(m) ==
  /\ child[m] = "writing" /\ InPipe(m) < Capacity
  /\ sent' = [sent EXCEPT ![m] = @ + 1]
  /\ Becomes(m, IF sent[m] + 1 = Size(m) THEN "exiting" ELSE "writing")
  /\ UNCHANGED <<pc, cur, put, got, signal, outcome>>

Exit(m) ==
  /\ child[m] = "exiting"
  /\ Becomes(m, "dead")
  /\ UNCHANGED <<pc, cur, put, sent, got, signal, outcome>>

Hang(m) ==
  /\ "hang" \in Faults /\ child[m] = "running"
  /\ Becomes(m, "hung")
  /\ UNCHANGED <<pc, cur, put, sent, got, signal, outcome>>

Crash(m) ==
  /\ "crash" \in Faults /\ child[m] \notin {"unborn", "dead"}
  /\ Becomes(m, "dead")
  /\ UNCHANGED <<pc, cur, put, sent, got, signal, outcome>>

\* The answer is written, and the process does not end.
StickAtExit(m) ==
  /\ "stuck" \in Faults /\ child[m] = "exiting"
  /\ Becomes(m, "stuck")
  /\ UNCHANGED <<pc, cur, put, sent, got, signal, outcome>>

\* What was put cannot be pickled: the writing thread drops it.
LoseAnswer(m) ==
  /\ "lost" \in Faults /\ child[m] = "writing" /\ sent[m] = 0
  /\ Becomes(m, "exiting")
  /\ UNCHANGED <<pc, cur, put, sent, got, signal, outcome>>

Die(m) ==
  /\ signal[m] # "none" /\ child[m] # "dead"
  /\ Becomes(m, "dead")
  /\ UNCHANGED <<pc, cur, put, sent, got, signal, outcome>>

Child(m) ==
  \/ Put(m) \/ Send(m) \/ Exit(m) \/ Die(m)
  \/ Hang(m) \/ Crash(m) \/ StickAtExit(m) \/ LoseAnswer(m)
-----------------------------------------------------------------------------
\* All members are started before the first answer is taken.
StartMember ==
  /\ pc = "start"
  /\ Becomes(cur, "running")
  /\ pc' = IF cur = N THEN "get" ELSE "start"
  /\ cur' = IF cur = N THEN 1 ELSE cur + 1
  /\ UNCHANGED <<put, sent, got, signal, outcome>>

\* process.start() raises: whoever was started before is left alone.
StartFails ==
  /\ pc = "start" /\ "spawn" \in Faults
  /\ pc' = "raised"
  /\ UNCHANGED <<cur, family, got, signal, outcome>>

\* _join_subprocess returns, and the parent turns to the next member.
Returns(what) ==
  /\ outcome' = [outcome EXCEPT ![cur] = what]
  /\ pc' = IF cur = N THEN "done" ELSE "get"
  /\ cur' = IF cur = N THEN cur ELSE cur + 1

\* Defect: the process is waited for before its answer is taken.
PollAfterExit ==
  /\ pc = "get" /\ InPipe(cur) > 0 /\ child[cur] = "dead"
  /\ pc' = "receive"
  /\ UNCHANGED <<cur, family, got, signal, outcome>>

\* get: there is something to read within the timeout.
Poll ==
  /\ pc = "get" /\ InPipe(cur) > 0
  /\ pc' = "receive"
  /\ UNCHANGED <<cur, family, got, signal, outcome>>

\* Defect: the first piece is taken for the whole answer.
ReceiveOnePiece ==
  /\ pc = "receive" /\ InPipe(cur) > 0
  /\ got' = [got EXCEPT ![cur] = @ + 1]
  /\ pc' = "join"
  /\ UNCHANGED <<cur, family, signal, outcome>>

\* Defect: the rest is taken as it is, whether it has come or not.
ReceiveUnwritten ==
  /\ pc = "receive"
  /\ got' = [got EXCEPT ![cur] = @ + 1]
  /\ pc' = IF got[cur] + 1 = Size(cur) THEN "join" ELSE "receive"
  /\ UNCHANGED <<cur, family, signal, outcome>>

\* The rest is read without a timeout.
Receive ==
  /\ pc = "receive" /\ InPipe(cur) > 0
  /\ got' = [got EXCEPT ![cur] = @ + 1]
  /\ pc' = IF got[cur] + 1 = Size(cur) THEN "join" ELSE "receive"
  /\ UNCHANGED <<cur, family, signal, outcome>>

\* The last join has no timeout either.
Join ==
  /\ pc = "join" /\ child[cur] = "dead"
  /\ Returns(put[cur])
  /\ UNCHANGED <<family, got, signal>>

\* Defect: the timeout also ends a wait that has begun to be answered.
ExpireWhenever ==
  /\ pc \in {"get", "receive"}
  /\ pc' = "check"
  /\ UNCHANGED <<cur, family, got, signal, outcome>>

\* queue.Empty
Expire ==
  /\ pc = "get" /\ InPipe(cur) = 0
  /\ pc' = "check"
  /\ UNCHANGED <<cur, family, got, signal, outcome>>

FoundDead ==
  /\ pc = "check" /\ child[cur] = "dead"
  /\ Returns("no_result")
  /\ UNCHANGED <<family, got, signal>>

\* Defect: a terminated process is not waited for.
TerminateAndReturn ==
  /\ pc = "check" /\ child[cur] # "dead"
  /\ signal' = [signal EXCEPT ![cur] = "term"]
  /\ Returns("timeout")
  /\ UNCHANGED <<family, got>>

Terminate ==
  /\ pc = "check" /\ child[cur] # "dead"
  /\ signal' = [signal EXCEPT ![cur] = "term"]
  /\ pc' = "grace"
  /\ UNCHANGED <<cur, family, got, outcome>>

\* Defect: SIGTERM is sent once more instead of SIGKILL.
KillByTerm ==
  /\ pc = "grace" /\ child[cur] # "dead"
  /\ pc' = "killed"
  /\ UNCHANGED <<cur, family, got, signal, outcome>>

\* The process is still there after five seconds.
Kill ==
  /\ pc = "grace" /\ child[cur] # "dead"
  /\ signal' = [signal EXCEPT ![cur] = "kill"]
  /\ pc' = "killed"
  /\ UNCHANGED <<cur, family, got, outcome>>

TimedOut ==
  /\ pc \in {"grace", "killed"} /\ child[cur] = "dead"
  /\ Returns("timeout")
  /\ UNCHANGED <<family, got, signal>>

ParentStep ==
  \/ StartMember \/ Poll \/ Receive \/ Join
  \/ FoundDead \/ Terminate \/ Kill \/ TimedOut

Next == ParentStep \/ Expire \/ StartFails \/ \E m \in Members : Child(m)

Spec == Init /\ [][Next]_vars

(***************************************************************************)
(* The parent goes on where it can, a stage that does not hang ends, its   *)
(* answer is written while there is room, and SIGKILL is obeyed; SIGTERM   *)
(* need not be.  That a timeout passes is not assumed here, but by the     *)
(* property that needs it.                                                 *)
(***************************************************************************)
Fairness ==
  /\ WF_vars(ParentStep)
  /\ \A m \in Members :
       /\ WF_vars(Put(m)) /\ WF_vars(Send(m)) /\ WF_vars(Exit(m))
       /\ WF_vars(signal[m] = "kill" /\ Die(m))

FairSpec == Spec /\ Fairness
-----------------------------------------------------------------------------
\* The pipe holds what was sent and not read, and never more than fits.
TypeOK ==
  /\ pc \in {"start", "raised", "get", "receive", "join", "check", "grace", "killed", "done"}
  /\ cur \in Members
  /\ child \in [Members -> {"unborn", "running", "hung", "writing", "exiting", "stuck", "dead"}]
  /\ put \in [Members -> Answers \cup {"none"}]
  /\ sent \in [Members -> Nat] /\ got \in [Members -> Nat]
  /\ signal \in [Members -> {"none", "term", "kill"}]
  /\ outcome \in [Members -> Answers \cup {"none", "timeout", "no_result"}]
  /\ \A m \in Members : got[m] <= sent[m] /\ sent[m] <= got[m] + Capacity

(***************************************************************************)
(* What a stage loaded is gone when the runner has its outcome, whatever   *)
(* it was: Demucs and Whisper are never resident together (runner.py,      *)
(* module docstring).  Only a process that was started before one that     *)
(* could not be is left alone.                                             *)
(***************************************************************************)
GoneWhenReturned ==
  \A m \in Members : outcome[m] # "none" => child[m] = "dead"

(***************************************************************************)
(* A result is a result the stage computed, complete, and only members     *)
(* whose turn has come have an outcome: the runner zips names and          *)
(* outcomes, it does not match them.                                       *)
(***************************************************************************)
OutcomesAreOwn ==
  \A m \in Members :
    /\ outcome[m] \in Answers => outcome[m] = put[m] /\ got[m] = Size(m)
    /\ pc = "done" => outcome[m] # "none"

(***************************************************************************)
(* An answer that began to arrive before the timeout is not given up for   *)
(* it, and an earlier member's timeout costs a later one nothing: what it  *)
(* put in the meantime is still taken.                                     *)
(***************************************************************************)
AnswerIsTaken ==
  \A m \in Members :
    [](InPipe(m) > 0 /\ outcome[m] = "none" /\ (cur = m => pc \in {"start", "get", "receive"})
       => [](outcome[m] \notin {"timeout", "no_result"}))

Ended == pc \in {"done", "raised"}

NoFault == \A m \in Members :
  /\ child[m] \notin {"hung", "stuck"}
  /\ child[m] = "dead" => sent[m] > 0 /\ sent[m] = Size(m)

(***************************************************************************)
(* While nothing goes wrong no timeout is needed, however long the answers *)
(* are for their pipes (_join_subprocess: "Reads the queue *before*        *)
(* joining the process, deliberately").                                    *)
(***************************************************************************)
PromptWithoutTimeout == []NoFault => <>Ended

CutOff(m) ==
  /\ child[m] = "dead" /\ signal[m] = "none"
  /\ 0 < sent[m] /\ sent[m] < Size(m)

(***************************************************************************)
(* The timeouts end every wait for a process that hangs, that dies, that   *)
(* ignores SIGTERM or whose answer is lost, unless it is killed in the     *)
(* middle of its answer or does not end after it.                          *)
(***************************************************************************)
TimeoutsSuffice ==
  WF_vars(Expire) /\ [](\A m \in Members : ~CutOff(m) /\ child[m] # "stuck") => <>Ended
=============================================================================
