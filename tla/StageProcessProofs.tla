-------------------------- MODULE StageProcessProofs --------------------------
(***************************************************************************)
(* What StageProcess promises, for any number of members, any length of    *)
(* their results and any capacity of the pipes.                            *)
(***************************************************************************)
EXTENDS StageProcess, TLAPS

\* Members whose start is still to come have no process, and nobody a signal.
Fresh ==
  \A m \in Members :
    pc = "start" => signal[m] = "none" /\ (m >= cur => child[m] = "unborn")

\* A process that has not got to its answer has put none, one that writes has.
Answering ==
  \A m \in Members :
    /\ child[m] \in {"unborn", "running", "hung"} => put[m] = "none"
    /\ child[m] = "writing" \/ sent[m] > 0 => put[m] # "none"

\* Outcomes are taken in the order of the members.
Turns ==
  /\ pc \in {"start", "raised"} => \A m \in Members : outcome[m] = "none"
  /\ pc \notin {"start", "raised", "done"} =>
       \A m \in Members : outcome[m] # "none" <=> m < cur
  /\ pc = "done" => \A m \in Members : outcome[m] # "none"

\* The process is joined only when all of its answer was read.
Complete == pc = "join" => got[cur] = Size(cur)

IInv ==
  /\ TypeOK /\ Fresh /\ Answering /\ Turns /\ Complete
  /\ GoneWhenReturned /\ OutcomesAreOwn

USE ProcessAssumption DEF Members

\* The pieces of an answer can be counted.
LEMMA SizeType == TypeOK => \A m \in Members : Size(m) \in Nat \ {0}
  BY DEF TypeOK, Size

\* Nothing is started, sent or taken at first.
LEMMA InitInv == Init => IInv
  BY DEF Init, IInv, TypeOK, Fresh, Answering, Turns, Complete, GoneWhenReturned,
         OutcomesAreOwn, Answers
-----------------------------------------------------------------------------
\* What a child does leaves everything of the parent's alone.
LEMMA ChildInv == ASSUME IInv, NEW m \in Members, Child(m) PROVE IInv'
<1> USE DEF IInv
<1>1. ASSUME Put(m) PROVE IInv'
  <2> USE <1>1 DEF Put, Becomes
  <2>1. put[m] = "none" /\ outcome[m] = "none" /\ sent[m] = 0
    BY DEF Answering, GoneWhenReturned, TypeOK
  <2>2. \A n \in Members : n # m => put'[n] = put[n] /\ child'[n] = child[n]
    BY DEF TypeOK
  <2>3. TypeOK' BY DEF TypeOK
  <2>4. Fresh' BY DEF Fresh, TypeOK
  <2>5. Answering' BY DEF Answering, TypeOK, Answers
  <2>6. Turns' BY DEF Turns
  <2>7. Complete'
    <3>1. pc = "join" => cur # m
      <4>1. got[m] = 0 BY <2>1 DEF TypeOK
      <4>2. Size(m) # 0 BY SizeType
      <4> QED BY <4>1, <4>2 DEF Complete
    <3> QED BY <3>1, <2>2 DEF Complete, Size, TypeOK
  <2>8. GoneWhenReturned' BY <2>1, <2>2 DEF GoneWhenReturned, TypeOK
  <2>9. OutcomesAreOwn' BY <2>1, <2>2 DEF OutcomesAreOwn, Size, Answers, TypeOK
  <2> QED BY <2>3, <2>4, <2>5, <2>6, <2>7, <2>8, <2>9
<1>2. ASSUME Send(m) PROVE IInv'
  <2> USE <1>2 DEF Send, Becomes
  <2>1. TypeOK'
    <3>1. child' \in [Members -> {"unborn", "running", "hung", "writing",
                                  "exiting", "stuck", "dead"}]
      BY DEF TypeOK
    <3>2. sent' \in [Members -> Nat] BY DEF TypeOK
    <3>3. ASSUME NEW n \in Members PROVE got'[n] <= sent'[n] /\ sent'[n] <= got'[n] + Capacity
      <4>1. sent'[n] = IF n = m THEN sent[n] + 1 ELSE sent[n] BY DEF TypeOK
      <4>2. /\ sent[n] \in Nat /\ got[n] \in Nat
            /\ got[n] <= sent[n] /\ sent[n] <= got[n] + Capacity
        BY DEF TypeOK
      <4> QED BY <4>1, <4>2 DEF InPipe
    <3> QED BY <3>1, <3>2, <3>3 DEF TypeOK
  <2>2. \A n \in Members : Size(n)' = Size(n) BY DEF Size
  <2>3. Fresh' BY DEF Fresh, TypeOK
  <2>4. Answering' BY DEF Answering, TypeOK
  <2>5. Turns' BY DEF Turns
  <2>6. Complete' BY <2>2 DEF Complete, TypeOK
  <2>7. GoneWhenReturned' BY DEF GoneWhenReturned, TypeOK
  <2>8. OutcomesAreOwn' BY <2>2 DEF OutcomesAreOwn
  <2> QED BY <2>1, <2>3, <2>4, <2>5, <2>6, <2>7, <2>8
<1>3. ASSUME Exit(m) \/ Hang(m) \/ Crash(m) \/ StickAtExit(m) \/ LoseAnswer(m) \/ Die(m)
      PROVE IInv'
  <2>1. UNCHANGED <<pc, cur, put, sent, got, signal, outcome>>
    BY <1>3 DEF Exit, Hang, Crash, StickAtExit, LoseAnswer, Die
  <2>2. PICK s \in {"hung", "exiting", "stuck", "dead"} :
           /\ child' = [child EXCEPT ![m] = s]
           /\ child[m] # "dead"
           /\ s # "dead" => child[m] # "unborn"
           /\ child[m] = "unborn" => signal[m] # "none"
           /\ s \in {"exiting", "stuck"} => child[m] \notin {"running", "hung"}
           /\ s = "hung" => child[m] = "running"
    BY <1>3 DEF Exit, Hang, Crash, StickAtExit, LoseAnswer, Die, Becomes
  <2>3. TypeOK' BY <2>1, <2>2 DEF TypeOK, InPipe
  <2>4. Fresh' BY <2>1, <2>2 DEF Fresh, TypeOK
  <2>5. Answering' BY <2>1, <2>2 DEF Answering, TypeOK
  <2>6. Turns' BY <2>1 DEF Turns
  <2>7. Complete' BY <2>1 DEF Complete, Size
  <2>8. GoneWhenReturned' BY <2>1, <2>2 DEF GoneWhenReturned, TypeOK
  <2>9. OutcomesAreOwn' BY <2>1 DEF OutcomesAreOwn, Size
  <2> QED BY <2>3, <2>4, <2>5, <2>6, <2>7, <2>8, <2>9
<1> QED BY <1>1, <1>2, <1>3 DEF Child
-----------------------------------------------------------------------------
\* While the parent is past the start, the member it waits for has no outcome.
LEMMA CurrentIsOpen ==
  ASSUME IInv, pc \notin {"start", "raised", "done"} PROVE outcome[cur] = "none"
  BY DEF IInv, TypeOK, Turns

\* An outcome is returned for a process that is gone, and it is its own.
LEMMA ReturnsInv ==
  ASSUME IInv, NEW what \in Answers \cup {"timeout", "no_result"}, Returns(what),
         pc \notin {"start", "raised", "done"}, child[cur] = "dead",
         what \in Answers => what = put[cur] /\ got[cur] = Size(cur),
         UNCHANGED <<family, got, signal>>
  PROVE  IInv'
<1> USE DEF IInv, Returns, family
<1>1. outcome[cur] = "none" BY CurrentIsOpen
<1>2. TypeOK'
  <2>1. outcome' \in [Members -> Answers \cup {"none", "timeout", "no_result"}]
    BY DEF TypeOK
  <2>2. cur' \in Members /\ pc' \in {"get", "done"} BY DEF TypeOK
  <2> QED BY <2>1, <2>2 DEF TypeOK
<1>3. /\ Fresh' /\ Complete' BY DEF Fresh, Complete
<1>4. Answering' BY DEF Answering
<1>5. Turns'
  <2>1. cur \in Members /\ \A m \in Members : outcome[m] # "none" <=> m < cur
    BY DEF TypeOK, Turns
  <2>2. \A m \in Members : outcome'[m] = IF m = cur THEN what ELSE outcome[m]
    BY DEF TypeOK
  <2>3. \A m \in Members : outcome'[m] # "none" <=> m <= cur
    BY <2>1, <2>2 DEF Answers
  <2> QED BY <2>1, <2>3 DEF Turns
<1>6. GoneWhenReturned' BY DEF GoneWhenReturned, TypeOK
<1>7. OutcomesAreOwn'
  <2>1. \A m \in Members : Size(m)' = Size(m) BY DEF Size
  <2>2. \A m \in Members : outcome'[m] = IF m = cur THEN what ELSE outcome[m]
    BY DEF TypeOK
  <2>3. ASSUME NEW m \in Members, outcome'[m] \in Answers
        PROVE  outcome'[m] = put'[m] /\ got'[m] = Size(m)'
    BY <2>1, <2>2, <2>3 DEF OutcomesAreOwn
  <2>4. \A m \in Members : pc' = "done" => outcome'[m] # "none" BY <1>5 DEF Turns
  <2> QED BY <2>3, <2>4 DEF OutcomesAreOwn
<1> QED BY <1>2, <1>3, <1>4, <1>5, <1>6, <1>7

\* Steps of the parent that neither start a process nor return an outcome.
LEMMA WaitingInv ==
  ASSUME IInv, Poll \/ Expire \/ Terminate \/ Kill \/ StartFails PROVE IInv'
<1> USE DEF IInv, Poll, Expire, Terminate, Kill, StartFails, family
<1>1. /\ UNCHANGED <<cur, child, put, sent, got, outcome>>
      /\ signal' \in [Members -> {"none", "term", "kill"}]
      /\ \/ pc = "start" /\ pc' = "raised"
         \/ /\ pc \in {"get", "check", "grace"}
            /\ pc' \in {"receive", "check", "grace", "killed"}
  <2>1. CASE Poll BY <2>1 DEF TypeOK
  <2>2. CASE Expire BY <2>2 DEF TypeOK
  <2>3. CASE Terminate BY <2>3 DEF TypeOK
  <2>4. CASE Kill BY <2>4 DEF TypeOK
  <2>5. CASE StartFails BY <2>5 DEF TypeOK
  <2> QED BY <2>1, <2>2, <2>3, <2>4, <2>5
<1>2. TypeOK' BY <1>1 DEF TypeOK
<1>3. Fresh' /\ Answering' /\ Complete' BY <1>1 DEF Fresh, Answering, Complete
<1>4. Turns' BY <1>1 DEF Turns
<1>5. GoneWhenReturned' BY <1>1 DEF GoneWhenReturned
<1>6. OutcomesAreOwn' BY <1>1 DEF OutcomesAreOwn, Size
<1> QED BY <1>2, <1>3, <1>4, <1>5, <1>6

\* Every step of the parent keeps the invariant.
LEMMA ParentInv ==
  ASSUME IInv, ParentStep \/ Expire \/ StartFails PROVE IInv'
<1> USE DEF IInv
<1>1. ASSUME StartMember PROVE IInv'
  <2> USE <1>1 DEF StartMember, Becomes
  <2>1. /\ cur \in Members /\ child[cur] = "unborn" /\ put[cur] = "none"
        /\ \A m \in Members : outcome[m] = "none" /\ signal[m] = "none"
    BY DEF TypeOK, Fresh, Answering, Turns
  <2>2. TypeOK' BY <2>1 DEF TypeOK
  <2>3. Fresh' BY <2>1 DEF Fresh, TypeOK
  <2>4. Answering' BY <2>1 DEF Answering, TypeOK
  <2>5. Turns' /\ Complete' BY <2>1, <2>2 DEF Turns, Complete, TypeOK
  <2>6. GoneWhenReturned' /\ OutcomesAreOwn'
    BY <2>1 DEF GoneWhenReturned, OutcomesAreOwn, Answers
  <2> QED BY <2>2, <2>3, <2>4, <2>5, <2>6
<1>2. CASE Poll \/ Expire \/ Terminate \/ Kill \/ StartFails
  BY <1>2, WaitingInv
<1>3. ASSUME Receive PROVE IInv'
  <2> USE <1>3 DEF Receive, family
  <2>1. \A m \in Members : Size(m)' = Size(m) BY DEF Size
  <2>2. cur \in Members /\ outcome[cur] = "none" /\ got[cur] < sent[cur]
    <3>1. outcome[cur] = "none" BY CurrentIsOpen
    <3>2. cur \in Members /\ sent[cur] \in Nat /\ got[cur] \in Nat BY DEF TypeOK
    <3> QED BY <3>1, <3>2 DEF InPipe
  <2>3. \A m \in Members : got'[m] = IF m = cur THEN got[m] + 1 ELSE got[m]
    BY DEF TypeOK
  <2>4. TypeOK' BY <2>2, <2>3 DEF TypeOK
  <2>5. Fresh' /\ Answering' BY DEF Fresh, Answering
  <2>6. Complete' BY <2>1, <2>2, <2>3 DEF Complete
  <2>7. Turns' /\ GoneWhenReturned' BY DEF Turns, GoneWhenReturned
  <2>8. OutcomesAreOwn' BY <2>1, <2>2, <2>3 DEF OutcomesAreOwn, Answers
  <2> QED BY <2>4, <2>5, <2>6, <2>7, <2>8
<1>4. ASSUME Join PROVE IInv'
  <2>1. got[cur] = Size(cur) /\ cur \in Members /\ pc = "join"
    BY <1>4 DEF Join, Complete, TypeOK
  <2>2. sent[cur] > 0
    <3>1. Size(cur) \in Nat \ {0} /\ got[cur] <= sent[cur] /\ sent[cur] \in Nat
      BY <2>1, SizeType DEF TypeOK
    <3> QED BY <2>1, <3>1
  <2>3. put[cur] \in Answers
    BY <2>1, <2>2 DEF Answering, TypeOK
  <2> QED BY <1>4, <2>1, <2>3, ReturnsInv DEF Join
<1>5. ASSUME FoundDead PROVE IInv'
  BY <1>5, ReturnsInv DEF FoundDead, Answers
<1>6. ASSUME TimedOut PROVE IInv'
  BY <1>6, ReturnsInv DEF TimedOut, Answers
<1> QED BY <1>1, <1>2, <1>3, <1>4, <1>5, <1>6 DEF ParentStep

\* The invariant is inductive.
LEMMA NextInv == IInv /\ [Next]_vars => IInv'
<1> SUFFICES ASSUME IInv, [Next]_vars PROVE IInv'
  OBVIOUS
<1>1. CASE UNCHANGED vars
  BY <1>1 DEF vars, IInv, TypeOK, Fresh, Answering, Turns, Complete, GoneWhenReturned,
              OutcomesAreOwn, Size
<1>2. CASE ParentStep \/ Expire \/ StartFails
  BY <1>2, ParentInv
<1>3. CASE \E m \in Members : Child(m)
  BY <1>3, ChildInv
<1> QED BY <1>1, <1>2, <1>3 DEF Next
-----------------------------------------------------------------------------
\* What holds of every state of every run.
THEOREM Invariance == Spec => []IInv
<1>1. Init => IInv BY InitInv
<1>2. IInv /\ [Next]_vars => IInv' BY NextInv
<1> QED BY <1>1, <1>2, PTL DEF Spec

(***************************************************************************)
(* The control of the parent and of every child stays within its values,   *)
(* and no pipe ever holds more than fits.                                  *)
(***************************************************************************)
THEOREM TypeCorrect == Spec => []TypeOK
<1>1. IInv => TypeOK BY DEF IInv
<1> QED BY <1>1, Invariance, PTL

(***************************************************************************)
(* Whatever way a member ends, the runner has its outcome only when its    *)
(* process is gone (_join_subprocess).                                     *)
(***************************************************************************)
THEOREM NoneLeftBehind == Spec => []GoneWhenReturned
<1>1. IInv => GoneWhenReturned BY DEF IInv
<1> QED BY <1>1, Invariance, PTL

(***************************************************************************)
(* The outcome of a member is a whole answer of its own process, or the    *)
(* runner's own word for its absence (_join_subprocess, _start_group).     *)
(***************************************************************************)
THEOREM NothingMixedUp == Spec => []OutcomesAreOwn
<1>1. IInv => OutcomesAreOwn BY DEF IInv
<1> QED BY <1>1, Invariance, PTL

\* The answer of m has begun to arrive, and nothing stands between it and its turn.
Arriving(m) ==
  /\ outcome[m] = "none"
  /\ \/ InPipe(m) > 0 /\ (cur = m => pc \in {"start", "raised", "get", "receive"})
     \/ cur = m /\ pc \in {"receive", "join"}

\* Once that is so, a step either leaves it so or returns the answer.
LEMMA ArrivingStep ==
  ASSUME NEW m \in Members, IInv, Arriving(m) \/ outcome[m] \in Answers, [Next]_vars
  PROVE  Arriving(m)' \/ outcome'[m] \in Answers
<1> USE DEF IInv
<1>1. /\ sent[m] \in Nat /\ got[m] \in Nat /\ cur \in Members
      /\ outcome[cur] # "none" => pc = "done"
  <2>1. sent[m] \in Nat /\ got[m] \in Nat /\ cur \in Members BY DEF TypeOK
  <2>2. pc \in {"start", "raised"} => outcome[cur] = "none" BY <2>1 DEF Turns
  <2> QED BY <2>1, <2>2, CurrentIsOpen
<1>2. CASE UNCHANGED vars
  BY <1>2 DEF vars, Arriving, InPipe
<1>3. ASSUME NEW n \in Members, Child(n) PROVE Arriving(m)' \/ outcome'[m] \in Answers
  <2>1. UNCHANGED <<pc, cur, got, outcome>>
        /\ (UNCHANGED sent \/ sent' = [sent EXCEPT ![n] = @ + 1])
    BY <1>3 DEF Child, Put, Send, Exit, Die, Hang, Crash, StickAtExit, LoseAnswer
  <2>2. sent'[m] \in Nat /\ sent'[m] >= sent[m]
    <3>1. CASE UNCHANGED sent BY <1>1, <3>1
    <3>2. CASE sent' = [sent EXCEPT ![n] = @ + 1]
      <4>1. sent'[m] = IF m = n THEN sent[m] + 1 ELSE sent[m] BY <3>2 DEF TypeOK
      <4> QED BY <1>1, <4>1
    <3> QED BY <2>1, <3>1, <3>2
  <2> QED BY <1>1, <2>1, <2>2 DEF Arriving, InPipe
<1>4. CASE outcome[m] \in Answers /\ (ParentStep \/ Expire \/ StartFails)
  <2>1. UNCHANGED outcome \/ (pc \notin {"start", "raised", "done"}
                               /\ \E what : outcome' = [outcome EXCEPT ![cur] = what])
    BY <1>4 DEF ParentStep, StartMember, Poll, Receive, Join, FoundDead, Terminate, Kill,
                TimedOut, Expire, StartFails, Returns
  <2>2. outcome[m] # "none" BY <1>4 DEF Answers
  <2> QED BY <1>1, <1>4, <2>1, <2>2, CurrentIsOpen DEF TypeOK
<1>5. CASE Arriving(m) /\ (ParentStep \/ Expire \/ StartFails)
  <2>1. CASE StartMember
    <3>1. InPipe(m) > 0 BY <1>5, <2>1 DEF Arriving, StartMember
    <3>2. InPipe(m)' > 0 BY <3>1, <2>1 DEF StartMember, InPipe
    <3> QED BY <1>5, <2>1, <3>2 DEF Arriving, StartMember
  <2>2. CASE Poll \/ Expire \/ Terminate \/ Kill \/ StartFails
    <3>1. InPipe(m)' = InPipe(m) /\ UNCHANGED <<cur, outcome>>
      BY <2>2 DEF Poll, Expire, Terminate, Kill, StartFails, family, InPipe
    <3>2. CASE cur = m
      BY <1>5, <2>2, <3>1, <3>2
      DEF Arriving, Poll, Expire, Terminate, Kill, StartFails
    <3>3. CASE cur # m BY <1>5, <3>1, <3>3 DEF Arriving
    <3> QED BY <3>2, <3>3
  <2>3. CASE Receive
    <3>1. cur # m => got'[m] = got[m] BY <1>1, <2>3 DEF Receive, TypeOK
    <3> QED BY <1>5, <2>3, <3>1 DEF Arriving, Receive, family, InPipe
  <2>4. ASSUME NEW what, Returns(what), UNCHANGED <<family, got>>, pc # "start", pc # "raised",
               cur = m => what \in Answers
        PROVE  Arriving(m)' \/ outcome'[m] \in Answers
    <3>1. CASE cur = m BY <2>4, <3>1 DEF Returns, TypeOK
    <3>2. CASE cur # m
      <4>1. InPipe(m)' = InPipe(m) /\ outcome'[m] = outcome[m]
        BY <2>4, <3>2 DEF Returns, family, InPipe, TypeOK
      <4>2. pc' = "get" \/ cur' = cur
        BY <2>4 DEF Returns
      <4> QED BY <1>5, <3>2, <4>1, <4>2 DEF Arriving
    <3> QED BY <3>1, <3>2
  <2>5. CASE Join
    <3>1. cur = m => put[m] \in Answers
      <4>1. pc = "join" BY <2>5 DEF Join
      <4>2. cur = m => sent[m] > 0
        <5>1. Size(cur) \in Nat \ {0} /\ got[cur] = Size(cur) /\ got[m] <= sent[m]
          BY <1>1, <4>1, SizeType DEF Complete, TypeOK
        <5> QED BY <1>1, <5>1
      <4> QED BY <4>2 DEF Answering, TypeOK
    <3> QED BY <2>4, <2>5, <3>1 DEF Join
  <2>6. CASE FoundDead
    <3>1. cur # m BY <1>5, <2>6 DEF Arriving, FoundDead
    <3> QED BY <2>4, <2>6, <3>1 DEF FoundDead
  <2>7. CASE TimedOut
    <3>1. cur # m BY <1>5, <2>7 DEF Arriving, TimedOut
    <3> QED BY <2>4, <2>7, <3>1 DEF TimedOut
  <2> QED BY <1>5, <2>1, <2>2, <2>3, <2>5, <2>6, <2>7 DEF ParentStep
<1> QED BY <1>2, <1>3, <1>4, <1>5 DEF Next

(***************************************************************************)
(* An answer that began to arrive in time is never given up: neither for   *)
(* its own timeout nor for the timeouts of the members before it           *)
(* (_join_subprocess, _start_group).                                       *)
(***************************************************************************)
THEOREM NoAnswerIsDropped == Spec => AnswerIsTaken
<1> SUFFICES ASSUME NEW m \in Members
    PROVE  Spec =>
             [](InPipe(m) > 0 /\ outcome[m] = "none"
                  /\ (cur = m => pc \in {"start", "get", "receive"})
                => [](outcome[m] \notin {"timeout", "no_result"}))
  BY DEF AnswerIsTaken
<1> DEFINE Held == Arriving(m) \/ outcome[m] \in Answers
<1>1. InPipe(m) > 0 /\ outcome[m] = "none" /\ (cur = m => pc \in {"start", "get", "receive"})
        => Held
  BY DEF Arriving
<1>2. IInv /\ Held /\ [Next]_vars => Held'
  BY ArrivingStep
<1>3. Held => outcome[m] \notin {"timeout", "no_result"}
  BY DEF Arriving, Answers
<1> QED BY <1>1, <1>2, <1>3, Invariance, PTL DEF Spec
=============================================================================
