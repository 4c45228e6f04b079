-------------------------------- MODULE JobRun --------------------------------
(***************************************************************************)
(* What the queue may assume of a handler: JobWorker's view of one job, in *)
(* which a whole pipeline run is one step.  JobHandlers implements it.     *)
(***************************************************************************)
VARIABLES
  at,        \* "away", "run", "finish" or "ack": how far a delivery has come
  status,    \* the row's status
  complete   \* the row holds every stage's result

vars == <<at, status, complete>>

Init == at = "away" /\ status = "queued" /\ complete = FALSE

\* A delivery starts: with every result in, the row is left as it is.
Begin ==
  /\ at = "away"
  /\ IF complete THEN at' = "finish" /\ UNCHANGED status
     ELSE at' = "run" /\ status' = "processing"
  /\ UNCHANGED complete

Completes == at = "run" /\ at' = "finish" /\ complete' = TRUE /\ UNCHANGED status

RunFails ==
  at = "run" /\ at' = "ack" /\ status' = "failed" /\ UNCHANGED complete

Finish ==
  at = "finish" /\ at' = "ack" /\ status' = "done" /\ UNCHANGED complete

\* The worker stops or dies, the handler raises, or the entry is removed.
Leave == at # "away" /\ at' = "away" /\ UNCHANGED <<status, complete>>

\* An entry delivered too often is removed; recording that may fail.
GiveUp ==
  at = "away" /\ at' = "ack" /\ status' \in {status, "failed"} /\ UNCHANGED complete

Retry == status = "failed" /\ status' = "queued" /\ UNCHANGED <<at, complete>>

Next ==
  Begin \/ Completes \/ RunFails \/ Finish \/ Leave \/ GiveUp \/ Retry

Spec == Init /\ [][Next]_vars
=============================================================================
