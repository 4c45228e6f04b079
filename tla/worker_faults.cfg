\* The worker dies, is stopped, or its handler raises, anywhere, and restarts at any time.
SPECIFICATION Spec
CONSTANTS
  a1 = a1  a2 = a2  a3 = a3  s1 = s1  s2 = s2  s3 = s3
  r1 = r1  r2 = r2  r3 = r3
  NoJob = NoJob
  Analyses <- OneAnalysis
  Songs <- TwoSongs
  SongOf <- SameSong
  PreparedAtStart <- OneSong
  Requests <- TwoRequests
  QUEUE_MAX_LENGTH = 1
  SongsPrepMaxLen = 1
  MAX_CLAIM_ATTEMPTS = 1
  Operations = {"enqueue", "retry", "add_song", "retry_prep"}
  Faults = {"crash", "stop", "handler"}
  MaxFaults = 2
  MaxEntries = 4
  RestartsAreSlow = FALSE
SYMMETRY RequestSymmetry
CHECK_DEADLOCK FALSE
INVARIANTS
  JobNotLost
  PrepNotLost
PROPERTIES
  DoneIsNotRerun
