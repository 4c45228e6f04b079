\* Cancel says a worker double-checks the status.
SPECIFICATION Spec
CONSTANTS
  a1 = a1  a2 = a2  a3 = a3  s1 = s1  s2 = s2  s3 = s3
  r1 = r1  r2 = r2  r3 = r3
  NoJob = NoJob
  Analyses <- OneAnalysis
  Songs <- OneSong
  SongOf <- SameSong
  PreparedAtStart <- OneSong
  Requests <- TwoRequests
  QUEUE_MAX_LENGTH = 1
  SongsPrepMaxLen = 1
  MAX_CLAIM_ATTEMPTS = 1
  Operations = {"enqueue", "cancel", "retry"}
  Faults = {}
  MaxFaults = 0
  MaxEntries = 4
  RestartsAreSlow = TRUE
SYMMETRY RequestSymmetry
CHECK_DEADLOCK FALSE
PROPERTIES
  CanceledIsFinal
