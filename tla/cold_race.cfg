\* Two songs are added and prepared while analyses of them come and go; no faults.
SPECIFICATION Spec
CONSTANTS
  a1 = a1  a2 = a2  a3 = a3  s1 = s1  s2 = s2  s3 = s3
  r1 = r1  r2 = r2  r3 = r3
  NoJob = NoJob
  Analyses <- TwoAnalyses
  Songs <- TwoSongs
  SongOf <- OwnSong
  PreparedAtStart = {}
  Requests <- TwoRequests
  QUEUE_MAX_LENGTH = 1
  SongsPrepMaxLen = 1
  MAX_CLAIM_ATTEMPTS = 1
  Operations = {"enqueue", "cancel", "retry", "add_song", "retry_prep"}
  Faults = {}
  MaxFaults = 0
  MaxEntries = 4
  RestartsAreSlow = TRUE
SYMMETRY RequestSymmetry
CHECK_DEADLOCK FALSE
INVARIANTS
  JobNotLost
  PrepNotLost
  OneEntryPerJob
  ReferenceReady
  PrepQueueBounded
PROPERTIES
  RollbackSparesPrepared
