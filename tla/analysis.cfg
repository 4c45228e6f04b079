\* Short curves: both passes, the crop, the search for a start, and every stage after it.
SPECIFICATION WarmSpec
CONSTANTS
  Stride = 2
  MaxCells = 20
  Recordings <- SmallRecordings
  References <- SmallReferences
  MinVoicedPercent = 5
  CoarseBand = 1
  RefineBand = 1
  MaxDistancePercent = 45
  MaxStartOffset = 3
  CandidateCount = 3
  TakesOf <- SmallTakes
  ZeroCents = 100
  MinShift = 60
  MaxShift = 700
  MaxIqr = 50
  OnsetTolerance = 2
  PauseFrames = 1
  PauseTolerance = 1
  RateTolerance = 20
  DepthTolerance = 50
  PresenceMismatch = 400
  Weights <- WeightsV1
  Whole = 100
  DetectPercent = 15
  MinUnvoicedFrames = 1
  LowVoicedPercent = 50
  WeakAlignmentPercent = 4500
CHECK_DEADLOCK FALSE
INVARIANTS
  WarmTypeOK
  StartOffsetIsLastResort
  PathsAreCheapest
  OnlyAJumpFails
  CenterReachesCorner
  SearchRaisesNothingNew
  SameMelodyAligns
  OwnTakeIsPerfect
  ConfidenceIsHonest
  AdjustedNeverWorse
  OnlyAlignmentFails
