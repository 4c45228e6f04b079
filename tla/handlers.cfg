\* The handlers around the runner: stops, deaths, exceptions and a retry.
SPECIFICATION FairSpec
CONSTANTS
  NoStage = NoStage
  Stages <- AllStages
  PathsOf <- PathsOfStages
  Place <- PlaceInOrder
  EntryOf <- EntryInList
  Groups <- ParallelGroups
  Required <- RequiredStages
  MAX_STAGE_RETRIES = 2
  MAX_CLAIM_ATTEMPTS = 1
  MaxEntries = 2
  MaxFaults = 3
CHECK_DEADLOCK FALSE
INVARIANTS
  Inv
  ResultsInOrder
  ProgressIsNext
  NoRerun
  DoneIsWhole
  FilesKept
  AudioRemoved
PROPERTIES
  RunSettles
  ImplementsJobRun
