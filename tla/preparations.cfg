\* Clients that never stop submitting, adding and retrying: which preparations settle.
SPECIFICATION Spec
CONSTANTS
  s1 = s1  s2 = s2  s3 = s3
  NoSong = NoSong
  Songs <- ThreeSongs
  QUEUE_MAX_LENGTH = 1
  SongsPrepMaxLen = 2
  MaxWaiting = 2
CHECK_DEADLOCK FALSE
PROPERTIES
  PrepEnds
