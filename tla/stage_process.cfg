\* A group of three in its subprocesses, with every fault they can have.
SPECIFICATION FairSpec
CONSTANTS
  N = 3
  Sizes <- LongAndShort
  Capacity = 2
  Faults = {"hang", "crash", "stuck", "lost", "spawn"}
CHECK_DEADLOCK FALSE
INVARIANTS
  TypeOK
  GoneWhenReturned
  OutcomesAreOwn
PROPERTIES
  AnswerIsTaken
  PromptWithoutTimeout
  TimeoutsSuffice
