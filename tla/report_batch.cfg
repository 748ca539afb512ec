SPECIFICATION FairSpec
CONSTANTS
  Precedence <- SourcePrecedence
  N = 2
  Crashes <- SomeCrashes
  CrashOf <- SomeContents
  NoCrash = "none"
  Scores = {1}
  MaxStreamed = 1
  MaxCommands = 2
INVARIANTS
  CheckpointIsOwn
  PatchGetsCurrentReport
PROPERTIES
  ExitZeroMeansAll
  SubmittedNotRedone
  CommandEnds
CHECK_DEADLOCK FALSE
