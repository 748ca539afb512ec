SPECIFICATION Spec
CONSTANTS
  Precedence <- SourcePrecedence
  N = 2
  Crashes <- SomeCrashes
  CrashOf <- SomeContents
  NoCrash = "none"
  Scores = {1}
  MaxStreamed = 0
  MaxCommands = 2
INVARIANTS
  PatchGetsOwnReport
CHECK_DEADLOCK FALSE
