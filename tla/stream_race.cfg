SPECIFICATION Spec
CONSTANTS
  N = 2
  Causes = {c1}
  NoCrash = NoCrash
  Modes <- StreamingOnly
  JudgeIds = {}
  HonestJudge = TRUE
  CodeRaises = TRUE
  MaxStarts = 1
PROPERTY CleanerExampleStays
CHECK_DEADLOCK FALSE
