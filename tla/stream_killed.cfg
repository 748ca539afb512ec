SPECIFICATION Spec
CONSTANTS
  N = 2
  Causes = {c1, c2}
  NoCrash = NoCrash
  Modes <- StreamingOnly
  JudgeIds = {}
  HonestJudge = TRUE
  CodeRaises = FALSE
  MaxStarts = 2
INVARIANT ResumedBatchReportsAll
CHECK_DEADLOCK FALSE
