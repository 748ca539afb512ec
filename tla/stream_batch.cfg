SPECIFICATION FairSpec
CONSTANTS
  N = 2
  Causes = {c1,c2}
  NoCrash = NoCrash
  Modes <- StreamingOnly
  JudgeIds = {}
  HonestJudge = TRUE
  CodeRaises = TRUE
  MaxStarts = 3
INVARIANTS
  MissingReportExplained
  CanonicalPriorKept
  ReportsOfTheirBug
PROPERTIES
  InvocationEnds
  InvocationAdvances
  ImplementsTriageLedger
CHECK_DEADLOCK FALSE
