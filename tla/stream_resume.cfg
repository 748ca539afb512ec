SPECIFICATION Spec
CONSTANTS
  N = 2
  Causes = {c1, c2}
  NoCrash = NoCrash
  Modes <- AllModes
  JudgeIds = {0, 1, 2}
  HonestJudge = FALSE
  CodeRaises = TRUE
  MaxStarts = 2
INVARIANTS
  DenseBugIds
  JudgedOnce
  ManifestMatchesResults
  SiblingsSeeCrash
  EveryGradedCrashJudged
PROPERTY TerminalResultKept
SYMMETRY CauseSymmetry
CHECK_DEADLOCK FALSE
