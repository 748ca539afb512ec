SPECIFICATION FairSpec
CONSTANTS
  Targets = {"dnrcanary", "dnrcanary_2"}
  Matched <- MCMatched
  NumRuns <- MCNumRuns
  Drafts <- MCDrafts
  Cut = Cut
  Overalls = {"PASS - 13/13", "FAIL"}
  Passing = {"PASS - 13/13"}
  NoVerdict = "no verdict"
  MaxStops = 1
INVARIANTS
  ContainersAccounted
  ResultTellsOutcome
  ExitZeroMeansAllPassed
PROPERTIES
  FullerNeverScoresLess
  BatchEnds
  ImplementsBatchLedger
CHECK_DEADLOCK FALSE
