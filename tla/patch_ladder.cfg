SPECIFICATION FairSpec
CONSTANTS
  Diffs = {d1, d2}
  None = None
  Empty = Empty
  Torn = Torn
  MaxIterations = 2
  MaxInvocations = 2
INVARIANTS
  VerifiedMeansGraded
  ResultDescribesDiff
  
  NothingLeftBehind
PROPERTIES
  PatchEnds
  ImplementsPatchPromise
CHECK_DEADLOCK FALSE
