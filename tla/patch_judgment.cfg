SPECIFICATION Spec
CONSTANTS
  Diffs = {d1}
  None = None
  Empty = Empty
  Torn = Torn
  MaxIterations = 1
  MaxInvocations = 1
INVARIANT NoPatchFailsOnJudgment
CHECK_DEADLOCK FALSE
