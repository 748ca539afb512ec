SPECIFICATION FairSpec
CONSTANTS
  MaxTurns = 2
  MaxResume = 2
INVARIANTS
  OneConversation
  ResumesCounted
  SubmissionSalvaged
  TurnBudget
PROPERTY SessionEnds
CHECK_DEADLOCK FALSE
