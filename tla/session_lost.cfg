SPECIFICATION Spec
CONSTANTS
  MaxTurns = 1
  MaxResume = 1
INVARIANT ResultNeverLost
CHECK_DEADLOCK FALSE
