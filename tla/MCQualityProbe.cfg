SPECIFICATION Spec
CONSTANTS
  Starts = {18, 31, 40}
  Threshold = 15
  MaxReplies = 2
INVARIANTS
  ProbeTypeOK
  AnswersFollowPrompts
  TroubleIsNotIncapacity
  VerdictIsMonotone
CHECK_DEADLOCK FALSE
