SPECIFICATION Spec
CONSTANTS
  HEAP = 4
  HEAP_SZ = 108
  Calls <- SomeCalls
  MAX_CALLS = 2
  Boards <- BestAndWorst
INVARIANTS TypeOK AnswerIsFresh WalkFollowsLayout NoFalseAlarm
PROPERTY RequestEnds
