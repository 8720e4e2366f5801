\* One turn is over, a quiz pending or not; two requests race for the locks.
CONSTANTS
  Requests = {r0, r1, r2}
  None = None
  Asker = r0
  QuizGap = 1
SPECIFICATION BegunFairSpec
INVARIANTS
  AttemptsNumbered
  PendingUnanswered
PROPERTY EveryRequestEnds
