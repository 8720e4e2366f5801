\* Three concurrent requests; the least gap a reader's quiz appetite gives.
CONSTANTS
  Requests = {r1, r2, r3}
  None = None
  Asker = None
  QuizGap = 2
SYMMETRY Interchangeable
SPECIFICATION Spec
INVARIANTS
  TypeOK
  TurnsGapless
  ExchangesWhole
  TranscriptFollowsTurns
  QuizPendingConsistency
PROPERTY SerialLog
