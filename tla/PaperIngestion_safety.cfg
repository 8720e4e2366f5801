\* Two readers, a re-index and an answer; an instance may go away, a push be
\* delivered again.
CONSTANTS
  u1 = u1
  u2 = u2
  alice = alice
  bob = bob
  Uploads = {u1, u2}
  By <- TwoReaders
  Scripts = {s1}
  Workers = {w1, w2}
  Answers = {a1}
  None = None
  MaxAttempts = 2
  Faults = {"crash", "duplicate"}
SPECIFICATION Spec
SYMMETRY Interchangeable
CHECK_DEADLOCK FALSE
INVARIANTS
  TypeOK
  OneRunOfChunks
  QueuedIsOwned
  AnswerableHasChunks
  EvidenceExists
