\* Two readers, nothing goes wrong outside the code.
CONSTANTS
  u1 = u1
  u2 = u2
  alice = alice
  bob = bob
  Uploads = {u1, u2}
  By <- TwoReaders
  Scripts = {}
  Workers = {w1, w2}
  Answers = {}
  None = None
  MaxAttempts = 1
  Faults = {}
SPECIFICATION Spec
SYMMETRY Interchangeable
CHECK_DEADLOCK FALSE
INVARIANT
  ReadersGetTheirConcepts
