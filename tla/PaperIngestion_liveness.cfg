\* Two readers , every task tried twice; an enqueue may raise late.
CONSTANTS
  u1 = u1
  u2 = u2
  alice = alice
  bob = bob
  Uploads = {u1, u2}
  By <- TwoReaders
  Scripts = {}
  Workers = {w1, w2}
  Answers = {}
  None = None
  MaxAttempts = 2
  Faults = {"late_error"}
SPECIFICATION FairSpec
CHECK_DEADLOCK FALSE
PROPERTY
  QueuedSettles
