CONSTANTS
  Rows <- MCRows
  Refs <- MCRefs
  Stored <- MCStored
  Account <- MCAccount
  Alice = "alice"
  Corrected = "concept"
  Touched <- MCTouched
  Observation = "correction"
  Turn = "answer"
  Evidence = "evidence"
SPECIFICATION Spec
INVARIANTS
  TypeOK
  ErasureIsWhole
PROPERTIES
  ErasureIsNeverRefused
  EveryTransactionEnds
