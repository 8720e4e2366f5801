\* Two turns over two concepts; a turn and a correction after a correction; two
\* corrections of a concept whose row has lost a turn's evidence.
CONSTANTS
  None = None
  t1 = t1
  t2 = t2
  k1 = k1
  k2 = k2
  c1 = c1
  c2 = c2
  p1 = p1
  Turns = {t1, t2}
  Corrections = {k1, k2}
  Concepts = {c1, c2}
  Papers = {p1}
  Styles = {formal}
  Noticed = {"explicit_confusion", "explicit_understanding"}
  Graded = {"quiz_correct"}
  MaxSignals = 1
SPECIFICATION RaceSpec
INVARIANTS
  TypeOK
  CacheIsEarned
  EvidenceIsSound
PROPERTIES
  UndisturbedWriterSettles
  OverrideIsTheReaders
  EveryWriterEnds
