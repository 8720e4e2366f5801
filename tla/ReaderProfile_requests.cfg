\* Turns after a callback on a shelf that changes; turns and feedbacks.
CONSTANTS
  None = None
  t1 = t1
  t2 = t2
  t3 = t3
  p1 = p1
  p2 = p2
  c1 = c1
  c2 = c2
  f1 = f1
  f2 = f2
  Turns = {t1, t2, t3}
  Feedbacks = {f1, f2, f3}
  Papers = {p1, p2}
  Concepts = {c1, c2}
  Sources <- SourcesOf
  Kinds = {"too_advanced", "style_preference"}
  Style = formal
  CALLBACK_MIN_TURN_GAP = 1
  MaxChanges = 1
SPECIFICATION ProfileSpec
INVARIANTS
  TypeOK
  CallbacksAreDue
  FeedbackCounts
PROPERTIES
  EveryTurnEnds
