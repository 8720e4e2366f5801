\* Two papers, two sessions, two questions; any request may fail.
CONSTANTS
  None = None
  p1 = p1
  p2 = p2
  s1 = s1
  s2 = s2
  q1 = q1
  Papers = {p1, p2}
  Sessions = {s1, s2}
  About <- AboutOf
  Questions = {q1, q2}
  Faults = {"fails"}
  MaxClicks = 2
SPECIFICATION WorkspaceSpec
INVARIANTS
  PageIsConsistent
PROPERTIES
  ReaderCanAskAgain
  SettledIsShown
