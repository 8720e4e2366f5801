CONSTANTS
  p1 = p1
  p2 = p2
  c1 = c1
  c2 = c2
  c3 = c3
  c4 = c4
  k1 = k1
  k2 = k2
  k3 = k3
  q1 = q1
  q2 = q2
  Papers = {p1, p2}
  Chunks = {c1, c2, c3, c4}
  Concepts = {k1, k2, k3}
  Queries = {q1, q2}
  Score <- MCScore
  Close <- MCClose
  PaperOf <- MCPaperOf
  TextOf <- MCTextOf
  RoleOf <- MCRoleOf
  Stored <- MCStored
  Edges <- MCEdges
  Weak <- MCWeak
  Confident <- MCConfident
  SourcesOf <- MCSourcesOf
  Active = p1
  Indexed = {p1, p2}
  Floor = 1
  TopKs = {1, 2}
  AnyRole = "any"
  MAX_TRANSIENT_ATTEMPTS = 2
  MaxSearches = 3
  MaxLookups = 2
  MaxDraft = 2
  MaxIndex = 3
  None = None
SPECIFICATION MCSpec
INVARIANTS
  TypeOK
  CitedIsWhatWasHanded
  ReloadShowsTheAnswer
  MemoryIsAccountedFor
