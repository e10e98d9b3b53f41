SPECIFICATION FeedSpec
CONSTANTS
  Keys = {k1, k2}
  Specs = {s1, s2, bad}
  ValidSpecs = {s1, s2}
  Labels = {l1}
  NoLabels = NoLabels
  CallerPhases = {"", "Ready"}
  StatusWrites <- MCStatusWrites
  AuditCap = 2
  MaxIds = 3
  MaxGen = 2
  MaxSeq = 5
  RingSize = 3
  Wanted = {k1}
  PageSize = 1
  MaxCursor = 5
  MaxEvents = 7
INVARIANTS TypeOK IndexConsistent AuditTellsState WalkExact WalkIsBounded
PROPERTIES GenerationTracksContent RingImplementsWindow
CHECK_DEADLOCK FALSE
