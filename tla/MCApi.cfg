SPECIFICATION ApiSpec
CONSTANTS
  Clients = {c1, c2}
  Keys = {k1}
  Specs = {s1, s2}
  ValidSpecs = {s1, s2}
  Labels = {l1}
  NoLabels = NoLabels
  NoDoc = NoDoc
  CallerPhases = {""}
  StatusWrites <- MCStatusWrites
  AuditCap = 4
  MaxIds = 2
  MaxGen = 3
  MaxSeq = 3
  MaxCrashes = 1
INVARIANTS EventsMatchAudit
PROPERTY CASNoLostUpdate
CHECK_DEADLOCK FALSE
