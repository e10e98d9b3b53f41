SPECIFICATION AgentSpec
CONSTANTS
  Connections = {a1, a2}
  Keys = {node}
  Node = node
  hand = hand
  HandWritten = hand
  Specs <- MCSpecs
  ValidSpecs <- MCSpecs
  Labels = {meta}
  Meta = meta
  NoLabels = NoLabels
  Free = Free
  CallerPhases = {""}
  StatusWrites <- MCStatusWrites
  AuditCap = 1
  MaxIds = 4
  MaxGen = 12
  MaxSeq = 16
  Attempts = 2
  MaxBeats = 4
  MaxCrashes = 1
  MaxWindows = 1
  MaxEdits = 2
  MaxFaults = 1
INVARIANTS AgentTypeOK NoHeartbeatStorm
PROPERTIES DrainingStays Heals
CHECK_DEADLOCK FALSE
