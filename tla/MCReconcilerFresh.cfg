SPECIFICATION Spec
CONSTANTS
  s1 = s1
  s2 = s2
  odd = odd
  Keys = {k1}
  Specs = {s1, s2}
  ValidSpecs = {s1, s2}
  Labels = {l1}
  NoLabels = NoLabels
  FieldsOf <- MCFieldsOf
  Unmappable = Unmappable
  Absent = Absent
  Drift = drift
  Actuated = {k1}
  FieldMapper = TRUE
  CallerPhases = {""}
  Workers = {w1}
  MaxAttempts = 2
  QueueCap = 2
  PageLimit = 2
  MaxIds = 1
  MaxGen = 2
  MaxFaults = 1
  MaxDrifts = 1
  MaxManual = 1
  MaxCrashes = 0
PROPERTY FailedWasAttempted
