SPECIFICATION FairSpec
CONSTANTS
  s1 = s1
  s2 = s2
  odd = odd
  Keys = {k1, k2}
  Specs = {s1, s2}
  ValidSpecs = {s1, s2}
  Labels = {l1}
  NoLabels = NoLabels
  FieldsOf <- MCFieldsOf
  Unmappable = Unmappable
  Absent = Absent
  Drift = drift
  Actuated = {k1}
  FieldMapper = TRUE
  CallerPhases = {""}
  Workers = {w1, w2}
  MaxAttempts = 2
  QueueCap = 1
  PageLimit = 1
  MaxIds = 2
  MaxGen = 1
  MaxFaults = 0
  MaxDrifts = 0
  MaxManual = 0
  MaxCrashes = 0
PROPERTY Convergence
