SPECIFICATION Spec
CONSTANTS
  s1 = s1
  s2 = s2
  odd = odd
  Keys = {k1, k2}
  Specs = {s1, s2, odd}
  ValidSpecs = {s1, s2, odd}
  Labels = {l1}
  NoLabels = NoLabels
  FieldsOf <- MCFieldsOf
  Unmappable = Unmappable
  Absent = Absent
  Drift = drift
  Actuated = {k1}
  FieldMapper = TRUE
  CallerPhases = {""}
  Workers = {w1, w2}
  MaxAttempts = 2
  QueueCap = 1
  PageLimit = 2
  MaxIds = 1
  MaxGen = 2
  MaxFaults = 2
  MaxDrifts = 1
  MaxManual = 0
  MaxCrashes = 1
INVARIANTS TypeOK SingleFlight OpenEpisodes
PROPERTY ReadyMeansApplied
SYMMETRY Symmetry
