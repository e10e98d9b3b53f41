SPECIFICATION Spec
CONSTANTS
  Clients = {a, b}
  Keys = {k1, k2}
  Specs = {s1}
  ValidSpecs = {s1}
  Labels = {l1, l2}
  NoLabels = NoLabels
  CallerPhases = {""}
  StatusWrites <- MCStatusWrites
  Expected = {0, 1}
  MaxCalls = 4
INVARIANTS ListingTellsState AddressHistoryOrdered
PROPERTIES NoLostUpdate CallsEnd ImplementsStore
CHECK_DEADLOCK FALSE
