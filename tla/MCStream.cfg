SPECIFICATION Spec
CONSTANTS
  Messages <- MCMessages
  Batch = 2
  MaxDeliver = 2
  ScanCap = 2
  Org = "acme"
  Limit = 1
  MaxLog = 2
  MaxFaults = 4
INVARIANTS AnsweredWasHandled ReplayExact
PROPERTY Settles
