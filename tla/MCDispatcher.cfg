SPECIFICATION FairSpec
CONSTANTS
  RingSize = 1
  Publishers = {p1, p2}
  SubIds = {w1}
  Specs <- MCSpecs
  NotYet = NotYet
  Gone = Gone
  OtherSubjects <- MCOther
  QueueSize = 1
  MaxEvents = 3
  MaxFaults = 1
INVARIANTS
  Accounted
  OneDelivery
  NoLeakedWorker
PROPERTY
  Quiesces
CHECK_DEADLOCK FALSE
