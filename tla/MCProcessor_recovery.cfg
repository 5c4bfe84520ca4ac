SPECIFICATION FairSpec

CONSTANTS
  Body <- MCBody
  Group = {g1}
  g1 = g1
  w1 = w1
  w2 = w2
  NoTx = NoTx
  Worker = {w1, w2}
  MaxLen = 2
  BatchSize = 2
  MaxEntries = 2
  MaxTriage = 0
  MaxSeen = 2
  Envelope <- GoodBadAndDown
  MaxDeliveries = 5
  Faults = {"crash", "insert"}
  MaxFaults = 1
  Down = {"spans"}

PROPERTIES
  WritableJobsSettle

CHECK_DEADLOCK FALSE
