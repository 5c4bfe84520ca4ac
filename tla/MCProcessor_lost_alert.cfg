SPECIFICATION Spec

CONSTANTS
  Body <- MCBody
  Group = {g1}
  g1 = g1
  w1 = w1
  w2 = w2
  NoTx = NoTx
  Worker = {w1}
  MaxLen = 2
  BatchSize = 2
  MaxEntries = 2
  MaxTriage = 1
  MaxSeen = 2
  Envelope <- ErrorsOnly
  MaxDeliveries = 5
  Faults = {"crash"}
  MaxFaults = 1
  Down = {}

INVARIANTS
  DetectedIsAnnounced

CHECK_DEADLOCK FALSE
