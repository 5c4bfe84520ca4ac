SPECIFICATION FairSpec

CONSTANTS
  Body <- MCBody
  Group = {g1}
  g1 = g1
  w1 = w1
  w2 = w2
  NoTx = NoTx
  Worker = {w1}
  MaxLen = 2
  BatchSize = 2
  MaxEntries = 2
  MaxTriage = 0
  MaxSeen = 2
  Envelope <- GoodAndBad
  MaxDeliveries = 5
  Faults = {}
  MaxFaults = 0
  Down = {}

PROPERTIES
  EveryMessageSettles

CHECK_DEADLOCK FALSE
