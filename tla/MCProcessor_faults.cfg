SPECIFICATION Spec

CONSTANTS
  Body <- MCBody
  Group = {g1}
  g1 = g1
  w1 = w1
  w2 = w2
  NoTx = NoTx
  Worker = {w1, w2}
  MaxLen = 1
  BatchSize = 2
  MaxEntries = 2
  MaxTriage = 1
  MaxSeen = 2
  Envelope <- ErrorsAndLogs
  MaxDeliveries = 5
  Faults = {"crash", "upsert", "insert", "publish", "ack"}
  MaxFaults = 2
  Down = {}

INVARIANTS
  NothingVanishes
  NoSilentLoss
  AlertsAreDurable
  NoDuplicateAlerts
  TimesSeenCoversRows
  NewOnce
  OneRegressionPerResolve
  LockedStatusIsCurrent

PROPERTIES
  MeetsContract
  OnlyTheOvertakenAreSilent

CHECK_DEADLOCK FALSE
