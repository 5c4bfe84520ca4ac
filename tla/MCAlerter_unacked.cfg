SPECIFICATION AlertFairSpec

CONSTANTS
  a1 = a1
  a2 = a2
  i1 = i1
  new = new
  spike = spike
  slow = slow
  NoIssue = NoIssue
  NoClaim = NoClaim
  Replica = {a1, a2}
  Rule = {new, spike, slow}
  KindOf <- MCKindOf
  Issue = {i1}
  Throttle = 1
  MaxClock = 0
  MaxEdits = 0
  Body <- MCSignals
  MaxLen = 2
  BatchSize = 2
  MaxEntries = 1
  AlertFaults = {"load"}
  MaxAlertFaults = 1
  MaxPasses = 0

PROPERTIES
  EverySignalSettles

CHECK_DEADLOCK FALSE
