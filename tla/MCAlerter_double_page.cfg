SPECIFICATION AlertSpec

CONSTANTS
  a1 = a1
  a2 = a2
  i1 = i1
  new = new
  spike = spike
  slow = slow
  NoIssue = NoIssue
  NoClaim = NoClaim
  Replica = {a1, a2}
  Rule = {new, spike, slow}
  KindOf <- MCKindOf
  Issue = {i1}
  Throttle = 1
  MaxClock = 0
  MaxEdits = 0
  Body <- MCSignals
  MaxLen = 2
  BatchSize = 2
  MaxEntries = 0
  AlertFaults = {}
  MaxAlertFaults = 0
  MaxPasses = 2

INVARIANTS
  OneWinnerPerWindow

CHECK_DEADLOCK FALSE
