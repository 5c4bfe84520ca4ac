SPECIFICATION AlertSpec

CONSTANTS
  a1 = a1
  a2 = a2
  i1 = i1
  new = new
  spike = spike
  slow = slow
  NoIssue = NoIssue
  NoClaim = NoClaim
  Replica = {a1, a2}
  Rule = {new, spike, slow}
  KindOf <- MCKindOf
  Issue = {i1}
  Throttle = 1
  MaxClock = 1
  MaxEdits = 1
  Body <- MCSignals
  MaxLen = 2
  BatchSize = 2
  MaxEntries = 2
  AlertFaults = {"crash", "load", "claim", "send", "ack"}
  MaxAlertFaults = 1
  MaxPasses = 1

INVARIANTS
  OnlyReplicasPageTwice
  AckedIsDecided
  LostPagesAreFaults

SYMMETRY Symmetry

CHECK_DEADLOCK FALSE
