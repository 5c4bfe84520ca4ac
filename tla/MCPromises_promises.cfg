SPECIFICATION PromiseSpec

CONSTANTS
  NoTx = NoTx
  Worker = {w1, w2}
  Group = {g1}
  MaxTriage = 1
  MaxSeen = 2
  Editor = {e1}
  Member = {m1}
  Stranger = {s1}
  Release = {1, 2}
  MaxEdits = 1
  Project = {p1}
  Key = {k1}
  Admin = {a1}
  Signal = {"error"}
  Row = {1, 2}
  Time = {1}
  TraceOf <- OneTrace
  PageSizes = {1}
  Window = 3
  MaxChanges = 0
  Minute = 2
  Hour = 4
  Cutover = 6
  GroupLimit = 1

INVARIANTS
  SomePromiseIsKept

CHECK_DEADLOCK FALSE
