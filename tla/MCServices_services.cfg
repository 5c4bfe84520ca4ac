SPECIFICATION FairSpec

CONSTANTS
  Project = {p1}
  Key = {k1, k2}
  Admin = {a1, a2}
  Signal = {"error", "metric"}
  Runner = {r1, r2}
  Version = {1, 2}
  Statements = 2
  Directories <- MigratorBuilds
  MaxRuns = 3
  Row = {1, 2, 3}
  Time = {1, 2, 3}
  TraceOf <- Traces
  PageSizes = {1, 2}
  Window = 3
  MaxChanges = 2
  Editor = {e1, e2}
  Member = {m1}
  Stranger = {s1}
  Release = {1, 2}
  MaxEdits = 3
  MaxEnvelopeItems = 2
  MaxItemBytes = 2
  MaxHeaderLine = 2
  MaxClockSkew = 4
  Ahead = 1
  TwoTo64 = 16
  Minute = 2
  Hour = 4
  Cutover = 6
  GroupLimit = 1
  Places <- SourcePlaces
  Mine <- MyScope
  Table <- Rows
  MaxQueue = 1
  MaxItems = 3

INVARIANTS
  KeylessIsExplained
  PurgeLeavesOnlyLateRows
  AppliedOnceInOrder
  RecordedIsWhole
  ShownOnce
  NothingSkipped
  TailSendsWhatIsNew
  TrailTellsState
  RegressionsReopen
  FilesAreCutWell
  EnvelopesArriveWhole
  BugsStayWhole
  BugsStayApart
  SearchesAreHonest
  StoredRowsAreTrue
  AcceptedRulesPage
  EveryItemHasOneFate
  OneFlushWaits

PROPERTIES
  FlushEnds

CHECK_DEADLOCK FALSE
