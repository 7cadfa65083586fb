CONSTANTS
  Sites = {a, b}
  Snaps = {s1, s2, s3}
  Chunks = {c1}
  Operators = {o1}
  Procs = {w1}
  Modes = {FALSE}
  Requests = {}
  NoSnap = NoSnap
  NoSite = NoSite
  NoProc = NoProc
  NoChunk = NoChunk
  RetentionAge = 1
  Scheduled = TRUE
  KeepLast = 1
  ArchiveKeep = 0
  MonthLength = 2
  Horizon = 1
  BaseWindow = 3
  MaxChainDepth = 2
  MaxTime = 3
  MaxRestores = 0
  MaxAborts = 0
  TxSpan = 1
  SweepCrash = FALSE
SPECIFICATION DedupSpec
SYMMETRY Symmetry
PROPERTIES ReportedChunksSpared
CHECK_DEADLOCK FALSE
