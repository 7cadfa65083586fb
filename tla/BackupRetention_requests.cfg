CONSTANTS
  Sites = {a}
  Snaps = {s1, s2}
  Chunks = {c1}
  Operators = {o1}
  Procs = {w1}
  Modes = {TRUE}
  Requests = {"lock", "delete", "restore"}
  NoSnap = NoSnap
  NoSite = NoSite
  NoProc = NoProc
  NoChunk = NoChunk
  RetentionAge = 1
  Scheduled = TRUE
  KeepLast = 1
  ArchiveKeep = 0
  MonthLength = 2
  Horizon = 1
  BaseWindow = 3
  MaxChainDepth = 2
  MaxTime = 2
  MaxRestores = 1
  MaxAborts = 1
  TxSpan = 0
  SweepCrash = FALSE
SPECIFICATION FairSpec
INVARIANTS ChunksOfCompletedStored
PROPERTIES TerminalIsFinal GarbageIsSwept PrunesAboveKept
CHECK_DEADLOCK FALSE
