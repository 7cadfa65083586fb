CONSTANTS
  Sites = {a, b}
  Snaps = {s1, s2, s3}
  Chunks = {c1}
  Operators = {o1}
  Procs = {w1, w2}
  Modes = {TRUE, FALSE}
  Requests = {"delete"}
  NoSnap = NoSnap
  NoSite = NoSite
  NoProc = NoProc
  NoChunk = NoChunk
  RetentionAge = 1
  Scheduled = TRUE
  KeepLast = 1
  ArchiveKeep = 1
  MonthLength = 2
  Horizon = 1
  BaseWindow = 3
  MaxChainDepth = 1
  MaxTime = 4
  MaxRestores = 0
  MaxAborts = 1
  TxSpan = 1
  SweepCrash = TRUE
  Scenes = {"chains", "crashes", "sharing"}
SPECIFICATION SceneSpec
SYMMETRY Symmetry
INVARIANTS TypeOK RetainedChainsWhole SharedChunksStored
PROPERTIES SweepSparesWithin RecordedChunksStay
CHECK_DEADLOCK FALSE
