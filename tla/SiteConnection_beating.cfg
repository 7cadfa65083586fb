SPECIFICATION BeatingSpec
CONSTANTS
  Sites = {s1}
  Keys = {k1}
  Codes = {c1}
  Workers = {w1}
  Sweepers = {sw}
  Operators = {op}
  NoSite = NoSite
  NoKey = NoKey
  DegradeAfter = 0
  DisconnectAfter = 0
  MissThreshold = 1
  SiteCap = 1
  ActiveVerify = TRUE
  MaxGeneration = 1
INVARIANTS
  TypeOK
  LiveSiteHasAgent
PROPERTIES
  LegalMovesOnly
  RevokeReachesAgent
  BeatingSiteRecovers
