SPECIFICATION Spec
CONSTANTS
  Sites = {s1, s2}
  Keys = {k1}
  Codes = {c1, c2}
  Workers = {w1}
  Sweepers = {sw}
  Operators = {op}
  NoSite = NoSite
  NoKey = NoKey
  DegradeAfter = 0
  DisconnectAfter = 0
  MissThreshold = 1
  SiteCap = 1
  ActiveVerify = FALSE
  MaxGeneration = 1
SYMMETRY Interchangeable
INVARIANTS
  OneEnrollmentPerGeneration
  SiteCapHolds
