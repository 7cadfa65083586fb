SPECIFICATION SweptSpec
CONSTANTS
  Sites = {s1}
  Keys = {k1}
  Codes = {c1}
  Workers = {w1}
  Sweepers = {sw}
  Operators = {op}
  NoSite = NoSite
  NoKey = NoKey
  DegradeAfter = 0
  DisconnectAfter = 2
  MissThreshold = 2
  SiteCap = 1
  ActiveVerify = FALSE
  MaxGeneration = 0
PROPERTIES
  SilentSiteIsNoticed
