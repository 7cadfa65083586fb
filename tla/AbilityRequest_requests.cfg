SPECIFICATION MCSpec
CONSTANTS
  Requests = {r1, r2}
  Sole = r1
  Passes = {p1, p2}
  First = p1
  TokenTTL = 0
  RunMax = 0
  Settled = 1
  StaleAfter = 1
  Window = 1
  Stuck = 1
INVARIANTS TypeOK NothingWritten OneWriteOnSite DraftsGone
PROPERTIES OutcomeStands RequestsSettle
