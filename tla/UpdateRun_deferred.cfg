SPECIFICATION DeferredSpec
CONSTANTS
    a = a  b = b  c = c  now = now  later = later
    ja = ja  jb = jb  jc = jc  jd = jd  x = x  y = y  s = s
    Tasks = {a, b}
    Runs = {now}
    Jobs = {ja, jb, jd}
    Targets = {x, y}
    Sites = {s}
    RunOf <- RunOfTask
    TargetOf <- TargetOfTask
    SiteOf <- OneSite
    TaskOf <- TwoJobsOfA
    Deferred = {}
    TenantLimit = 3
    JobTimeout = 1
    ClaimStale = 2
    HoldMax = 2
    ReapAfter = 3
    MaxFaults = 0
INVARIANTS OneWorkerPerTask
CHECK_DEADLOCK FALSE
