SPECIFICATION MCSpec
CONSTANTS
    a = a  b = b  c = c  now = now  later = later
    ja = ja  jb = jb  jc = jc  jd = jd  x = x  y = y  s = s
    Tasks = {a, b, c}
    Runs = {now, later}
    Jobs = {ja, jb, jc, jd}
    Targets = {x, y}
    Sites = {s}
    RunOf <- RunOfTask
    TargetOf <- TargetOfTask
    SiteOf <- OneSite
    TaskOf <- JobsOfTasks
    Deferred = {later}
    TenantLimit = 2
    JobTimeout = 1
    ClaimStale = 2
    HoldMax = 2
    ReapAfter = 3
    MaxFaults = 1
INVARIANTS TypeOK ClosedRunOwesNothing
PROPERTIES ReclaimSparesLive ImplementsLedger DueRunsFire TasksSettle
CHECK_DEADLOCK FALSE
