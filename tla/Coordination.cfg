\* TaskWaiter with cancellations and resets; DistributedLock with late releases
\* and extensions of leases that have ended; two crawls that share the visited
\* URLs; three requests under a limit of two and a timeout.
SPECIFICATION FairSpec
CHECK_DEADLOCK FALSE
CONSTANTS
    w1 = w1  w2 = w2  w3 = w3  m1 = m1  m2 = m2  a = a  b = b
    o1 = o1  o2 = o2  o3 = o3  k1 = k1
    q1 = q1  q2 = q2  u1 = u1  u2 = u2  r1 = r1  r2 = r2  r3 = r3
    NoOne = NoOne
    Free = Free
    Waiters <- TwoWaiters
    Markers <- TwoMarkers
    TaskIDs <- TwoTasks
    Targets <- EveryTarget
    Holders <- ThreeHolders
    Keys <- OneKey
    TTLs <- OneOrTwo
    MaxTime = 4
    Crawls <- TwoCrawls
    URLs <- TwoURLs
    Seeds <- RepeatedSeed
    MaxFetches = 1
    ResultsSize = 1
    Requests <- ThreeRequests
    Limit = 2
INVARIANT TypeOK
INVARIANT NoMissedCompletion
INVARIANT LeaseExclusive
INVARIANT CrawlComplete
PROPERTY WaitsEnd
