\* The linked list of LRUCache and the heap of PriorityQueue against their orders; three
\* callers of CacheAside whose key is stored, invalidated, evicted and expires meanwhile;
\* four rate limiters over time; a cron task; walks over a sharded map that others
\* change; two users of a TTL map and its cleanup; a retry; three clients of
\* a pool of two connections that may break, against Close.
SPECIFICATION FairSpec
CONSTANTS
    k1 = k1  k2 = k2  k3 = k3  k4 = k4  p1 = p1  p2 = p2  p3 = p3  r1 = r1
    z1 = z1  c1 = c1  c2 = c2  c3 = c3
    sec = sec  min = min  t1 = t1  t2 = t2  t3 = t3  t4 = t4  t5 = t5  t6 = t6
    Nil = Nil
    None = None
    NoTask = NoTask
    Missing = Missing
    Keys <- FourKeys
    Capacity = 3
    CacheKeys <- TwoKeys
    Callers <- ThreeCallers
    MaxSize = 1
    MaxChanges = 1
    Burst = 2
    Unit = 2
    Rate = 1
    Limit = 2
    Window = 3
    MaxAsk = 2
    MaxTime = 8
    Fields <- TwoFields
    Lowest <- FieldLowest
    Highest <- FieldHighest
    Calendar <- ShortCalendar
    Specs <- CronTexts
    Horizon = 4
    LastSecond = 7
    QueueTasks <- SixTasks
    Priorities <- TwoPriorities
    RunTimes <- SixTimes
    MapKeys <- TwoKeys
    AskedShards = 2
    Hashers <- HashFunctions
    MapCallers <- OneCaller
    Rangers <- OneRanger
    FnCalls <- WritesAndReads
    TTLKeys <- OneKey
    Users <- TwoCallers
    Forever = 4
    TTLTimes <- ShortTTL
    LastTick = 3
    RetryCounts <- UpToThree
    NoConn = NoConn
    Clients <- ThreeCallers
    Closers <- OneCloser
    Conns <- ThreeConns
    Patient <- OneCaller
    PoolSize = 2
    Breakable = TRUE
    FactoryFails = TRUE
CHECK_DEADLOCK FALSE
INVARIANTS
    TypeOK
    ListMatchesMap
    NoStampede
    CallsLimited
    CronExact
    SlotsCover
PROPERTIES
    Implements
    MapsKeep
    CallsEnd
