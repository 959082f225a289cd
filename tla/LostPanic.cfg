\* One request whose handler panics.
SPECIFICATION Spec
CHECK_DEADLOCK FALSE
CONSTANTS
    w1 = w1  w2 = w2  w3 = w3  m1 = m1  m2 = m2  a = a  b = b
    o1 = o1  o2 = o2  o3 = o3  k1 = k1
    q1 = q1  q2 = q2  u1 = u1  u2 = u2  r1 = r1  r2 = r2  r3 = r3
    NoOne = NoOne
    Free = Free
    Waiters <- OneWaiter
    Markers <- OneMarker
    TaskIDs <- OneTask
    Targets <- EveryTarget
    Holders <- OneHolder
    Keys <- OneKey
    TTLs <- OneOrTwo
    MaxTime = 4
    Crawls <- OneCrawl
    URLs <- TwoURLs
    Seeds <- RepeatedSeed
    MaxFetches = 1
    ResultsSize = 1
    Requests <- OneRequest
    Limit = 2
INVARIANT PanicsRecovered
