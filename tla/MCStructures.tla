---------------------------- MODULE MCStructures ----------------------------
\* Data structures and algorithms for TLC: a behaviour is one of LRUCache, CacheAside,
\* RateLimiters, Cron, PriorityQueue, ShardedMap, TTLMap, Retry or Pool.
EXTENDS LRUCache, CacheAside, RateLimiters, Cron, PriorityQueue, ShardedMap, TTLMap, Retry,
        Pool

CONSTANTS k1, k2, k3, k4, p1, p2, p3, z1, r1, c1, c2, c3, sec, min, t1, t2, t3, t4, t5, t6

FourKeys == {k1, k2, k3, k4}
TwoKeys == {k1, k2}
OneKey == {k1}
OneCaller == {p1}
TwoCallers == {p1, p2}
ThreeCallers == {p1, p2, p3}
OneRanger == {r1}
OneCloser == {z1}
ThreeConns == {c1, c2, c3}

\* A cron expression with two fields, on a calendar whose seconds go 0, 1, 2, 0, 1 and
\* whose minutes go 1, 2; the last of the texts names a value that no field has.
TwoFields == {sec, min}
FieldLowest == [f \in TwoFields |-> IF f = sec THEN 0 ELSE 1]
FieldHighest == [f \in TwoFields |-> 2]
ShortCalendar == [t \in Nat |-> [f \in TwoFields |->
    IF f = sec THEN (t % 5) % 3 ELSE 1 + ((t % 5) \div 3)]]
CronTexts == {[form |-> "all"], [form |-> "step", n |-> 2], [form |-> "list", of |-> {2}],
              [form |-> "range", from |-> 1, to |-> 2], [form |-> "list", of |-> {1, 5}]}

SixTasks == {t1, t2, t3, t4, t5, t6}
TwoPriorities == {1, 2}
SixTimes == 1..6
Arrival == CHOOSE f \in [SixTasks -> SixTimes] : IsInjective(f)

\* The hash spreads the keys, or not; fn writes, and reads.
HashFunctions == {[k \in TwoKeys |-> IF k = k1 THEN 0 ELSE 1], [k \in TwoKeys |-> 1]}
WritesAndReads == {"set", "get"}

ShortTTL == {1}
UpToThree == -1..3

VARIABLE part   \* which of them this behaviour is about
allVars == <<part, lruVars, cacheVars, rateVars, cronVars, queueVars, mapVars, ttlVars, retryVars, poolVars>>

\* Two callers of CacheAside want the same key; tasks arrive with one priority and
\* different times.
Init ==
    /\ part \in {"lru", "aside", "rate", "cron", "queue", "map", "ttl", "retry", "pool"}
    /\ rank = [t \in SixTasks |-> [priority |-> 1, at |-> Arrival[t]]]
    /\ LRUInit /\ CacheInit /\ RateInit /\ CronInit /\ QueueInit /\ MapInit /\ TTLInit /\ RetryInit
    /\ PoolInit
    /\ wants[p1] = k1 /\ wants[p2] = k1 /\ (part # "aside" => wants[p3] = k1)
    /\ part # "rate" => kind = "token"
    /\ part # "map" => hasher = [k \in TwoKeys |-> 1]
    /\ part # "retry" => allowed = 0

Only(p, A, rest) == part = p /\ A /\ UNCHANGED <<part, rest>>
InLRU(A) == Only("lru", A, <<cacheVars, rateVars, cronVars, queueVars, mapVars, ttlVars, retryVars, poolVars>>)
InAside(A) == Only("aside", A, <<lruVars, rateVars, cronVars, queueVars, mapVars, ttlVars, retryVars, poolVars>>)
InRate(A) == Only("rate", A, <<lruVars, cacheVars, cronVars, queueVars, mapVars, ttlVars, retryVars, poolVars>>)
InCron(A) == Only("cron", A, <<lruVars, cacheVars, rateVars, queueVars, mapVars, ttlVars, retryVars, poolVars>>)
InQueue(A) == Only("queue", A, <<lruVars, cacheVars, rateVars, cronVars, mapVars, ttlVars, retryVars, poolVars>>)
InMap(A) == Only("map", A, <<lruVars, cacheVars, rateVars, cronVars, queueVars, ttlVars, retryVars, poolVars>>)
InTTL(A) == Only("ttl", A, <<lruVars, cacheVars, rateVars, cronVars, queueVars, mapVars, retryVars, poolVars>>)
InRetry(A) == Only("retry", A, <<lruVars, cacheVars, rateVars, cronVars, queueVars, mapVars, ttlVars, poolVars>>)
InPool(A) == Only("pool", A, <<lruVars, cacheVars, rateVars, cronVars, queueVars, mapVars, ttlVars, retryVars>>)

Next ==
    \/ InLRU(LRUNext) \/ InAside(CacheNext) \/ InRate(RateNext) \/ InCron(CronNext)
    \/ InQueue(QueueNext) \/ InMap(MapNext) \/ InTTL(TTLNext) \/ InRetry(RetryNext)
    \/ InPool(PoolNext)

Spec == Init /\ [][Next]_allVars

\* What is fair in the three whose processes wait; a part that this behaviour is not
\* about stays where it began, and there none of these actions is enabled.
FairSpec == Spec /\ CacheFairness /\ MapFairness /\ PoolFairness

TypeOK ==
    /\ LRUTypeOK /\ CacheTypeOK /\ RateTypeOK /\ CronTypeOK
    /\ QueueTypeOK /\ MapTypeOK /\ TTLTypeOK /\ RetryTypeOK /\ PoolTypeOK

\* Each implements what it promises: the LRU list an order of recency, the heap an order
\* of priority (lru.go:147-232, priority_queue.go:77-151).
Implements == ImplementsOrder /\ ImplementsTaskOrder

\* No more is granted, called or asked for than is allowed, and no less (token_bucket.go,
\* leaky_bucket.go, sliding_window.go; retry.go:76-110).
CallsLimited == RateBounded /\ RefusalsDue /\ RetryBounded

\* What is in a map all the time is seen, and stays until somebody removes it
\* (sharded_map.go:150-173, ttl_map.go:84-99, 224-235).
MapsKeep == [][RangeSees' /\ EntryLasts]_allVars

\* Whoever waits for a cache, a map or a connection is served (singleflight.go:34-69,
\* sharded_map.go:113-173, pool.go:121-143).
CallsEnd == CallersServed /\ MapCallsEnd /\ ClientsServed
=============================================================================
