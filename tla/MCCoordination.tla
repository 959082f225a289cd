--------------------------- MODULE MCCoordination ---------------------------
\* Goroutines that wait for one another, for TLC: a behaviour is one of TaskWaiter
\* (for completions), of DistributedLock (leases), of Crawler (a WaitGroup and a
\* semaphore) or of RequestLimits (a semaphore and a deadline).
EXTENDS TaskWaiter, DistributedLock, Crawler, RequestLimits

CONSTANTS w1, w2, w3, m1, m2, a, b, o1, o2, o3, k1, q1, q2, u1, u2, r1, r2, r3

TwoWaiters == {w1, w2}
OneWaiter == {w1}
TwoMarkers == {m1, m2}
OneMarker == {m1}
TwoTasks == {a, b}
OneTask == {a}
EveryTarget == SUBSET TaskIDs \ {{}}
ThreeHolders == {o1, o2, o3}
OneHolder == {o1}
OneKey == {k1}
OneOrTwo == {1, 2}
TwoCrawls == {q1, q2}
OneCrawl == {q1}
TwoURLs == {u1, u2}
RepeatedSeed == <<u1, u2, u1>>
ThreeRequests == {r1, r2, r3}
OneRequest == {r1}

VARIABLE part   \* which of the four this behaviour is about
allVars == <<part, waitVars, lockVars, crawlVars, serveVars>>

Init ==
    /\ part \in {"waiter", "lock", "crawl", "serve"}
    /\ WaitInit /\ LockInit /\ CrawlInit /\ ServeInit

Only(p, A, rest) == part = p /\ A /\ UNCHANGED <<part, rest>>
Crawling(A) == Only("crawl", A, <<waitVars, lockVars, serveVars>>)
Serving(A) == Only("serve", A, <<waitVars, lockVars, crawlVars>>)

Next ==
    \/ Only("waiter", WaitNext, <<lockVars, crawlVars, serveVars>>)
    \/ Only("lock", LockNext, <<waitVars, crawlVars, serveVars>>)
    \/ Crawling(CrawlNext)
    \/ Serving(ServeNext)

Spec == Init /\ [][Next]_allVars

\* Goroutines of the crawler go on and the deadlines of requests pass; nobody need
\* read the results of a crawl, and handlers need not return.
FairSpec ==
    /\ Spec
    /\ WaitFairness
    /\ WF_allVars(Crawling(CrawlStep))
    /\ \A r \in Requests :
         WF_allVars(Serving(ServeStep(r))) /\ WF_allVars(Serving(Expire(r)))

TypeOK == WaitTypeOK /\ LockTypeOK /\ CrawlTypeOK /\ ServeTypeOK

\* Whoever waits is served: waiters whose tasks complete, cancelled crawls, and
\* requests with a handler that may never return (waiter.go:163-241,
\* crawler.go:87-91, timeout.go:41-70).
WaitsEnd == CompletionServed /\ CrawlEnds /\ RequestsAnswered
=============================================================================
