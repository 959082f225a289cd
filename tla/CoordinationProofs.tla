------------------------- MODULE CoordinationProofs -------------------------
(***************************************************************************)
(* Theorems of TaskWaiter, DistributedLock, Crawler and RequestLimits, for *)
(* any number of goroutines, tasks, holders, keys, times to live, seeds    *)
(* and requests.                                                           *)
(***************************************************************************)
EXTENDS MCCoordination, FiniteSetTheorems, TLAPS

-----------------------------------------------------------------------------
(***************************************************************************)
(* DistributedLock.  A lease that has not ended is the one dl.locks        *)
(* records: exclusion follows because the map records one lease per key.   *)
(***************************************************************************)
IInv == LockTypeOK /\ LeaseRecorded

LEMMA InitEstablishesIInv == LockInit => IInv
  BY LockAssumption DEF LockInit, IInv, LockTypeOK, LeaseRecorded

\* Whoever may be granted a key, no other holder has a lease on it that runs.
LEMMA GrantKeepsIInv ==
  ASSUME IInv, NEW k \in Keys, NEW h \in Holders, NEW ttl \in TTLs,
         ~Blocked(k, h), Grant(k, h, now + ttl)
  PROVE  IInv'
<1>1. now + ttl \in Nat
  BY LockAssumption DEF IInv, LockTypeOK
<1>2. LockTypeOK'
  BY <1>1 DEF IInv, LockTypeOK, Grant
<1>3. ASSUME NEW j \in Keys, NEW g \in Holders, lease'[j][g] > now'
      PROVE  holder'[j] = g /\ expires'[j] = lease'[j][g]
  <2>1. CASE j = k /\ g = h
    BY <2>1, <1>1 DEF IInv, LockTypeOK, Grant
  <2>2. CASE j = k /\ g # h
    <3>1. lease[k][g] > now
      BY <2>2, <1>3 DEF IInv, LockTypeOK, Grant
    <3>2. holder[k] = g /\ expires[k] > now
      BY <3>1 DEF IInv, LeaseRecorded
    <3>3. Blocked(k, h)
      BY <3>2, <2>2, LockAssumption DEF Blocked
    <3> QED BY <3>3
  <2>3. CASE j # k
    BY <2>3, <1>3 DEF IInv, LockTypeOK, LeaseRecorded, Grant
  <2> QED BY <2>1, <2>2, <2>3
<1> QED BY <1>2, <1>3 DEF IInv, LeaseRecorded

LEMMA StepKeepsIInv == IInv /\ [LockNext]_lockVars => IInv'
<1> SUFFICES ASSUME IInv, [LockNext]_lockVars PROVE IInv'
  OBVIOUS
<1>1. CASE Tick
  BY <1>1 DEF Tick, IInv, LockTypeOK, LeaseRecorded
<1>2. ASSUME NEW k \in Keys, NEW h \in Holders, LockAcquire(k, h) PROVE IInv'
  BY <1>2, GrantKeepsIInv DEF LockAcquire
<1>3. ASSUME NEW k \in Keys, NEW h \in Holders, LockRelease(k, h) PROVE IInv'
  <2>1. LockTypeOK'
    BY <1>3 DEF IInv, LockTypeOK, LockRelease
  <2>2. ASSUME NEW j \in Keys, NEW g \in Holders, lease'[j][g] > now'
        PROVE  holder'[j] = g /\ expires'[j] = lease'[j][g]
    <3>1. ~(j = k /\ g = h) /\ lease[j][g] > now
      BY <1>3, <2>2 DEF IInv, LockTypeOK, LockRelease
    <3>2. holder[j] = g /\ expires[j] = lease[j][g]
      BY <3>1 DEF IInv, LeaseRecorded
    <3> QED BY <1>3, <3>1, <3>2 DEF IInv, LockTypeOK, LockRelease
  <2> QED BY <2>1, <2>2 DEF IInv, LeaseRecorded
<1>4. ASSUME NEW k \in Keys, NEW h \in Holders, LockExtend(k, h) PROVE IInv'
  BY <1>4, GrantKeepsIInv DEF LockExtend, Owned, Blocked
<1>5. CASE UNCHANGED lockVars
  BY <1>5 DEF lockVars, IInv, LockTypeOK, LeaseRecorded
<1> QED BY <1>1, <1>2, <1>3, <1>4, <1>5 DEF LockNext

\* A lease that has not ended is the one dl.locks records (waiter.go:215-265).
THEOREM LeasesRecorded == LockSpec => []IInv
<1>1. LockInit => IInv
  BY InitEstablishesIInv
<1>2. IInv /\ [LockNext]_lockVars => IInv'
  BY StepKeepsIInv
<1> QED BY <1>1, <1>2, PTL DEF LockSpec

\* Two holders never both have a lease on a key that has not ended, whatever late
\* releases, extensions and take-overs there are (waiter.go:221, 242, 257).
THEOREM LeaseIsExclusive == LockSpec => []LeaseExclusive
<1>1. IInv => LeaseExclusive
  BY DEF IInv, LeaseRecorded, LeaseExclusive
<1> QED BY <1>1, LeasesRecorded, PTL

-----------------------------------------------------------------------------
(***************************************************************************)
(* TaskWaiter.  Between the test that sends it to sleep and its place on   *)
(* the notify list a waiter holds tw.mu, so that nothing it waits for is   *)
(* completed there.                                                        *)
(***************************************************************************)
ParkedUnderLock == \A w \in Waiters : at[w] = "park" => ~Satisfied(w)

WaitInv == WaitTypeOK /\ ParkedUnderLock /\ NoMissedCompletion

LEMMA InitWaitInv == WaitInit => WaitInv
BY WaiterAssumption DEF WaitInit, WaitInv, WaitTypeOK, ParkedUnderLock, NoMissedCompletion

LEMMA StepWaitType == WaitTypeOK /\ [WaitNext]_waitVars => WaitTypeOK'
<1> SUFFICES ASSUME WaitTypeOK, [WaitNext]_waitVars PROVE WaitTypeOK'
  OBVIOUS
<1> USE WaiterAssumption DEF WaitTypeOK, GotoAt
<1>1. ASSUME NEW w \in Waiters, Call(w) PROVE WaitTypeOK'
  BY <1>1 DEF Call
<1>2. ASSUME NEW w \in Waiters, Begin(w) PROVE WaitTypeOK'
  BY <1>2 DEF Begin
<1>3. ASSUME NEW w \in Waiters, Test(w) PROVE WaitTypeOK'
  BY <1>3 DEF Test
<1>4. ASSUME NEW w \in Waiters, Park(w) \/ Relock(w) PROVE WaitTypeOK'
  BY <1>4 DEF Park, Relock
<1>5. ASSUME NEW w \in Waiters, ContextDone(w) PROVE WaitTypeOK'
  BY <1>5 DEF ContextDone
<1>6. ASSUME NEW w \in Waiters, WatcherBroadcast(w) PROVE WaitTypeOK'
  BY <1>6 DEF WatcherBroadcast, Woken
<1>7. ASSUME NEW m \in Markers, Mark(m) PROVE WaitTypeOK'
  BY <1>7 DEF Mark
<1>8. ASSUME NEW m \in Markers, MarkBroadcast(m) PROVE WaitTypeOK'
  BY <1>8 DEF MarkBroadcast, Woken
<1>9. ASSUME NEW id \in TaskIDs, Reset(id) PROVE WaitTypeOK'
  BY <1>9 DEF Reset
<1>10. CASE UNCHANGED waitVars
  BY <1>10 DEF waitVars
<1> QED BY <1>1, <1>2, <1>3, <1>4, <1>5, <1>6, <1>7, <1>8, <1>9, <1>10 DEF WaitNext, WaitStep

LEMMA StepWaitInv == WaitInv /\ [WaitNext]_waitVars => WaitInv'
<1> SUFFICES ASSUME WaitInv, [WaitNext]_waitVars PROVE WaitInv'
  OBVIOUS
<1>0. WaitTypeOK /\ WaitTypeOK'
  BY StepWaitType DEF WaitInv
<1> DEFINE Safe == ParkedUnderLock /\ NoMissedCompletion
<1> USE WaiterAssumption DEF WaitInv, ParkedUnderLock, NoMissedCompletion, GotoAt, Satisfied
<1>1. ASSUME NEW w \in Waiters, Call(w) PROVE Safe'
  BY <1>0, <1>1 DEF Call, WaitTypeOK
<1>2. ASSUME NEW w \in Waiters, Begin(w) PROVE Safe'
  BY <1>0, <1>2 DEF Begin, WaitTypeOK
<1>3. ASSUME NEW w \in Waiters, Test(w) PROVE Safe'
  BY <1>0, <1>3 DEF Test, WaitTypeOK
<1>4. ASSUME NEW w \in Waiters, Park(w) PROVE Safe'
  BY <1>0, <1>4 DEF Park, WaitTypeOK
<1>5. ASSUME NEW w \in Waiters, Relock(w) PROVE Safe'
  BY <1>0, <1>5 DEF Relock, WaitTypeOK
<1>6. ASSUME NEW w \in Waiters, ContextDone(w) PROVE Safe'
  BY <1>6 DEF ContextDone
<1>7. ASSUME NEW w \in Waiters, WatcherBroadcast(w) PROVE Safe'
  BY <1>0, <1>7 DEF WatcherBroadcast, Woken, WaitTypeOK
<1>8. ASSUME NEW m \in Markers, Mark(m) PROVE Safe'
  \* tw.mu is free: nobody is between the test and the notify list.
  BY <1>0, <1>8 DEF Mark, WaitTypeOK
<1>9. ASSUME NEW m \in Markers, MarkBroadcast(m) PROVE Safe'
  BY <1>0, <1>9 DEF MarkBroadcast, Woken, WaitTypeOK
<1>10. ASSUME NEW id \in TaskIDs, Reset(id) PROVE Safe'
  BY <1>0, <1>10 DEF Reset, WaitTypeOK
<1>11. ASSUME UNCHANGED waitVars PROVE Safe'
  BY <1>11 DEF waitVars
<1>12. Safe'
  BY <1>1, <1>2, <1>3, <1>4, <1>5, <1>6, <1>7, <1>8, <1>9, <1>10, <1>11 DEF WaitNext, WaitStep
<1> QED BY <1>0, <1>12

\* No waiter sleeps through the completion of what it waits for: a MarkComplete is then
\* about to broadcast (waiter.go:63-69, 163-169).
THEOREM CompletionsAreSeen == WaitSpec => []NoMissedCompletion
<1>1. WaitInv => NoMissedCompletion
  BY DEF WaitInv
<1> QED BY <1>1, InitWaitInv, StepWaitInv, PTL DEF WaitSpec

-----------------------------------------------------------------------------
(***************************************************************************)
(* Crawler.  c.visited holds exactly the seeds that a goroutine claimed,   *)
(* each claimed once, and a goroutine that was not cancelled has delivered *)
(* its result when it releases its slot.                                   *)
(***************************************************************************)
Claimed(g) == fetcher[g] \notin {"none", "skipped"}
URL(g) == Seeds[g[2]]
Begun(g) == g[2] < position[g[1]]

StartedInOrder == \A g \in Goroutines : fetcher[g] = "none" <=> ~Begun(g)
ClaimedOnce ==
    /\ \A g, h \in Goroutines : Claimed(g) /\ Claimed(h) /\ URL(g) = URL(h) => g = h
    /\ \A g \in Goroutines : Claimed(g) \/ fetcher[g] = "skipped" => URL(g) \in visited
    /\ \A url \in visited : \E g \in Goroutines : Claimed(g) /\ URL(g) = url
Delivered == \A g \in Goroutines :
    fetcher[g] \in {"release", "finish", "done"} /\ g[1] \notin crawlCancelled =>
        g[2] \in pages[g[1]] \cup read[g[1]]
AllOver == \A q \in pagesClosed :
    /\ position[q] = Len(Seeds) + 1
    /\ \A i \in DOMAIN Seeds : fetcher[<<q, i>>] \in {"skipped", "done"}

FetchLabels == {"none", "skipped", "begin", "acquire", "fetch", "send", "release", "finish", "done"}
CrawlShape ==
    /\ visited \subseteq URLs /\ pagesClosed \subseteq Crawls /\ crawlCancelled \subseteq Crawls
    /\ position \in [Crawls -> 1..(Len(Seeds) + 1)]
    /\ fetcher \in [Goroutines -> FetchLabels]
    /\ pages \in [Crawls -> SUBSET DOMAIN Seeds] /\ read \in [Crawls -> SUBSET DOMAIN Seeds]
    /\ fetching \in [Crawls -> Int]

Fetching(q) == {i \in DOMAIN Seeds : fetcher[<<q, i>>] \in {"fetch", "send", "release"}}
SlotsCounted == \A q \in Crawls :
    /\ fetching[q] = Cardinality(Fetching(q)) /\ fetching[q] <= MaxFetches
    /\ Cardinality(pages[q]) <= ResultsSize

ClaimInv == CrawlShape /\ StartedInOrder /\ ClaimedOnce /\ Delivered /\ AllOver
CrawlInv == ClaimInv /\ SlotsCounted

LEMMA SeedsShape ==
    /\ Len(Seeds) \in Nat /\ DOMAIN Seeds = 1..Len(Seeds)
    /\ \A i \in DOMAIN Seeds : Seeds[i] \in URLs
BY CrawlerAssumption

LEMMA GoroutineParts == \A g \in Goroutines :
    g[1] \in Crawls /\ g[2] \in DOMAIN Seeds /\ g = <<g[1], g[2]>>
BY DEF Goroutines

LEMMA InitClaimInv == CrawlInit => ClaimInv
BY SeedsShape, GoroutineParts
   DEF CrawlInit, ClaimInv, CrawlShape, FetchLabels, StartedInOrder, Begun, ClaimedOnce, Claimed,
       Delivered, AllOver

\* A goroutine goes from label to label; none comes to be and none goes.
LEMMA FetcherMoves ==
    ASSUME ClaimInv, NEW g \in Goroutines, NEW l \in FetchLabels \ {"none", "skipped"},
           FetcherAt(g, l), fetcher[g] \notin {"none", "skipped", "done"},
           UNCHANGED <<visited, position, read, pagesClosed, crawlCancelled>>,
           l \in {"release", "finish"} /\ g[1] \notin crawlCancelled =>
               g[2] \in pages'[g[1]] \cup read[g[1]],
           l # "done" \/ fetcher[g] = "finish",
           pages' \in [Crawls -> SUBSET DOMAIN Seeds],
           \A q \in Crawls : pages[q] \subseteq pages'[q],
           fetching' \in [Crawls -> Int]
    PROVE  ClaimInv'
<1>1. fetcher' \in [Goroutines -> FetchLabels] /\ fetcher'[g] = l
      /\ \A h \in Goroutines \ {g} : fetcher'[h] = fetcher[h]
  BY DEF FetcherAt, ClaimInv, CrawlShape
<1>2. CrawlShape'
  BY <1>1 DEF ClaimInv, CrawlShape
<1>3. StartedInOrder'
  BY <1>1 DEF ClaimInv, StartedInOrder, Begun
<1>4. ClaimedOnce'
  <2>1. \A h \in Goroutines : Claimed(h)' <=> Claimed(h)
    BY <1>1 DEF Claimed
  <2>2. \A h \in Goroutines : fetcher'[h] = "skipped" <=> fetcher[h] = "skipped"
    BY <1>1
  <2> QED BY <2>1, <2>2 DEF ClaimInv, ClaimedOnce, URL
<1>5. Delivered'
  BY <1>1, GoroutineParts DEF ClaimInv, Delivered
<1>6. AllOver'
  BY <1>1 DEF ClaimInv, AllOver, CrawlShape, Goroutines
<1> QED BY <1>2, <1>3, <1>4, <1>5, <1>6 DEF ClaimInv

LEMMA StepClaimInv == ClaimInv /\ [CrawlNext]_crawlVars => ClaimInv'
<1> SUFFICES ASSUME ClaimInv, [CrawlNext]_crawlVars PROVE ClaimInv'
  OBVIOUS
<1> USE SeedsShape, GoroutineParts
<1>1. ASSUME NEW q \in Crawls, CrawlURL(q) PROVE ClaimInv'
  <2> DEFINE i == position[q]
             g == <<q, i>>
             url == Seeds[i]
  <2>1. i \in DOMAIN Seeds /\ g \in Goroutines /\ g[1] = q /\ g[2] = i /\ fetcher[g] = "none" /\ url \in URLs
    BY <1>1 DEF CrawlURL, ClaimInv, CrawlShape, StartedInOrder, Begun, Goroutines
  <2>2. /\ fetcher'[g] = IF url \in visited THEN "skipped" ELSE "begin"
        /\ \A h \in Goroutines \ {g} : fetcher'[h] = fetcher[h]
        /\ fetcher' \in [Goroutines -> FetchLabels]
    BY <1>1, <2>1 DEF CrawlURL, FetcherAt, ClaimInv, CrawlShape, FetchLabels
  <2>3. /\ position' = [position EXCEPT ![q] = i + 1] /\ visited' = visited \cup {url}
        /\ UNCHANGED <<fetching, pages, read, pagesClosed, crawlCancelled>>
    BY <1>1 DEF CrawlURL
  <2>4. CrawlShape'
    BY <2>1, <2>2, <2>3 DEF ClaimInv, CrawlShape
  <2>5. StartedInOrder'
    <3> SUFFICES ASSUME NEW h \in Goroutines PROVE fetcher'[h] = "none" <=> ~(h[2] < position'[h[1]])
      BY DEF StartedInOrder, Begun
    <3>1. (fetcher[h] = "none" <=> ~(h[2] < position[h[1]])) /\ position[q] \in Int /\ h[2] \in Int
      BY DEF ClaimInv, StartedInOrder, Begun, CrawlShape
    <3>2. CASE h = g
      BY <2>1, <2>2, <2>3, <3>1, <3>2 DEF ClaimInv, CrawlShape
    <3>3. CASE h # g /\ h[1] = q
      <4>1. h[2] # i
        BY <3>3
      <4>2. position'[h[1]] = i + 1 /\ fetcher'[h] = fetcher[h]
        BY <2>2, <2>3, <3>3 DEF ClaimInv, CrawlShape
      <4> QED BY <3>1, <3>3, <4>1, <4>2
    <3>4. CASE h[1] # q
      <4>1. position'[h[1]] = position[h[1]] /\ fetcher'[h] = fetcher[h]
        BY <2>1, <2>2, <2>3, <3>4 DEF ClaimInv, CrawlShape
      <4> QED BY <3>1, <4>1
    <3> QED BY <3>2, <3>3, <3>4
  <2>6. ClaimedOnce'
    <3>1. CASE url \in visited
      <4>1. \A h \in Goroutines : Claimed(h)' <=> Claimed(h)
        BY <2>1, <2>2, <3>1 DEF Claimed
      <4> QED BY <2>1, <2>2, <2>3, <3>1, <4>1 DEF ClaimInv, ClaimedOnce, URL
    <3>2. CASE url \notin visited
      <4>1. \A h \in Goroutines : Claimed(h)' <=> Claimed(h) \/ h = g
        BY <2>1, <2>2, <3>2 DEF Claimed
      <4>2. \A h \in Goroutines : Claimed(h) => URL(h) # url
        BY <3>2 DEF ClaimInv, ClaimedOnce
      <4>3. URL(g) = url
        BY <2>1 DEF URL
      <4> QED BY <2>1, <2>2, <2>3, <4>1, <4>2, <4>3 DEF ClaimInv, ClaimedOnce, URL
    <3> QED BY <3>1, <3>2
  <2>7. Delivered'
    BY <2>1, <2>2, <2>3 DEF ClaimInv, Delivered
  <2>8. AllOver'
    BY <2>1, <2>2, <2>3 DEF ClaimInv, AllOver, CrawlShape, Goroutines
  <2> QED BY <2>4, <2>5, <2>6, <2>7, <2>8 DEF ClaimInv
<1>2. ASSUME NEW g \in Goroutines, CheckContext(g) PROVE ClaimInv'
  BY <1>2, FetcherMoves DEF CheckContext, FetchLabels, ClaimInv, CrawlShape
<1>3. ASSUME NEW g \in Goroutines, AcquireFetch(g) PROVE ClaimInv'
  <2>1. fetching' \in [Crawls -> Int]
    BY <1>3 DEF AcquireFetch, ClaimInv, CrawlShape
  <2> QED BY <1>3, <2>1, FetcherMoves DEF AcquireFetch, FetchLabels, ClaimInv, CrawlShape
<1>4. ASSUME NEW g \in Goroutines, GiveUp(g) PROVE ClaimInv'
  BY <1>4, FetcherMoves DEF GiveUp, FetchLabels, ClaimInv, CrawlShape
<1>5. ASSUME NEW g \in Goroutines, Fetched(g) PROVE ClaimInv'
  BY <1>5, FetcherMoves DEF Fetched, FetchLabels, ClaimInv, CrawlShape
<1>6. ASSUME NEW g \in Goroutines, SendPage(g) PROVE ClaimInv'
  <2>1. /\ pages' \in [Crawls -> SUBSET DOMAIN Seeds] /\ g[2] \in pages'[g[1]]
        /\ \A q \in Crawls : pages[q] \subseteq pages'[q]
    BY <1>6 DEF SendPage, ClaimInv, CrawlShape
  <2> QED BY <1>6, <2>1, FetcherMoves DEF SendPage, FetchLabels, ClaimInv, CrawlShape
<1>7. ASSUME NEW g \in Goroutines, ReleaseFetch(g) PROVE ClaimInv'
  <2>1. fetching' \in [Crawls -> Int]
    BY <1>7 DEF ReleaseFetch, ClaimInv, CrawlShape
  <2>2. g[1] \notin crawlCancelled => g[2] \in pages[g[1]] \cup read[g[1]]
    BY <1>7 DEF ReleaseFetch, ClaimInv, Delivered
  <2> QED BY <1>7, <2>1, <2>2, FetcherMoves DEF ReleaseFetch, FetchLabels, ClaimInv, CrawlShape
<1>8. ASSUME NEW g \in Goroutines, Finish(g) PROVE ClaimInv'
  BY <1>8, FetcherMoves DEF Finish, FetchLabels, ClaimInv, CrawlShape
<1>9. ASSUME NEW q \in Crawls, ClosePages(q) PROVE ClaimInv'
  BY <1>9 DEF ClosePages, ClaimInv, CrawlShape, StartedInOrder, Begun, ClaimedOnce, Claimed, URL,
              Delivered, AllOver
<1>10. ASSUME NEW q \in Crawls, ReadPage(q) PROVE ClaimInv'
  <2>1. /\ pages' \in [Crawls -> SUBSET DOMAIN Seeds] /\ read' \in [Crawls -> SUBSET DOMAIN Seeds]
        /\ \A c \in Crawls : pages[c] \cup read[c] \subseteq pages'[c] \cup read'[c]
    BY <1>10 DEF ReadPage, ClaimInv, CrawlShape
  <2>2. UNCHANGED <<visited, position, fetching, fetcher, pagesClosed, crawlCancelled>>
    BY <1>10 DEF ReadPage
  <2>3. Delivered'
    BY <2>1, <2>2 DEF ClaimInv, Delivered
  <2> QED BY <2>1, <2>2, <2>3 DEF ClaimInv, CrawlShape, StartedInOrder, Begun, ClaimedOnce, Claimed, URL, AllOver
<1>11. ASSUME NEW q \in Crawls, CancelCrawl(q) PROVE ClaimInv'
  BY <1>11 DEF CancelCrawl, ClaimInv, CrawlShape, StartedInOrder, Begun, ClaimedOnce, Claimed, URL,
               Delivered, AllOver
<1>12. CASE UNCHANGED crawlVars
  BY <1>12 DEF crawlVars, ClaimInv, CrawlShape, StartedInOrder, Begun, ClaimedOnce, Claimed, URL,
               Delivered, AllOver
<1> QED BY <1>1, <1>2, <1>3, <1>4, <1>5, <1>6, <1>7, <1>8, <1>9, <1>10, <1>11, <1>12 DEF CrawlNext, CrawlStep

\* A call that has closed its results has left no goroutine behind; and unless it was
\* cancelled, each of its seeds was claimed by one goroutine, of whichever call, whose
\* result, if it was its own, has been delivered (crawler.go:75-133).
THEOREM CrawlsAreComplete == CrawlSpec => []CrawlComplete
<1>1. ClaimInv => CrawlComplete
  <2> SUFFICES ASSUME ClaimInv, NEW q \in pagesClosed, q \notin crawlCancelled, NEW i \in DOMAIN Seeds
               PROVE  \E g \in Goroutines :
                        /\ {h \in Goroutines : Seeds[h[2]] = Seeds[i] /\ fetcher[h] \notin {"none", "skipped"}} = {g}
                        /\ g[1] = q => g[2] \in pages[q] \cup read[q]
    BY DEF CrawlComplete, ClaimInv, AllOver
  <2>1. <<q, i>> \in Goroutines /\ fetcher[<<q, i>>] \in {"skipped", "done"}
    BY DEF ClaimInv, AllOver, CrawlShape, Goroutines
  <2>2. Seeds[i] \in visited
    BY <2>1 DEF ClaimInv, ClaimedOnce, Claimed, URL
  <2>3. PICK g \in Goroutines : Claimed(g) /\ URL(g) = Seeds[i]
    BY <2>2 DEF ClaimInv, ClaimedOnce
  <2>4. {h \in Goroutines : Seeds[h[2]] = Seeds[i] /\ fetcher[h] \notin {"none", "skipped"}} = {g}
    BY <2>3 DEF ClaimInv, ClaimedOnce, Claimed, URL
  <2>5. g[1] = q => g[2] \in pages[q] \cup read[q]
    <3> SUFFICES ASSUME g[1] = q PROVE g[2] \in pages[q] \cup read[q]
      OBVIOUS
    <3>1. fetcher[g] = "done"
      BY <2>3, GoroutineParts DEF ClaimInv, AllOver, Claimed
    <3> QED BY <3>1 DEF ClaimInv, Delivered
  <2> QED BY <2>4, <2>5
<1> QED BY <1>1, InitClaimInv, StepClaimInv, PTL DEF CrawlSpec

\* One more element counts one more.
LEMMA AnotherSeed ==
    ASSUME NEW S, IsFiniteSet(S), NEW x, x \notin S
    PROVE  Cardinality(S \cup {x}) = Cardinality(S) + 1
  BY FS_AddElement

\* A set of seeds is finite, and has a size.
LEMMA SetsOfSeeds == \A S \in SUBSET DOMAIN Seeds : IsFiniteSet(S) /\ Cardinality(S) \in Nat
<1> SUFFICES ASSUME NEW S \in SUBSET DOMAIN Seeds PROVE IsFiniteSet(S) /\ Cardinality(S) \in Nat
  OBVIOUS
<1>1. IsFiniteSet(1..Len(Seeds))
  BY SeedsShape, FS_Interval
<1>2. IsFiniteSet(S)
  BY <1>1, SeedsShape, FS_Subset
<1> QED BY <1>2, FS_CardinalityType

\* The semaphore of a call counts its goroutines that fetch, and the channel of its
\* results never holds more than its capacity.
LEMMA FetchingUnchanged ==
    ASSUME ClaimInv, SlotsCounted, UNCHANGED fetching,
           \A g \in Goroutines :
               fetcher'[g] \in {"fetch", "send", "release"} <=> fetcher[g] \in {"fetch", "send", "release"},
           \A q \in Crawls : Cardinality(pages'[q]) <= ResultsSize
    PROVE  SlotsCounted'
<1>1. \A q \in Crawls : Fetching(q)' = Fetching(q)
  BY DEF Fetching, Goroutines
<1> QED BY <1>1 DEF SlotsCounted

LEMMA InitSlotsCounted == CrawlInit => SlotsCounted
<1> SUFFICES ASSUME CrawlInit, NEW q \in Crawls
             PROVE  /\ fetching[q] = Cardinality(Fetching(q)) /\ fetching[q] <= MaxFetches
                    /\ Cardinality(pages[q]) <= ResultsSize
  BY DEF SlotsCounted
<1>1. Fetching(q) = {} /\ fetching[q] = 0 /\ pages[q] = {}
  BY DEF CrawlInit, Fetching, Goroutines
<1> QED BY <1>1, FS_EmptySet, CrawlerAssumption

LEMMA StepSlotsCounted == CrawlInv /\ [CrawlNext]_crawlVars => SlotsCounted'
<1> SUFFICES ASSUME CrawlInv, [CrawlNext]_crawlVars PROVE SlotsCounted'
  OBVIOUS
<1> USE GoroutineParts DEF CrawlInv
<1>0. fetcher \in [Goroutines -> FetchLabels] /\ fetching \in [Crawls -> Int]
      /\ pages \in [Crawls -> SUBSET DOMAIN Seeds]
      /\ \A q \in Crawls : Cardinality(pages[q]) <= ResultsSize
  BY DEF ClaimInv, CrawlShape, SlotsCounted
<1>1. ASSUME NEW q \in Crawls, CrawlURL(q) PROVE SlotsCounted'
  <2>1. position[q] \in DOMAIN Seeds /\ fetcher[<<q, position[q]>>] = "none"
    BY <1>1, SeedsShape DEF CrawlURL, ClaimInv, CrawlShape, StartedInOrder, Begun, Goroutines
  <2> QED BY <1>0, <1>1, <2>1, FetchingUnchanged DEF CrawlURL, FetcherAt, Goroutines
<1>2. ASSUME NEW g \in Goroutines, CheckContext(g) \/ Fetched(g) \/ GiveUp(g) \/ Finish(g) PROVE SlotsCounted'
  BY <1>0, <1>2, FetchingUnchanged DEF CheckContext, Fetched, GiveUp, Finish, FetcherAt
<1>3. ASSUME NEW g \in Goroutines, AcquireFetch(g) PROVE SlotsCounted'
  <2> DEFINE c == g[1]
  <2>1. fetcher[g] = "acquire" /\ fetcher'[g] = "fetch"
        /\ \A h \in Goroutines \ {g} : fetcher'[h] = fetcher[h]
    BY <1>0, <1>3 DEF AcquireFetch, FetcherAt
  <2>2. /\ fetching[c] < MaxFetches /\ fetching'[c] = fetching[c] + 1 /\ pages' = pages
        /\ \A q \in Crawls \ {c} : fetching'[q] = fetching[q]
    BY <1>0, <1>3 DEF AcquireFetch
  <2>3. /\ Fetching(c)' = Fetching(c) \cup {g[2]} /\ g[2] \notin Fetching(c)
        /\ \A q \in Crawls \ {c} : Fetching(q)' = Fetching(q)
    BY <2>1 DEF Fetching, Goroutines
  <2>4. IsFiniteSet(Fetching(c)) /\ Cardinality(Fetching(c)) \in Nat
    BY SetsOfSeeds DEF Fetching
  <2>a. c \in Crawls /\ SlotsCounted
    BY DEF Goroutines
  <2> HIDE DEF CrawlInv
  <2>5. Cardinality(Fetching(c)') = Cardinality(Fetching(c)) + 1
    BY <2>3, <2>4, AnotherSeed
  <2>6. fetching[c] = Cardinality(Fetching(c))
    BY <2>a DEF SlotsCounted
  <2>7. ASSUME NEW q \in Crawls
        PROVE  fetching'[q] = Cardinality(Fetching(q)') /\ fetching'[q] <= MaxFetches
    <3>1. CASE q = c
      BY <2>2, <2>4, <2>5, <2>6, <3>1, CrawlerAssumption
    <3>2. CASE q # c
      BY <2>a, <2>2, <2>3, <3>2 DEF SlotsCounted
    <3> QED BY <3>1, <3>2
  <2> QED BY <1>0, <2>2, <2>7 DEF SlotsCounted
<1>4. ASSUME NEW g \in Goroutines, SendPage(g) PROVE SlotsCounted'
  <2>1. IsFiniteSet(pages[g[1]]) /\ Cardinality(pages[g[1]]) \in Nat
    BY <1>0, SetsOfSeeds
  <2>2. Cardinality(pages[g[1]] \cup {g[2]}) <= ResultsSize
    <3>1. Cardinality(pages[g[1]]) < ResultsSize /\ ResultsSize \in Nat
      BY <1>4, CrawlerAssumption DEF SendPage
    <3>2. Cardinality(pages[g[1]] \cup {g[2]}) \in {Cardinality(pages[g[1]]), Cardinality(pages[g[1]]) + 1}
      BY <2>1, FS_AddElement
    <3> QED BY <2>1, <3>1, <3>2
  <2>3. \A q \in Crawls : pages'[q] = IF q = g[1] THEN pages[q] \cup {g[2]} ELSE pages[q]
    BY <1>0, <1>4 DEF SendPage
  <2> QED BY <1>0, <1>4, <2>2, <2>3, FetchingUnchanged DEF SendPage, FetcherAt
<1>5. ASSUME NEW g \in Goroutines, ReleaseFetch(g) PROVE SlotsCounted'
  <2> DEFINE c == g[1]
  <2>1. fetcher[g] = "release" /\ fetcher'[g] = "finish"
        /\ \A h \in Goroutines \ {g} : fetcher'[h] = fetcher[h]
    BY <1>0, <1>5 DEF ReleaseFetch, FetcherAt
  <2>2. /\ fetching'[c] = fetching[c] - 1 /\ pages' = pages
        /\ \A q \in Crawls \ {c} : fetching'[q] = fetching[q]
    BY <1>0, <1>5 DEF ReleaseFetch
  <2>3. /\ Fetching(c)' = Fetching(c) \ {g[2]} /\ g[2] \in Fetching(c)
        /\ \A q \in Crawls \ {c} : Fetching(q)' = Fetching(q)
    BY <2>1 DEF Fetching, Goroutines
  <2>4. IsFiniteSet(Fetching(c)) /\ Cardinality(Fetching(c)) \in Nat
    BY SetsOfSeeds DEF Fetching
  <2>5. Cardinality(Fetching(c)') = Cardinality(Fetching(c)) - 1
    <3>1. Cardinality(Fetching(c) \ {g[2]}) = Cardinality(Fetching(c)) - 1
      BY ONLY <2>3, <2>4, FS_RemoveElement
    <3> QED BY <2>3, <3>1
  <2>6. fetching[c] = Cardinality(Fetching(c))
    BY DEF SlotsCounted
  <2>7. ASSUME NEW q \in Crawls
        PROVE  fetching'[q] = Cardinality(Fetching(q)') /\ fetching'[q] <= MaxFetches
    <3>1. CASE q = c
      BY <2>2, <2>4, <2>5, <2>6, <3>1, CrawlerAssumption DEF SlotsCounted
    <3>2. CASE q # c
      BY <2>2, <2>3, <3>2 DEF SlotsCounted
    <3> QED BY <3>1, <3>2
  <2> QED BY <1>0, <2>2, <2>7 DEF SlotsCounted
<1>6. ASSUME NEW q \in Crawls, ClosePages(q) \/ CancelCrawl(q) PROVE SlotsCounted'
  BY <1>0, <1>6, FetchingUnchanged DEF ClosePages, CancelCrawl
<1>7. ASSUME NEW q \in Crawls, ReadPage(q) PROVE SlotsCounted'
  <2>1. PICK i \in pages[q] : pages' = [pages EXCEPT ![q] = @ \ {i}]
    BY <1>7 DEF ReadPage
  <2>2. Cardinality(pages[q] \ {i}) <= ResultsSize
    <3>1. pages[q] \in SUBSET DOMAIN Seeds /\ Cardinality(pages[q]) <= ResultsSize /\ ResultsSize \in Nat
      BY <1>0, CrawlerAssumption
    <3>2. IsFiniteSet(pages[q]) /\ Cardinality(pages[q]) \in Nat
      BY <3>1, SetsOfSeeds
    <3>3. Cardinality(pages[q] \ {i}) <= Cardinality(pages[q]) /\ Cardinality(pages[q] \ {i}) \in Nat
      BY <3>1, <3>2, SetsOfSeeds, FS_Subset
    <3> QED BY <3>1, <3>2, <3>3
  <2>3. \A c \in Crawls : pages'[c] = IF c = q THEN pages[q] \ {i} ELSE pages[c]
    BY <1>0, <2>1
  <2> QED BY <1>0, <1>7, <2>2, <2>3, FetchingUnchanged DEF ReadPage
<1>8. CASE UNCHANGED crawlVars
  BY <1>0, <1>8, FetchingUnchanged DEF crawlVars
<1> QED BY <1>1, <1>2, <1>3, <1>4, <1>5, <1>6, <1>7, <1>8 DEF CrawlNext, CrawlStep

LEMMA CrawlInvTypes == CrawlInv => CrawlTypeOK
BY DEF CrawlInv, ClaimInv, CrawlShape, SlotsCounted, Fetching, FetchLabels, CrawlTypeOK

-----------------------------------------------------------------------------
(***************************************************************************)
(* RequestLimits.  What holds a slot is finite, however many requests      *)
(* there are: it was counted.                                              *)
(***************************************************************************)
SlotOwners == {r \in Requests : request[r] \in {"select", "leave", "unwind"}}
ServeInv == ServeTypeOK /\ IsFiniteSet(SlotOwners)

LEMMA InitServeInv == ServeInit => ServeInv
<1> SUFFICES ASSUME ServeInit PROVE ServeInv
  OBVIOUS
<1>1. SlotOwners = {}
  BY DEF ServeInit, SlotOwners
<1> QED BY <1>1, FS_EmptySet, LimitAssumption DEF ServeInit, ServeInv, ServeTypeOK, SlotOwners

LEMMA StepServeInv == ServeInv /\ [ServeNext]_serveVars => ServeInv'
<1> SUFFICES ASSUME ServeInv, [ServeNext]_serveVars PROVE ServeInv'
  OBVIOUS
<1> DEFINE Shape == /\ request \in [Requests -> {"new", "select", "leave", "unwind", "recover", "end"}]
                    /\ handler \in [Requests -> {"none", "running", "recovered", "done"}]
                    /\ answer \in [Requests -> {"none", "tooMany", "handlers", "timedOut", "internalError"}]
                    /\ panicChan \subseteq Requests /\ expired \subseteq Requests
           Counted == IsFiniteSet(SlotOwners) /\ slots = Cardinality(SlotOwners) /\ slots <= Limit
<1> USE LimitAssumption DEF RequestAt, HandlerAt, Answer
<1>0. Shape /\ Counted /\ slots \in Nat
  BY FS_CardinalityType DEF ServeInv, ServeTypeOK, SlotOwners
<1>1. ASSUME NEW r \in Requests, Admit(r) PROVE Shape' /\ Counted'
  <2>1. Shape' /\ SlotOwners' = SlotOwners \cup {r} /\ r \notin SlotOwners
    BY <1>0, <1>1 DEF Admit, SlotOwners
  <2>2. IsFiniteSet(SlotOwners') /\ Cardinality(SlotOwners') = Cardinality(SlotOwners) + 1
    BY <1>0, <2>1, FS_AddElement
  <2> QED BY <1>0, <1>1, <2>1, <2>2 DEF Admit
<1>2. ASSUME NEW r \in Requests, ReturnSlot(r) PROVE Shape' /\ Counted'
  <2>1. Shape' /\ SlotOwners' = SlotOwners \ {r} /\ r \in SlotOwners
    BY <1>0, <1>2 DEF ReturnSlot, SlotOwners
  <2>2. IsFiniteSet(SlotOwners') /\ Cardinality(SlotOwners') = Cardinality(SlotOwners) - 1
    BY <1>0, <2>1, FS_RemoveElement
  <2> QED BY <1>0, <1>2, <2>1, <2>2 DEF ReturnSlot
<1>3. ASSUME NEW r \in Requests,
             Reject(r) \/ HandlerReturns(r) \/ HandlerPanics(r) \/ HandlerCloses(r) \/ Expire(r)
             \/ TakePanic(r) \/ CopyAnswer(r) \/ AnswerTimeout(r) \/ Recover(r)
      PROVE  Shape' /\ Counted'
  <2>1. Shape' /\ UNCHANGED slots
    BY <1>0, <1>3 DEF Reject, HandlerReturns, HandlerPanics, HandlerCloses, Expire, TakePanic,
                      CopyAnswer, AnswerTimeout, Recover
  <2>2. SlotOwners' = SlotOwners
    BY <1>0, <1>3 DEF Reject, HandlerReturns, HandlerPanics, HandlerCloses, Expire, TakePanic,
                      CopyAnswer, AnswerTimeout, Recover, SlotOwners
  <2> QED BY <1>0, <2>1, <2>2
<1>4. ASSUME UNCHANGED serveVars PROVE Shape' /\ Counted'
  BY <1>0, <1>4 DEF serveVars, SlotOwners
<1>5. Shape' /\ Counted'
  BY <1>1, <1>2, <1>3, <1>4 DEF ServeNext, ServeStep
<1> QED BY <1>5 DEF ServeInv, ServeTypeOK, SlotOwners

-----------------------------------------------------------------------------
(***************************************************************************)
(* The four together: a step is one of theirs or leaves them alone.        *)
(***************************************************************************)
PartsInv == WaitInv /\ IInv /\ CrawlInv /\ ServeInv

\* The variables of the four stay in their types, tw.mu is held exactly between the
\* lock and the notify list, and every semaphore counts those who hold a slot of it
\* (waiter.go:40-160, crawler.go:80-110, concurrency.go:17-22).
THEOREM CoordinationTypes == Spec => []TypeOK
<1>1. Init => PartsInv
  BY InitWaitInv, InitEstablishesIInv, InitClaimInv, InitSlotsCounted, InitServeInv
     DEF Init, PartsInv, CrawlInv
<1>2. PartsInv /\ [Next]_allVars => PartsInv'
  <2> SUFFICES ASSUME PartsInv, [Next]_allVars PROVE PartsInv'
    OBVIOUS
  <2>1. [WaitNext]_waitVars /\ [LockNext]_lockVars /\ [CrawlNext]_crawlVars /\ [ServeNext]_serveVars
    BY DEF Next, Only, Crawling, Serving, allVars
  <2> QED BY <2>1, StepWaitInv, StepKeepsIInv, StepClaimInv, StepSlotsCounted, StepServeInv
          DEF PartsInv, CrawlInv
<1>3. PartsInv => TypeOK
  BY CrawlInvTypes DEF PartsInv, WaitInv, IInv, ServeInv, TypeOK
<1> QED BY <1>1, <1>2, <1>3, PTL DEF Spec
=============================================================================
