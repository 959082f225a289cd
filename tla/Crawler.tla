------------------------------ MODULE Crawler ------------------------------
(***************************************************************************)
(* stage1/03-web-crawler/crawler/crawler.go: calls of Crawl on one Crawler *)
(* share the visited URLs; each has its own semaphore, WaitGroup, context  *)
(* and channel of results.  A goroutine stands for the seed it was started *)
(* for, <<call, position in the list of seeds>>.                           *)
(***************************************************************************)
EXTENDS Integers, Sequences, FiniteSets

CONSTANTS
    Crawls,        \* calls of Crawl
    URLs,
    Seeds,         \* seedURLs of every call, possibly with repetitions
    MaxFetches,    \* maxWorkers
    ResultsSize    \* capacity of the channel of results

ASSUME CrawlerAssumption ==
    Seeds \in Seq(URLs) /\ {MaxFetches, ResultsSize} \subseteq Nat \ {0}

VARIABLES
    visited,        \* c.visited
    position,       \* of a call: the seed it looks at next
    fetching,       \* len(semaphore) of a call
    fetcher,        \* where the goroutine for a seed is
    pages,          \* the results of a call in its channel
    read,           \* the results of a call its consumer has taken
    pagesClosed,    \* the calls whose channel of results is closed
    crawlCancelled  \* the calls whose context is done

crawlVars == <<visited, position, fetching, fetcher, pages, read, pagesClosed, crawlCancelled>>

Goroutines == Crawls \X DOMAIN Seeds

CrawlInit ==
    /\ visited = {} /\ pagesClosed = {} /\ crawlCancelled = {}
    /\ position = [q \in Crawls |-> 1]
    /\ fetching = [q \in Crawls |-> 0]
    /\ pages = [q \in Crawls |-> {}] /\ read = [q \in Crawls |-> {}]
    /\ fetcher = [g \in Goroutines |-> "none"]

FetcherAt(g, label) == fetcher' = [fetcher EXCEPT ![g] = label]

\* crawlURL: LoadOrStore of the next seed, then wg.Add(1) and the go statement.
CrawlURL(q) ==
    /\ position[q] <= Len(Seeds)
    /\ LET url == Seeds[position[q]] IN
         /\ FetcherAt(<<q, position[q]>>, IF url \in visited THEN "skipped" ELSE "begin")
         /\ visited' = visited \cup {url}
    /\ position' = [position EXCEPT ![q] = @ + 1]
    /\ UNCHANGED <<fetching, pages, read, pagesClosed, crawlCancelled>>

\* The check of the context before the semaphore.
CheckContext(g) ==
    /\ fetcher[g] = "begin"
    /\ FetcherAt(g, IF g[1] \in crawlCancelled THEN "finish" ELSE "acquire")
    /\ UNCHANGED <<visited, position, fetching, pages, read, pagesClosed, crawlCancelled>>

\* case sem <- struct{}{}
AcquireFetch(g) ==
    /\ fetcher[g] = "acquire"
    /\ fetching[g[1]] < MaxFetches
    /\ fetching' = [fetching EXCEPT ![g[1]] = @ + 1]
    /\ FetcherAt(g, "fetch")
    /\ UNCHANGED <<visited, position, pages, read, pagesClosed, crawlCancelled>>

\* case <-ctx.Done(), before the fetch or instead of the send of its result.
GiveUp(g) ==
    /\ g[1] \in crawlCancelled
    /\ \/ fetcher[g] = "acquire" /\ FetcherAt(g, "finish")
       \/ fetcher[g] = "send" /\ FetcherAt(g, "release")
    /\ UNCHANGED <<visited, position, fetching, pages, read, pagesClosed, crawlCancelled>>

\* fetch returns, with links or with an error: the client has a timeout.
Fetched(g) ==
    /\ fetcher[g] = "fetch"
    /\ FetcherAt(g, "send")
    /\ UNCHANGED <<visited, position, fetching, pages, read, pagesClosed, crawlCancelled>>

\* case results <- result; on a closed channel it would be a panic.
SendPage(g) ==
    /\ fetcher[g] = "send"
    /\ g[1] \notin pagesClosed
    /\ Cardinality(pages[g[1]]) < ResultsSize
    /\ pages' = [pages EXCEPT ![g[1]] = @ \cup {g[2]}]
    /\ FetcherAt(g, "release")
    /\ UNCHANGED <<visited, position, fetching, read, pagesClosed, crawlCancelled>>

\* The deferred calls, last first: <-sem, then wg.Done().
ReleaseFetch(g) ==
    /\ fetcher[g] = "release"
    /\ fetching' = [fetching EXCEPT ![g[1]] = @ - 1]
    /\ FetcherAt(g, "finish")
    /\ UNCHANGED <<visited, position, pages, read, pagesClosed, crawlCancelled>>

Finish(g) ==
    /\ fetcher[g] = "finish"
    /\ FetcherAt(g, "done")
    /\ UNCHANGED <<visited, position, fetching, pages, read, pagesClosed, crawlCancelled>>

\* Faulty variant: wg.Add is called by the goroutine itself, and comes too late.
ClosePagesEarly(q) ==
    /\ q \notin pagesClosed /\ position[q] > Len(Seeds)
    /\ \A i \in DOMAIN Seeds : fetcher[<<q, i>>] \in {"skipped", "begin", "done"}
    /\ pagesClosed' = pagesClosed \cup {q}
    /\ UNCHANGED <<visited, position, fetching, fetcher, pages, read, crawlCancelled>>
\* wg.Wait() and close(results) in the goroutine that Crawl starts when every seed
\* has been looked at.
ClosePages(q) ==
    /\ q \notin pagesClosed
    /\ position[q] > Len(Seeds)
    /\ \A i \in DOMAIN Seeds : fetcher[<<q, i>>] \in {"skipped", "done"}
    /\ pagesClosed' = pagesClosed \cup {q}
    /\ UNCHANGED <<visited, position, fetching, fetcher, pages, read, crawlCancelled>>

ReadPage(q) ==
    /\ \E i \in pages[q] :
         pages' = [pages EXCEPT ![q] = @ \ {i}] /\ read' = [read EXCEPT ![q] = @ \cup {i}]
    /\ UNCHANGED <<visited, position, fetching, fetcher, pagesClosed, crawlCancelled>>

CancelCrawl(q) ==
    /\ q \notin crawlCancelled
    /\ crawlCancelled' = crawlCancelled \cup {q}
    /\ UNCHANGED <<visited, position, fetching, fetcher, pages, read, pagesClosed>>

CrawlStep ==
    \/ \E q \in Crawls : CrawlURL(q)
    \/ \E q \in Crawls : ClosePages(q)
    \/ \E g \in Goroutines : CheckContext(g)
    \/ \E g \in Goroutines : AcquireFetch(g)
    \/ \E g \in Goroutines : GiveUp(g)
    \/ \E g \in Goroutines : Fetched(g)
    \/ \E g \in Goroutines : SendPage(g)
    \/ \E g \in Goroutines : ReleaseFetch(g)
    \/ \E g \in Goroutines : Finish(g)

CrawlNext ==
    \/ CrawlStep
    \/ \E q \in Crawls : ReadPage(q)
    \/ \E q \in Crawls : CancelCrawl(q)

CrawlSpec == CrawlInit /\ [][CrawlNext]_crawlVars

-----------------------------------------------------------------------------
CrawlTypeOK ==
    /\ visited \subseteq URLs /\ pagesClosed \subseteq Crawls /\ crawlCancelled \subseteq Crawls
    /\ position \in [Crawls -> 1..(Len(Seeds) + 1)]
    /\ fetcher \in [Goroutines ->
         {"none", "skipped", "begin", "acquire", "fetch", "send", "release", "finish", "done"}]
    /\ \A q \in Crawls :
         /\ fetching[q] = Cardinality(
                {i \in DOMAIN Seeds : fetcher[<<q, i>>] \in {"fetch", "send", "release"}})
         /\ fetching[q] <= MaxFetches /\ Cardinality(pages[q]) <= ResultsSize

\* No goroutine of a call is left when its results are closed, so that nobody sends
\* to a closed channel; and then, unless the call was cancelled, every seed has been
\* claimed by exactly one goroutine, of whichever call, and those claimed by its own
\* have their results (crawler.go:75-133).
CrawlComplete == \A q \in pagesClosed :
    /\ \A i \in DOMAIN Seeds : fetcher[<<q, i>>] \in {"skipped", "done"}
    /\ q \notin crawlCancelled => \A url \in {Seeds[i] : i \in DOMAIN Seeds} :
         \E g \in Goroutines :
           /\ {h \in Goroutines : Seeds[h[2]] = url /\ fetcher[h] \notin {"none", "skipped"}} = {g}
           /\ g[1] = q => g[2] \in pages[q] \cup read[q]

\* A cancelled call closes its results, though nobody reads them.
CrawlEnds == \A q \in Crawls : q \in crawlCancelled ~> q \in pagesClosed
=============================================================================
