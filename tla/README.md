# A verification project for gocc

gocc is nine small Go projects about concurrency: counters and rate limiters,
worker pools, a crawler, publish/subscribe, a cache, connection pools, a task
scheduler, concurrent maps and an HTTP server.  They share no code; each is a
library of a few types that goroutines of one process share, guarded by
mutexes, channels, atomics, contexts and wait groups.  Nothing is persisted and
nothing crosses a network that the code itself would have to repair, so the
hard behaviour is in-process: what happens between an unlock and the next
channel operation, who wakes whom, what is sent after a close, which timer wins.

The modules here describe those goroutines, the TLC configurations check them on
small instances, and the proof modules prove what matters most for every
instance.  `PROJECT.json` ties each definition to the lines it models.

## 1. Inventory

| part | state it keeps | operations | what is hard |
|---|---|---|---|
| stage1/01 counters | one integer | increment, decrement, get, reset | nothing: one locked or atomic operation each (the "unsafe" counter is a demonstration of a race) |
| stage1/01 rate limiters | tokens, level or timestamps, time of the last refill or leak, two window counts | Allow, AllowN, Tokens, Remaining, Count | every call first brings the state up to the clock: window boundaries, full and empty buckets, long pauses |
| stage1/02 worker pools | channels jobs and results, a context, a wait group; state (graceful), number of workers (dynamic) | Start, Submit, Close, Wait; Drain, GracefulShutdown, ForceShutdown; Resize, Shutdown | a shutdown races submissions, workers, timeouts, resizes and another shutdown; results are closed while workers may send |
| stage1/03 crawler | visited URLs; per call a semaphore, a wait group, results | Crawl, crawlURL, fetch; retry with backoff, per-host limiter, link parser | several calls share the visited URLs; results must be closed last and a cancelled crawl must end |
| stage1/04 pub/sub | broker: topic lists, subscribers with a mailbox; broadcast: input, outputs, context; FanOut, Pipeline, FanIn over channels | Subscribe, Unsubscribe, RemoveSubscriber, Publish, Close; Send | sends to channels that others close, duplicate subscriptions, back-pressure and cancellation |
| stage2/05 cache | map of entries with deadlines; LRU list and map; calls in flight | Get, Set, Delete, cleanup; Singleflight.Do, CacheAside.Get, Invalidate | look-up, expiry and fetch are separate critical sections; pointer surgery |
| stage2/06 connection pools | channels of idle connections and of tokens, `closed` | Acquire, Release, Close, WarmUp, EnsureMinConnections, health check | channels are used without the lock that guards `closed`; tokens must match connections |
| stage2/07 scheduler | tasks, their states and retry counts, one goroutine per task and per retry | Schedule..., Cancel, Remove, Close | retries outside the wait group, dependencies read while they change, Close against all of it |
| stage2/07 waiter and lock | completed tasks with a condition variable; leases with deadlines | Wait, WaitAny, WaitAll, MarkComplete, Reset; Acquire, Release, Extend | lost wake-ups, late releases of leases that ended |
| stage2/07 priority queue | a binary heap in a slice | PushTask, PopTask, PeekTask, RemoveTask, UpdatePriority | removals from the middle and changes of priority must restore the heap in both directions |
| stage2/07 cron | parsed fields; NextRunAt of a cron task | ParseCron, Next; ScheduleCron, runCron | the next run is computed from the time the last one ended; expressions that match nothing |
| stage2/08 sharded map | a map and a read-write lock per shard, the hash function | Get, Set, GetOrSet, Delete, Len, Range, SetWithHasher | walks lock one shard after another; the function Range calls may call the map under the lock |
| stage2/08 TTL map | entries with deadlines, a cleanup goroutine | Get, Set, SetNoExpire, Delete, Touch, GetOrSet, cleanup, Close | Get deletes what it finds after it unlocked; the cleanup goes by the time it began at |
| stage2/08 other maps | a map per lock, or a sync.Map | Get, Set, Delete, Range | one locked operation each |
| stage3/09 HTTP server | slots; per request a handler goroutine, a panic channel, a deadline | the middleware chain | the handler outlives its request; panic, completion and deadline race |

The parts interact inside a project only: ManagedPool and its PooledConn, CacheAside
with Cache and Singleflight, FanOut into Pipeline into FanIn, Recovery around
MaxConcurrency around Timeout.  What makes each part correct is stated as the
properties of section 4; what is hard to test in it is listed, line by line, under
`hazards` in `PROJECT.json`.

## 2. Modules

| module | models | state and actions |
|---|---|---|
| `ConnLifecycle` | what a pool promises | `owner` of every connection; Create, Lend, Return, Destroy |
| `ManagedPool` | managed.go | the two channels as a sequence and a count, a program counter per goroutine; one action per channel operation or critical section of Acquire, Release, WarmUp/EnsureMinConnections, the health check and Close |
| `Pool` | pool.go of the connection pools | the same for the basic pool, whose Release forgets tokens |
| `Scheduler` | scheduler.go, task.go | a program counter per task and retry goroutine; CheckDeps and ReadDep (one dependency after the other), Start, FuncReturns, CheckRetry, CountRetry, After, Stop, Fire follow executeTask and the loops |
| `TaskWaiter` | waiter.go | `mu`, the goroutines parked on the condition variable, watchers of contexts; Test, Park, Relock, Mark, MarkBroadcast, Reset |
| `DistributedLock` | waiter.go | a clock, the map of leases, and what each holder was told its lease is |
| `PoolChannels` | what the worker pools share | jobs, results, context, workers, submissions, closers |
| `WorkerPool`, `GracefulPool`, `DynamicPool` | pool.go, graceful_pool.go, dynamic_pool.go | each EXTENDS PoolChannels with its own Submit, worker loop and shutdown; `lateDrain` remembers a Drain that found the graceful pool stopped |
| `Crawler` | crawler.go | visited, and per call the semaphore, results and its goroutines |
| `RequestLimits` | timeout.go, concurrency.go, middleware.go | slots; per request the two goroutines, panicChan, the deadline, the answer |
| `Broker` | broker.go | topic lists as sequences (so that duplicates exist), publishers in the middle of Publish, how full each mailbox is; Subscribe and Unsubscribe of the broker and, as SubscribeAlone and UnsubscribeAlone, those of a subscriber itself.  Two histories say which topics were set without the broker (`direct`) and which subscribed to twice (`again`) |
| `Broadcast` | Broadcast in fanout.go | run, Send, Subscribe, Close; how many messages each output buffers |
| `Streams` | FanOut, Pipeline, FanIn in fanout.go | one FanOut into a pipeline stage per branch into one FanIn, all over unbuffered channels |
| `LRUOrder`, `LRUCache` | the order of recency; lru.go | a sequence of keys; the doubly-linked list pointer by pointer |
| `CacheAside` | cache.go, ttl.go, singleflight.go | entries, calls in flight, a program counter per caller of CacheAside.Get |
| `RateLimiters` | token_bucket.go, leaky_bucket.go, sliding_window.go | `kind`, a clock in ticks, the bucket's level in fractions of a request, the log, the two counts; one action per kind of call |
| `Cron` | cron.go, ScheduleCron and runCron | a clock in seconds, the parsed sets of values, `nextRun`; ScheduleCron, FireCron, CronReturns.  The calendar is a constant |
| `TaskOrder`, `PriorityQueue` | a set of ranked tasks; priority_queue.go | the slice and container/heap's loops that let an element rise and sink |
| `ShardedMap` | sharded_map.go | the keys of each shard, who is in which call, where each Range or Len is |
| `TTLMap` | ttl_map.go | a clock, deadlines, users between the two halves of Get, the shards the cleanup has still to visit |
| `Retry` | RetryWithBackoff in retry.go | the loop, a function that fails in two ways, a context that may end at any point |
| `ManagedPoolProofs`, `ManagedPoolRefinement`, `SchedulerProofs`, `CoordinationProofs`, `WorkersProofs`, `MessagingProofs`, `QueueProofs`, `StructuresProofs` | | theorems, section 6 |
| `MC...` | | instances for TLC |

An action is what the code does between two points where another goroutine can
come in: a critical section, a channel operation, an atomic operation, a read or
write under its lock.  Work on data only one goroutine can reach belongs to the
next such step.  A Go panic nobody recovers sets `crashed` (pools) or puts the
goroutine at "panicked" and, where the program would die, stops the behaviour.
Several runs are of a *sum*: the MC module EXTENDS independent modules and a
variable `part`, chosen in the initial state, says which of them the behaviour
is about.  The states of the parts add up instead of multiplying, and no part
sees the others.  The operators marked "Faulty variant" beside a definition are
the definition with a plausible bug; no specification uses them, and every
property of a passing run is violated when the variant named in `PROJECT.json`
takes the definition's place.

What is abstracted: payloads, keys and names are model values; durations are a
timer that may fire at any moment (the clocks of DistributedLock, RateLimiters,
Cron and TTLMap count); error values, statistics and log lines are left out; buffered channels whose
order nobody observes are sets, and mailboxes and outputs whose messages nobody tells apart
are counts (Streams has the messages themselves).

## 3. Plan

Done in this order, most important first: ManagedPool with its abstract
specification and proofs; the basic pool; the scheduler; waiter and lock; worker
pools; messaging; caching; crawler and request limits; the rate limiters, cron, the
priority queue, the sharded and the TTL map, retry.

The proofs went the same way: the managed pool and the lease, then the scheduler, the
waiter with the crawler, the worker pools, messaging, and of the structures the retry
loop, cache-aside, the basic pool, the rate limiters, cron, the two maps, and the LRU list
and the heap with the orders they implement.  Every invariant, action property and
refinement that a run checks is now a theorem.

Left: abstract specifications of the worker pools (an accepted job is delivered once) and
of the broker (a queue per subscriber and publisher), which the models implement in the way
ManagedPool implements ConnLifecycle.

## 4. Runs

| run | instance | what it shows |
|---|---|---|
| `PoolShutdown` | 2 clients (one without deadline), 1 warmer, health check, 2 Close, 2 connections, MaxSize 2 | type; the semaphore counts exactly the connections that exist or are being created or closed; a connection in use is its user's alone; Close closes the channel once and after the health check; the pool implements ConnLifecycle; Close returns; a waiter is stuck only if a slot is free that nobody told it about |
| `PoolDuplicates` | 2 clients that release handles twice, warmer, health check, Close, 3 connections | even then a connection is in one place, none is forgotten |
| `SchedulerRun` | a one-time task with one retry and a repeating task that depends on it and on one nobody scheduled; or a repeating task with two retries, whose goroutines pass the test of RetryCount together; Cancel, Remove, Close | retries are bounded, by MaxRetries for a one-time task and by less than twice that for a repeating one; a one-time task never overlaps itself; dependents start after their dependencies' goroutines; the state of a task that was not retried tells where it is; after Close every goroutine ends |
| `Coordination` | 2 waiters, 2 markers, 2 tasks; 3 holders of one lease, clock to 4; 2 crawls of 3 seeds with a repeated URL, one fetch each at a time, room for one result; 3 requests, limit 2 | no completion is missed; leases are exclusive; a crawl that ends has every page once and nobody left who could send; whoever waits is served, with a handler that never returns and results nobody reads |
| `Workers` | 3 workers, 2 jobs, buffers of 1, 2 closers, 2 resizers, sizes 1 to 2 | a clean shutdown loses no job; results are closed under a worker only after a timeout; the minimum of workers is kept while calls of Resize do not overlap; drains and shutdowns that overlapped leave the pool stopped, unless a Drain found it stopped; every shutdown ends |
| `Messaging` | 2 subscribers with room for one message, one topic listed up to 3 times, 2 publishers; 2 senders, 2 listeners, 2 Close calls; 2 branches, 3 messages | interests are listed, and what is listed without interest was subscribed to twice; a publisher has before it the rest of the list as it is, though others shift it in place; the broker and the broadcast never send to what they closed themselves; streams are complete and in order; closes and cancellations end |
| `Structures` | LRU list of capacity 3 over 4 keys; 3 callers of CacheAside, 2 of one key, 1 entry at most; limiters with a burst or limit of 2, half a request a tick, windows of 3 ticks, 8 ticks; cron texts over 2 fields, 7 seconds and a search of 4; 6 tasks in a heap; 2 shards, a writer, a walk; a TTL map with 2 users and its cleanup, 3 ticks; retries up to 3; the basic pool with 3 clients, 1 Close, 2 connections that may break | list and map agree in both directions; the list implements the order of recency and the heap the order of priority; no stampede; no interval, wherever it lies, sees more requests than the limiter's bound, and none is refused without reason; a retry respects its count and its context; a cron task runs for matching seconds only, once each, and skips none but those that pass while it is late or busy; a walk sees once what stays in the map; an entry that has not expired leaves the TTL map only by a Delete or by a Get that was under way; tokens cover connections; callers, walks (unless the function they call waits for the lock they hold) and clients come to an end |
| `PoolDoubleRelease` | | violated: a second Release of an old handle takes a connection from its new user (managed.go:25) |
| `PoolPanic` | | violated: Acquire or Release past the closed check meets the closed channel (managed.go:221, 293) |
| `SchedulerClose` | | violated: a retry goroutine outlives Close (scheduler.go:334) |
| `WaiterCancel` | | violated: a context cancelled just before the waiter parks wakes nobody (waiter.go:56) |
| `LostPanic` | | violated: a handler that panicked is answered with what it had written (timeout.go:40) |

Why the bounds are enough to be interesting.  Pools: with MaxSize 2 and two or
three clients the channel and the semaphore are full, half-full and empty while
somebody waits; 2 Close calls let one find the other in progress; more clients
add no new kind of step and the proofs cover them.  Scheduler: `MaxRuns` = 2
firings of the repeating task suffice for its main goroutine to run beside its
retries, and with MaxRetries = 2 the main goroutine and the first retry pass the test
together, so that RetryCount reaches three, the most there can be; `Retries` has a goroutine
for each.  `used` keeps that task and the pair of tasks in behaviours of their own.  Waiter: two of everything, so a
broadcast can meet one waiter parked and another about to park.  Lease: `MaxTime`
= 4 with times to live 1 and 2 lets a lease end, be taken, end and be taken back.
Workers: one job more than a buffer holds, so a worker blocks on results.
Messaging: three entries of a topic let an id be listed twice before or behind another;
with room for one message and two publishers, or one whose list has an id twice, a
mailbox overflows, and so do the outputs (`MaxSends`).  A second topic would add nothing:
what the steps do to the list of one does not depend on the other.  Structures: `MaxChanges` bounds how often entries of a key are
taken away; capacity 3 of 4 keys has a head, a middle and a tail to unlink.  Six is the least number
of tasks with which a removal from the middle moves the last task under a parent it
precedes.  Eight ticks hold two windows, a pause of two and their
boundaries, with a burst before and after; seven seconds hold one and a half periods
of the calendar, and the search of four fails for some texts.  One key, two users and
three ticks let an entry expire, be stored again and expire while a Get and the
cleanup are half-way.
Crawler: one list with a repeated URL in two calls has a URL claimed by the same
and by the other call.  Requests: one more than the limit.

Deadlock is checked for ManagedPool (clients can always call again).  Elsewhere
`CHECK_DEADLOCK FALSE` stands because the system may stop: a closed pool, a
scheduler whose tasks are over, pools that crashed or were shut down, jobs,
messages and clock used up.

## 5. Fairness

Fairness says only that goroutines inside a call go on: Go's scheduler is
preemptive, mutexes do not starve, and callbacks, factories, fetches and jobs are
assumed to return (the HTTP handler is not).  Nobody is obliged to begin a call,
to submit, publish, read results or cancel.

- Weak fairness per goroutine where its step, once possible, stays possible.
- Strong fairness of `Stop` for the loop of a repeating task (scheduler) and of the health
  check's exit: a select with a ready timer and a done context chooses at random and so
  does not take the timer for ever.  A select that is met once is not helped by it.
- Strong fairness of `Relock` (waiter): sync.Mutex hands over to a starving waiter.
- Strong fairness in the pools' receive for a waiter: the runtime queues the
  receivers of a channel in order, so a connection put back again and again
  reaches each of them.
- Strong fairness of the goroutines that call the sharded map or walk over it: writers come
  and go, and the read-write lock lets waiting readers in after each of them, and a
  waiting writer after the readers that were there.
- `Receive` in the basic worker pool is fair: without a consumer its workers do
  block for ever, which is one of the observations below.
- `Expire` (HTTP) is fair: the deadline is a timer and time passes.

## 6. Proofs

Every theorem is about a specification of section 2 without its fairness, for all
values of the constants that satisfy the assumptions named in the modules, and each
safety invariant it states is checked by a run of section 4 too.  The assumptions say what
the code's types and constructors say: sizes, limits and retry counts are naturals, some
of them positive, the kinds of goroutines are disjoint, the nil of a field is no value
of it, and what is counted is finite.

Where a property is not inductive, the invariant says what the code relies on in
between:

| theorems | of | what makes the invariant inductive |
|---|---|---|
| `TypeCorrect` ... `CloseOrdered`, `PoolImplementsLifecycle` | ManagedPool | below |
| `LeaseIsExclusive` | DistributedLock | a lease that has not ended is the one in the map, which has one holder for a key |
| `SchedulerTypes`, `RetriesAreBounded`, `OnceNeverOverlaps`, `DependenciesComeFirst`, `StateIsTrue` | Scheduler | of a one-time task one goroutine at most is in wait or executes, and runs no more than its retries allow (`InTurn`); a task that repeats has goroutines between the test of RetryCount and its increment, and their number with RetryCount stays below twice MaxRetries (`InReach`); only After makes a task completed (`CompletedOver`) |
| `CompletionsAreSeen` | TaskWaiter | between its test and its place on the notify list a waiter holds `mu`, so what it waits for is not complete there (`ParkedUnderLock`) |
| `CrawlsAreComplete` | Crawler | `visited` holds exactly the claimed URLs, each claimed by one goroutine of one call (`ClaimedOnce`), and a goroutine that was not cancelled has delivered when it gives its slot back (`Delivered`) |
| `CoordinationTypes` | TaskWaiter, DistributedLock, Crawler, RequestLimits | the semaphores count their holders, a finite set since each was counted in |
| `WorkersTypes`, `NoJobIsLost`, `ResultsAreClosedLast`, `MinimumIsKept`, `ShutdownsEndStopped` | the worker pools | in a pool that nobody cancelled or resized twice at once, every accepted job is in a channel, in a hand or delivered (`NothingLost`), workers leave only when jobs are closed and empty (`LeftWhenDone`), and results are closed when all have left (`ClosedAfterWorkers`); numWorkers with the workers Resize has still to spawn stays within the bounds (`SizeInv`); the state is stopped unless a graceful shutdown is on the way to it, a Drain came too late, or nobody but Drain was called (`StoppedLast`) |
| `MessagingTypes`, `SubscribersAreListed`, `PublishersFollowTheList`, `ChannelsCloseSafely`, `StreamsAreComplete` | Broker, Broadcast, Streams | an open subscriber that did not subscribe again while it was listed is listed once at most, so that taking out one entry takes it off the list (`DirectoryKept`, with what RemoveFirst leaves of a list: `RemoveFirstShape`, `RemoveFirstElements`); who is shut between the test and the send shut itself (`ShutItself`); the messages a branch was given are with the consumer, in the multiplexer's hand or in the stage's (`CarriedOver`), and the three end from the front (`EndsInTurn`) |
| `RetriesEnd` | Retry | how many calls there were at each place of the loop |
| `CacheTypes`, `SourceIsSpared` | CacheAside | the fetches of a key are ahead of its failures and losses by nothing while its leader is to fetch, by one when it is to store or a usable entry is there (`Ahead`) |
| `PoolTypes`, `ConnectionsAreBounded` | Pool | a connection that is idle or in a hand is open, and is in one place (`IdleApart`, `HandsApart`): closing it frees what its token covered |
| `LimiterTypes`, `CallsAreLimited` | RateLimiters, Retry | for every tick since which one may count: the room in a bucket with what was granted is at most its burst and what the time was worth, and for some tick just that (`BucketExact`); the log's last stamps are the requests granted since a tick (`LogExact`); the two windows bound what was granted since they began from above and from below (`WindowsExact`) |
| `CronTypes`, `CronIsExact` | Cron | whatever a text says, ParseField leaves values of that field (`FieldsParsed`), and what Next finds lies in its search (`NextTimeFinds`); the timer is set for the first second after the last run that matches (`CronAimed`), and a due second that was missed was one of a run that was due or going on (`CronKept`) |
| `LRUTypes`, `ListMatchesItsMap`, `ListImplementsOrder` | LRUCache, LRUOrder | the keys of the map, in some order, are what the pointers link both ways, with nil at the ends (`Chained`); `ChainedWithout` and `ChainedBefore` say what removeNode and addToFront make of that order, and `DroppedIs`, `PutBefore` and `FrontIs` that LRUOrder does the same to its sequence |
| `QueueTypes`, `HeapImplementsOrder` | PriorityQueue, TaskOrder | no element is less than its parent (`Heaped`).  While an element rises only it may be less than its parent (`RiseReady`), while it sinks only its children may be less than it (`SinkReady`), and what takes the place of a removed element, or has a new priority, may have to do either (`Around`): it rises only if it did not sink |
| `MapTypes`, `WalksSeeAll` | ShardedMap | a walk has met the keys that were kept in the shards behind it, of the shard it is in all but those it has still to visit, and none of the shards ahead (`WalkRight`); every key is in the shard of its hash (`Placed`), and there is a shard, because some power of 2 is no less than the count asked for (`SomeShards`) |
| `TTLTypes`, `EntriesStay` | TTLMap | while a Get is between its read and its Delete, what is stored for the key is gone, has expired, or was stored meanwhile (`UserFinds`); the cleanup's time is never ahead of the clock |
| `MapsAreKept`, `PromisesAreKept`, `StructureTypes` | MCStructures | of the maps, of list and heap, and of all the parts together |
| `PartsBehave` | MCStructures | a behaviour of the sum is one of each of its parts, so the theorems about a part's specification hold of the run's |

The proofs for ManagedPool go up a ladder.  TypeOK is inductive: it includes that a
client has a connection in hand exactly in the places where Acquire has returned one and
Release has not disposed of it.  On top of it OnePlace is inductive, because the
only way into the channel is a first Release, and `released` is set until the next
Lend.  SlotAccounting follows step by step: each action moves at most one
connection or goroutine in or out of the sets that are counted.  CapacityHolds and
PutsFindRoom are consequences by counting: the connections in the channel and the
one being put are distinct, exist, and so have a token each.  ExclusiveUse is not
inductive with duplicates (PoolDoubleRelease shows it false), and without them
needs that no stale handle exists (`StaleStep`) and that no two clients hold one
connection.  NoLeak needs to know, of every connection, where it is
(`LocatedInv`): in the channel, in toCheck, in a hand or with the one goroutine
between closing it and giving back its token.  The refinement maps a connection
to its user while it is in use, to the pool from the accepted Release on, and
uses CapacityHolds with SlotAccounting for the room a Create needs.

The other proofs share a plan.  The steps are first sorted by what they do to the data
(`WorkersStep`, `BroadcastRest`, the kinds of step of Pool), each kind is described
variable by variable in a lemma, and then one lemma per part of the invariant goes
through the kinds.  What a sequence operation does to the elements (`RemoveFirstElements`), what a set of counted goroutines becomes and what products of rates and
times are worth are lemmas of their own, as is the least element of a set of naturals
(`LeastNatural`), which the library states for well-founded orders only.

Two places in the models were wrong or too narrow to be reasoned about, and were
changed with the proofs: Unsubscribe and RemoveSubscriber of the broker take out the
first entry of an id only (broker.go:154, 201), where the model had taken out all; and
the initial state of the worker pools leaves open which workers have been started, as
long as their number is within the bounds (the run adds `Started`, which makes it one
state).  Others were only written in a form the prover can read: LRUOrder takes a key
out at the place it is at (`Dropped`), nextPowerOf2 is the least power and not a loop that
finds it, and the loops of container/heap are functions of one record, the heap and a
place in it.

Model-checked only: every liveness property, since fairness and ENABLED are out of the
prover's reach.

No module uses a RECURSIVE operator.  The recursive functions a theorem is about are
`Walk` of LRUCache and the two loops of the heap.  Such a definition says something only if
a function exists that satisfies it.  For `Walk` the proof exhibits the function, and the
least place where two would differ shows that there is no other (`WalkFollows`).  For a
loop the function returns what is left by the state reached from the first one in which the
loop stops (`LoopDefined`); and whatever the steps keep is true of that state: among
the states for which it were not, one would be closest to the end (`LoopKeeps`).

## 7. Disagreements

Shown by a run: the five violation runs above, quoted in `findings`.

Met while modelling and consistent with the models, but without a run of their own:

- pool.go:163 (connection pools): Release closes a connection and keeps its token,
  while Len is commented "Total active connections" (203): capacity is lost
  for good.  The models and `SlotsCover` have it that way.
- graceful_pool.go:161: Drain stores "draining" whatever the state is.  A Drain after a
  shutdown makes a stopped pool say that it is draining, and nothing takes it back
  (`EndsStopped` states what does hold).
- graceful_pool.go:124 says of Submit "Returns false if pool is draining/stopped";
  it panics when the channel is closed between its check and its send (132).
- dynamic_pool.go:80 says "excess workers will exit", but a worker compares with
  maxWorkers only, so a smaller target removes nobody; two overlapped calls of
  Resize can leave an open pool with no worker, and a second Shutdown panics.
- broker.go:146: Unsubscribe takes out one of several entries of an id, and a subscriber's
  own Subscribe and Unsubscribe (52-64) do not reach the broker's lists
  (`SubscriptionsServed` states what does hold).
- fanout.go: Send after Close panics when select chooses the closed input.
- task.go:67: RetryCount of a repeating task can exceed MaxRetries
  (`RetriesBounded` states the bound that does hold).
- cache.go:97 says "If ttl is 0, the entry never expires"; Get deletes, after it
  has unlocked, whatever is stored under a key it found expired.
- server.go:28 says "Limit to 10 concurrent requests" of handlers: a handler whose
  request timed out goes on without a slot.
- scheduler.go:259 says of a task whose dependencies are not met "will retry on next
  schedule"; a one-time task has none and is marked completed without having run.
- cron.go:175 says "Should never reach here for valid expressions"; "0 0 0 30 2 *" is
  valid and does, as does 29 February seen from more than a year before.  Next then
  gives the zero time, and runCron runs the task over and over without a pause
  (`Cron` has it: `nextRun` is Zero, which is always due).
- leaky_bucket.go:81 says Remaining "returns the current remaining capacity"; it returns
  how full the bucket is.
- sliding_window.go: the counter can admit nearly twice its limit within one window's
  length (`Fits` states the bound that does hold).
- priority_queue.go:117 says "Already sorted by heap property"; a heap's slice is not
  sorted, and GetReadyTasks returns it in that order.  UpdatePriority and RemoveTask
  treat the first entry of a task that was pushed twice only.
- ttl_map.go:116 says "no expiration": a Get that found the previous entry expired
  deletes the new one (`EntriesLast` states what does hold).
- sharded_map.go:166: a function that calls the map for the shard its Range has locked
  waits for ever, and so does everybody who wants that shard (`BlockedFor`, the one
  exception of `MapCallsEnd`).
- sharded_map.go:187: SetWithHasher on a map that holds keys strands them (`stray`);
  the default hash (98-101) puts all keys of other types than strings and integers in
  one shard.
- retry.go:122-131: the jitter is added after the cap, so a backoff can exceed
  MaxBackoff; a negative MaxRetries returns a zero result without an error.

The models assume that AllowN is called with a natural number, that a task is pushed
once and its NextRunAt left alone while it is queued, that TTLMap.Close is called once
(a second call panics), and that the wall clock runs with the timers: a clock that is
set back can make cron run a task twice for a second.

## 8. Not modelled

Statistics and other reads that change nothing; the database and HTTP wrappers
around ManagedPool (an Acquire with a deferred Release each); the counters and
the maps behind one lock (one locked operation each); how long a backoff is, and the
crawler's RateLimiter, which nothing uses but a benchmark; the link parser, the HTTP
handlers and client and the demonstration programs (no state that several steps
share).
