----------------------------- MODULE MCWorkers -----------------------------
\* The worker pools for TLC: a behaviour is one of WorkerPool, of GracefulPool or
\* of DynamicPool.
EXTENDS WorkerPool, GracefulPool, DynamicPool

CONSTANTS w1, w2, w3, j1, j2, j3, c1, c2, r1, r2

ThreeWorkers == {w1, w2, w3}
ThreeJobs == {j1, j2, j3}
TwoJobs == {j1, j2}
OneJob == {j1}
OneCloser == {c1}
TwoClosers == {c1, c2}
TwoResizers == {r1, r2}
OneResizer == {r1}

VARIABLE part   \* which pool this behaviour is about
gracefulOnly == <<state, timedOut, lateDrain>>
dynamicOnly == <<numWorkers, resize, overlapped, late>>
allVars == <<part, chanVars, gracefulOnly, dynamicOnly>>

Init ==
    /\ part \in {"basic", "graceful", "dynamic"}
    /\ GracefulInit /\ Sized
    /\ part = "dynamic" => DynamicInit

\* Bound: two workers start in the basic and in the graceful pool, one in the
\* dynamic pool.
Started == \A w \in Workers : worker[w] = "idle" <=>
    w \in (IF part = "dynamic" THEN {w1} ELSE {w1, w2})
StartedInit == Init /\ Started

Only(p, A, others) == part = p /\ A /\ UNCHANGED <<part, others>>
Basic(A) == Only("basic", A, <<gracefulOnly, dynamicOnly>>)
Graceful(A) == Only("graceful", A, dynamicOnly)
Dynamic(A) == Only("dynamic", A, gracefulOnly)

Next == Basic(BasicNext) \/ Graceful(GracefulNext) \/ Dynamic(DynamicNext)

Spec == Init /\ [][Next]_allVars

\* Jobs end, and a worker, a call that shuts the pool down and, in the basic pool,
\* the consumer go on when they can: select chooses at random among its cases.
FairSpec ==
    /\ StartedInit /\ [][Next]_allVars
    /\ \A w \in Workers :
         /\ WF_allVars(Basic(~Crashed /\ BasicWorker(w)))
         /\ WF_allVars(Graceful(GracefulWorker(w)))
         /\ WF_allVars(Dynamic(~Crashed /\ DynamicWorker(w)))
    /\ WF_allVars(Basic(~Crashed /\ Receive))
    /\ \A c \in Closers :
         /\ WF_allVars(Basic(~Crashed /\ Wait(c)))
         /\ WF_allVars(Graceful(closer[c] # "idle" /\ ShutDown(c)))
         /\ WF_allVars(Graceful(closer[c] = "drain" /\ Drain(c)))
         /\ WF_allVars(Dynamic(~Crashed /\ Shutdown(c)))

-----------------------------------------------------------------------------
ClosingAt == {"drain", "gDrain", "select", "stop", "cancel", "fClose", "fWait", "closeResults", "wait"}

\* One type invariant for the three pools; numWorkers counts the live workers.
TypeOK ==
    /\ ChanTypeOK
    /\ closer \in [Closers -> ClosingAt \cup {"idle", "returned", "drained", "panicked"}]
    /\ state \in {"running", "draining", "stopped"} /\ timedOut \subseteq Closers /\ lateDrain \in BOOLEAN
    /\ resize \in [Resizers -> Int] /\ {overlapped, late} \subseteq BOOLEAN
    /\ part = "dynamic" => numWorkers = Cardinality({w \in Workers : Alive(w)})

ShutDownReturned == \E c \in Closers : closer[c] = "returned"

\* When a shutdown has returned and nobody cancelled the context, no accepted job
\* is lost: its result is in the channel or with the consumer (pool.go:98-109,
\* graceful_pool.go:173-208, dynamic_pool.go:223-241).  In the dynamic pool only
\* as long as no two calls of Resize overlapped: else all workers may have left.
CleanShutdownDelivers ==
    ShutDownReturned /\ ~ctxDone /\ ~overlapped => Accepted \subseteq results \cup received

\* p.results is closed while a worker has a job, or a worker dies of it, only after
\* a shutdown timed out (or, in the dynamic pool, calls of Resize overlapped).
ResultsClosedLast ==
    Crashed \/ (resultsClosed /\ InHand # {}) => timedOut # {} \/ late \/ overlapped

\* An open dynamic pool keeps its minimum of workers, whatever Resize is asked for,
\* unless two calls overlapped (dynamic_pool.go:81-98, 186-189).
KeepsMinimum == part = "dynamic" /\ ~jobsClosed /\ ~overlapped =>
    MinWorkers <= Cardinality({w \in Workers : Alive(w) /\ worker[w] # "leave"})

\* When the pool was shut down and every call of Drain, GracefulShutdown and
\* ForceShutdown has ended, it is stopped, however they interleaved, unless a Drain that
\* found it stopped took it back to draining, for good (graceful_pool.go:161, 200, 212).
EndsStopped == part = "graceful" /\ ShutDownReturned
               /\ (\A c \in Closers : closer[c] \in {"idle", "returned", "drained"})
               => state = IF lateDrain THEN "draining" ELSE "stopped"

\* Every shutdown comes to its end and with it every worker, though nobody reads the
\* results of a graceful or a dynamic pool.
ShutdownEnds == \A c \in Closers : closer[c] \in ClosingAt ~>
    \/ Crashed \/ closer[c] \in {"drained", "panicked"}
    \/ closer[c] = "returned" /\ AllExited

=============================================================================
