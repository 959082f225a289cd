---------------------------- MODULE DynamicPool ----------------------------
(***************************************************************************)
(* stage1/02-worker-pool/pool/dynamic_pool.go: a pool that is resized.     *)
(* Resize reads the number of workers and then spawns the missing ones one *)
(* by one; a worker that has sent a result exits when it reads more than   *)
(* maxWorkers.  With a task timeout a worker gives a job up and sends an   *)
(* error for it; either way there is one result to send.                   *)
(***************************************************************************)
EXTENDS PoolChannels

CONSTANTS
    Resizers,       \* goroutines that call Resize
    MinWorkers, MaxWorkers

ASSUME DynamicAssumption ==
    /\ MinWorkers \in Nat \ {0} /\ MaxWorkers \in Nat /\ MinWorkers <= MaxWorkers
    /\ IsFiniteSet(Workers)
    /\ Cardinality(Workers) >= MinWorkers + Cardinality(Resizers) * (MaxWorkers - MinWorkers)

VARIABLES
    numWorkers,   \* p.numWorkers
    resize,       \* Resize: "idle", the number of workers still to spawn, or "done"
    overlapped,   \* two calls of Resize have overlapped (history)
    late          \* a Shutdown has timed out

dynamicVars == <<chanVars, numWorkers, resize, overlapped, late>>

Sized ==
    /\ numWorkers = MinWorkers
    /\ resize = [r \in Resizers |-> -1]
    /\ overlapped = FALSE /\ late = FALSE

\* Start has returned: it resizes to minWorkers.
DynamicInit == Sized /\ \E started \in SUBSET Workers :
    Cardinality(started) = MinWorkers /\ ChanInit(started)

SubmitDynamic(j) ==
    /\ submit[j] = "new"
    /\ SubmitAt(j, "sending")
    /\ UNCHANGED <<jobs, jobsClosed, results, resultsClosed, received, ctxDone, worker, hand, closer>>
    /\ UNCHANGED <<numWorkers, resize, overlapped, late>>

Clamp(n) == IF n < MinWorkers THEN MinWorkers ELSE IF n > MaxWorkers THEN MaxWorkers ELSE n

\* Resize(n) loads numWorkers.
Resize(r) ==
    /\ resize[r] = -1
    /\ \E n \in 0..MaxWorkers + 1 :
         resize' = [resize EXCEPT ![r] = IF Clamp(n) > numWorkers THEN Clamp(n) - numWorkers ELSE 0]
    /\ overlapped' = (overlapped \/ \E q \in Resizers \ {r} : resize[q] > 0)
    /\ UNCHANGED <<chanVars, numWorkers, late>>

\* spawnWorker
Spawn(r) ==
    /\ resize[r] > 0
    /\ \E w \in Workers : worker[w] = "none" /\ WorkerAt(w, "idle")
    /\ numWorkers' = numWorkers + 1
    /\ resize' = [resize EXCEPT ![r] = @ - 1]
    /\ UNCHANGED <<jobs, jobsClosed, results, resultsClosed, received, ctxDone, hand, submit, closer, overlapped, late>>

\* Faulty variant: a pool of exactly maxWorkers is taken to be too large.
TooManyOrFull == numWorkers >= MaxWorkers
TooMany == numWorkers > MaxWorkers

\* shouldWorkerExit, and the loop goes round.
Check(w) ==
    /\ worker[w] = "check"
    /\ WorkerAt(w, IF TooMany THEN "leave" ELSE "idle")
    /\ UNCHANGED <<jobs, jobsClosed, results, resultsClosed, received, ctxDone, hand, submit, closer, numWorkers>>

DynamicWorker(w) ==
    /\ \/ Check(w)
       \/ /\ WorkerCancelled(w) \/ Take(w) \/ Process(w) \/ SendResult(w, "check")
          /\ UNCHANGED numWorkers
       \* An unrecovered panic: send on a closed channel.
       \/ resultsClosed /\ DropResult(w, "panicked") /\ numWorkers' = numWorkers - 1
       \/ Leave(w) /\ numWorkers' = numWorkers - 1
    /\ UNCHANGED <<resize, overlapped, late>>

-----------------------------------------------------------------------------
\* Close, which closes p.jobs once.
CloseDynamic(c) ==
    /\ closer[c] = "idle"
    /\ jobsClosed' = TRUE
    /\ CloserAt(c, "select")
    /\ UNCHANGED <<jobs, results, resultsClosed, received, ctxDone, worker, hand, submit, numWorkers, resize, overlapped, late>>

\* Shutdown, its workers done or its timeout over: p.cancel() if it is over, and
\* close(p.results), which panics when another Shutdown has been here.
Shutdown(c) ==
    /\ closer[c] = "select"
    /\ \/ AllExited /\ UNCHANGED <<ctxDone, late>>
       \/ ctxDone' = TRUE /\ late' = TRUE
    /\ resultsClosed' = TRUE
    /\ CloserAt(c, IF resultsClosed THEN "panicked" ELSE "returned")
    /\ UNCHANGED <<jobs, jobsClosed, results, received, worker, hand, submit, numWorkers, resize, overlapped>>

DynamicNext == ~Crashed /\
    \/ \E j \in Jobs : SubmitDynamic(j)
    \/ \E j \in Jobs : (SendJob(j) \/ SendJobPanics(j)) /\ UNCHANGED <<numWorkers, resize, overlapped, late>>
    \/ \E w \in Workers : DynamicWorker(w)
    \/ Receive /\ UNCHANGED <<numWorkers, resize, overlapped, late>>
    \/ \E r \in Resizers : Resize(r)
    \/ \E r \in Resizers : Spawn(r)
    \/ \E c \in Closers : CloseDynamic(c)
    \/ \E c \in Closers : Shutdown(c)

DynamicSpec == DynamicInit /\ [][DynamicNext]_dynamicVars
=============================================================================
