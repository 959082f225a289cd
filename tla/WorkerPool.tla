----------------------------- MODULE WorkerPool -----------------------------
(***************************************************************************)
(* stage1/02-worker-pool/pool/pool.go: a fixed number of workers.  A       *)
(* goroutine that shuts the pool down calls Close and then Wait; the       *)
(* context is the caller's.                                                *)
(***************************************************************************)
EXTENDS PoolChannels

\* Start has spawned numWorkers workers.
BasicInit == \E started \in SUBSET Workers : started # {} /\ ChanInit(started)

Submit(j) ==
    /\ submit[j] = "new"
    /\ SubmitAt(j, "sending")
    /\ UNCHANGED <<jobs, jobsClosed, results, resultsClosed, received, ctxDone, worker, hand, closer>>

CancelContext ==
    /\ ~ctxDone
    /\ ctxDone' = TRUE
    /\ UNCHANGED <<jobs, jobsClosed, results, resultsClosed, received, worker, hand, submit, closer>>

\* A second close of p.jobs panics.
Close(c) ==
    /\ closer[c] = "idle"
    /\ jobsClosed' = TRUE
    /\ CloserAt(c, IF jobsClosed THEN "panicked" ELSE "wait")
    /\ UNCHANGED <<jobs, results, resultsClosed, received, ctxDone, worker, hand, submit>>

\* Faulty variant: p.results is closed without waiting for the workers.
WaitForNobody(c) ==
    /\ closer[c] = "wait" /\ resultsClosed' = TRUE /\ CloserAt(c, "returned")
    /\ UNCHANGED <<jobs, jobsClosed, results, received, ctxDone, worker, hand, submit>>
\* Wait: p.wg.Wait() and close(p.results).
Wait(c) ==
    /\ closer[c] = "wait"
    /\ AllExited
    /\ resultsClosed' = TRUE
    /\ CloserAt(c, "returned")
    /\ UNCHANGED <<jobs, jobsClosed, results, received, ctxDone, worker, hand, submit>>

\* The send of a result is not in a select: a worker may be blocked in it for ever.
BasicWorker(w) ==
    \/ WorkerCancelled(w) \/ Take(w) \/ Process(w) \/ SendResult(w, "idle") \/ Leave(w)
    \/ resultsClosed /\ DropResult(w, "panicked")

BasicNext == ~Crashed /\
    \/ \E j \in Jobs : Submit(j)
    \/ \E j \in Jobs : SendJob(j) \/ SendJobPanics(j)
    \/ \E w \in Workers : BasicWorker(w)
    \/ Receive
    \/ CancelContext
    \/ \E c \in Closers : Close(c)
    \/ \E c \in Closers : Wait(c)

BasicSpec == BasicInit /\ [][BasicNext]_chanVars
=============================================================================
