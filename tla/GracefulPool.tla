---------------------------- MODULE GracefulPool ----------------------------
(***************************************************************************)
(* stage1/02-worker-pool/pool/graceful_pool.go: drain, graceful shutdown   *)
(* with a timeout and forced shutdown, called by any number of goroutines  *)
(* at once.  Workers recover their panics.  The callbacks of OnShutdown    *)
(* and the signal handler, one more caller of GracefulShutdown, are left   *)
(* out.                                                                    *)
(***************************************************************************)
EXTENDS PoolChannels

VARIABLES
    state,      \* p.state
    timedOut,   \* the GracefulShutdown calls whose timeout came first
    lateDrain   \* a Drain found the pool stopped, and nobody stopped it again (history)

gracefulVars == <<chanVars, state, timedOut, lateDrain>>

GracefulInit ==
    /\ \E started \in SUBSET Workers : started # {} /\ ChanInit(started)
    /\ state = "running" /\ timedOut = {} /\ lateDrain = FALSE

\* Submit reads p.state, and then selects.
SubmitCheck(j) ==
    /\ submit[j] = "new"
    /\ SubmitAt(j, IF state = "running" THEN "sending" ELSE "refused")
    /\ UNCHANGED <<jobs, jobsClosed, results, resultsClosed, received, ctxDone, worker, hand, closer, state, timedOut, lateDrain>>

SubmitCancelled(j) ==
    /\ submit[j] = "sending"
    /\ ctxDone
    /\ SubmitAt(j, "refused")
    /\ UNCHANGED <<jobs, jobsClosed, results, resultsClosed, received, ctxDone, worker, hand, closer, state, timedOut, lateDrain>>

\* Faulty variant: the send of a result does not watch ctx.
GracefulWorkerBlocks(w) ==
    /\ \/ WorkerCancelled(w) \/ Take(w) \/ Process(w) \/ SendResult(w, "idle") \/ Leave(w)
       \/ resultsClosed /\ DropResult(w, "leave")
    /\ UNCHANGED <<state, timedOut, lateDrain>>
\* Selecting the result's send or ctx.Done(); a send on a closed channel panics
\* and the panic is recovered.
GracefulWorker(w) ==
    /\ \/ WorkerCancelled(w) \/ Take(w) \/ Process(w) \/ SendResult(w, "idle") \/ Leave(w)
       \/ (ctxDone \/ resultsClosed) /\ DropResult(w, "leave")
    /\ UNCHANGED <<state, timedOut, lateDrain>>

-----------------------------------------------------------------------------
\* What a caller of Drain, GracefulShutdown or ForceShutdown does: it stores s in
\* p.state, whatever is there, and is next at label.
Store(c, from, s, label) ==
    /\ closer[c] = from
    /\ state' = s
    /\ lateDrain' = (s # "stopped" /\ (lateDrain \/ (label = "drain" /\ state = "stopped")))
    /\ CloserAt(c, label)
    /\ UNCHANGED <<jobs, jobsClosed, results, resultsClosed, received, ctxDone, worker, hand, submit, timedOut>>

\* p.closeOnce.Do: close(p.jobs).
CloseJobs(c, from, label) ==
    /\ closer[c] = from
    /\ jobsClosed' = TRUE
    /\ CloserAt(c, label)
    /\ UNCHANGED <<jobs, results, resultsClosed, received, ctxDone, worker, hand, submit, state, timedOut, lateDrain>>

\* p.workerWg.Wait()
AwaitWorkers(c, from, label) ==
    /\ closer[c] = from
    /\ AllExited
    /\ CloserAt(c, label)
    /\ UNCHANGED <<jobs, jobsClosed, results, resultsClosed, received, ctxDone, worker, hand, submit, state, timedOut, lateDrain>>

\* p.resultsOnce.Do: close(p.results).
CloseResults(c) ==
    /\ closer[c] = "closeResults"
    /\ resultsClosed' = TRUE
    /\ CloserAt(c, "returned")
    /\ UNCHANGED <<jobs, jobsClosed, results, received, ctxDone, worker, hand, submit, state, timedOut, lateDrain>>

\* p.cancel()
CancelPool(c, from, label) ==
    /\ closer[c] = from
    /\ ctxDone' = TRUE
    /\ CloserAt(c, label)
    /\ UNCHANGED <<jobs, jobsClosed, results, resultsClosed, received, worker, hand, submit, state, lateDrain>>

Drain(c) == Store(c, "idle", "draining", "drain") \/ CloseJobs(c, "drain", "drained")

\* The select of GracefulShutdown: the workers are done, or the timeout.
WorkersDone(c) == AwaitWorkers(c, "select", "stop")
TimesOut(c) == CancelPool(c, "select", "stop") /\ timedOut' = timedOut \cup {c}

GracefulShutdown(c) ==
    \/ Store(c, "idle", "draining", "gDrain") \/ CloseJobs(c, "gDrain", "select")
    \/ WorkersDone(c) \/ TimesOut(c)
    \/ Store(c, "stop", "stopped", "closeResults")

\* Faulty variant: results is closed without waiting for the workers.
ForceShutdownNoWait(c) ==
    \/ Store(c, "idle", "stopped", "cancel")
    \/ CancelPool(c, "cancel", "fClose") /\ UNCHANGED timedOut
    \/ CloseJobs(c, "fClose", "closeResults")
\* Faulty variant: p.state is left alone.
ForceShutdownSilent(c) ==
    \/ Store(c, "idle", state, "cancel")
    \/ CancelPool(c, "cancel", "fClose") /\ UNCHANGED timedOut
    \/ CloseJobs(c, "fClose", "fWait")
    \/ AwaitWorkers(c, "fWait", "closeResults")
ForceShutdown(c) ==
    \/ Store(c, "idle", "stopped", "cancel")
    \/ CancelPool(c, "cancel", "fClose") /\ UNCHANGED timedOut
    \/ CloseJobs(c, "fClose", "fWait")
    \/ AwaitWorkers(c, "fWait", "closeResults")

ShutDown(c) == GracefulShutdown(c) \/ ForceShutdown(c) \/ CloseResults(c)

GracefulNext ==
    \/ \E j \in Jobs : SubmitCheck(j)
    \/ \E j \in Jobs : SubmitCancelled(j)
    \/ \E j \in Jobs : (SendJob(j) \/ SendJobPanics(j)) /\ UNCHANGED <<state, timedOut, lateDrain>>
    \/ \E w \in Workers : GracefulWorker(w)
    \/ Receive /\ UNCHANGED <<state, timedOut, lateDrain>>
    \/ \E c \in Closers : Drain(c)
    \/ \E c \in Closers : ShutDown(c)

GracefulSpec == GracefulInit /\ [][GracefulNext]_gracefulVars
=============================================================================
