--------------------------- MODULE WorkersProofs ---------------------------
(***************************************************************************)
(* Theorems of the three worker pools, for any numbers of jobs, workers    *)
(* and goroutines that shut a pool down.  One inductive invariant serves   *)
(* the three; where they differ it asks which pool the behaviour is about. *)
(***************************************************************************)
EXTENDS MCWorkers, FiniteSetTheorems, TLAPS

-----------------------------------------------------------------------------
\* Nobody has cancelled the context, and no two calls of Resize have overlapped.
Clean == ~ctxDone /\ ~overlapped

ChanInv == ChanTypeOK /\ IsFiniteSet(jobs) /\ IsFiniteSet(results)

\* An accepted job is somewhere as long as the pool is clean.
NothingLost == Clean => Accepted \subseteq jobs \cup results \cup received \cup InHand

\* A worker of a clean pool leaves when there is nothing more to come.
LeftWhenDone == Clean => \A w \in Workers :
    worker[w] \in {"leave", "exit"} => jobs = {} /\ jobsClosed

\* The results of a clean pool are closed when no job is left anywhere.
ClosedWhenDone == Clean /\ resultsClosed =>
    jobs = {} /\ jobsClosed /\ \A w \in Workers : worker[w] \notin {"busy", "send"}

\* p.results is closed when all workers have left, but for the timeouts.
ClosedAfterWorkers ==
    \/ part = "dynamic" \/ timedOut # {}
    \/ AllExited
    \/ ~resultsClosed /\ \A c \in Closers : closer[c] \notin {"stop", "closeResults"}

Returned == \A c \in Closers : closer[c] = "returned" => resultsClosed
SomeWorker == \E w \in Workers : worker[w] # "none"

\* What only one of the pools does.
OwnWays ==
    /\ part \in {"basic", "graceful", "dynamic"}
    /\ part # "dynamic" => ~overlapped /\ ~late /\ ~Crashed
    /\ part # "graceful" => timedOut = {}
    /\ timedOut # {} => ctxDone
    /\ part = "dynamic" =>
         /\ ctxDone => late
         /\ resultsClosed \/ late => jobsClosed
         /\ \A c \in Closers : closer[c] # "idle" => jobsClosed
    /\ Crashed => late \/ overlapped

\* p.state is stopped unless a Drain came too late, a graceful shutdown is on its way to
\* store it, or nobody but callers of Drain has come.
StoppedLast == part = "graceful" =>
    /\ \/ state = "stopped" \/ lateDrain
       \/ \E c \in Closers : closer[c] \in {"gDrain", "select", "stop"}
       \/ \A c \in Closers : closer[c] \in {"idle", "drain", "drained"}
    /\ lateDrain => state = "draining"
    /\ state = "running" => \A c \in Closers : closer[c] = "idle"

WorkersShape ==
    /\ closer \in [Closers -> ClosingAt \cup {"idle", "returned", "drained", "panicked"}]
    /\ state \in {"running", "draining", "stopped"} /\ timedOut \subseteq Closers /\ lateDrain \in BOOLEAN
    /\ resize \in [Resizers -> Int] /\ {overlapped, late} \subseteq BOOLEAN

\* p.numWorkers counts; a Resize that does not overlap another stays within bounds,
\* so that no worker finds too many.
Living == {w \in Workers : Alive(w)}
SizeInv == part = "dynamic" =>
    /\ numWorkers \in Int /\ numWorkers = Cardinality(Living)
    /\ ~overlapped =>
         /\ numWorkers <= MaxWorkers
         /\ \A r \in Resizers : resize[r] > 0 =>
              numWorkers + resize[r] <= MaxWorkers /\ \A q \in Resizers \ {r} : resize[q] <= 0
         /\ ~jobsClosed => MinWorkers <= numWorkers /\ \A w \in Workers : worker[w] # "leave"

WorkersInv ==
    /\ ChanInv /\ NothingLost /\ LeftWhenDone /\ ClosedWhenDone /\ ClosedAfterWorkers
    /\ Returned /\ SomeWorker /\ OwnWays /\ StoppedLast /\ WorkersShape /\ SizeInv

-----------------------------------------------------------------------------
(***************************************************************************)
(* The steps of the three pools, sorted by what they do to the channels.   *)
(***************************************************************************)
SubmitLabels == {"new", "sending", "accepted", "refused", "panicked"}
WorkerLabels == {"none", "idle", "busy", "send", "check", "leave", "exit", "panicked"}
Kept == UNCHANGED <<part, state, timedOut, lateDrain, resize, overlapped, late,
                    jobsClosed, resultsClosed, ctxDone, closer>>

\* A submission goes on, or ends without being accepted.
Submits(j) ==
    /\ submit[j] # "accepted"
    /\ \E l \in SubmitLabels \ {"accepted"} : SubmitAt(j, l)
    /\ UNCHANGED <<jobs, results, received, worker, hand, numWorkers>> /\ Kept

\* A worker goes on without touching a channel, or quits for one of three reasons.
Quits(w) ==
    /\ worker[w] \in {"idle", "check"} /\ WorkerAt(w, "leave")
    /\ ctxDone \/ (jobs = {} /\ jobsClosed) \/ (part = "dynamic" /\ TooMany)
GoesOn(w) ==
    \/ worker[w] = "busy" /\ WorkerAt(w, "send")
    \/ worker[w] = "check" /\ WorkerAt(w, "idle")
Moves(w) ==
    /\ Quits(w) \/ GoesOn(w)
    /\ UNCHANGED <<jobs, results, received, hand, submit, numWorkers>> /\ Kept

Leaves(w) == Leave(w) /\ Kept /\ (part = "dynamic" => numWorkers' = numWorkers - 1)

Takes(w, j) ==
    /\ worker[w] = "idle" /\ j \in jobs
    /\ jobs' = jobs \ {j} /\ hand' = [hand EXCEPT ![w] = j] /\ WorkerAt(w, "busy")
    /\ UNCHANGED <<results, received, submit, numWorkers>> /\ Kept

Delivers(w) ==
    /\ SendResult(w, "idle") \/ SendResult(w, "check")
    /\ UNCHANGED numWorkers /\ Kept

Drops(w) ==
    /\ \/ part = "graceful" /\ (ctxDone \/ resultsClosed) /\ DropResult(w, "leave")
       \/ part # "graceful" /\ resultsClosed /\ DropResult(w, "panicked")
    /\ Kept /\ (part = "dynamic" => numWorkers' = numWorkers - 1)

Spawns(r) == part = "dynamic" /\ Spawn(r) /\ UNCHANGED <<part, gracefulOnly>>
Resizes(r) == part = "dynamic" /\ Resize(r) /\ UNCHANGED <<part, gracefulOnly>>

\* Somebody shuts the pool down, or the caller cancels its context.
BasicClosing == part = "basic" /\ UNCHANGED <<part, gracefulOnly, dynamicOnly>> /\
    (CancelContext \/ \E c \in Closers : Close(c) \/ Wait(c))
GracefulClosing == part = "graceful" /\ UNCHANGED <<part, dynamicOnly>> /\
    \E c \in Closers : Drain(c) \/ ShutDown(c)
DynamicClosing == part = "dynamic" /\ UNCHANGED <<part, gracefulOnly>> /\ ~Crashed /\
    \E c \in Closers : CloseDynamic(c) \/ Shutdown(c)
Closing == BasicClosing \/ GracefulClosing \/ DynamicClosing

WorkersStep ==
    \/ \E j \in Jobs : Submits(j) \/ (SendJob(j) /\ UNCHANGED numWorkers /\ Kept)
    \/ \E w \in Workers : Moves(w) \/ Leaves(w) \/ (\E j \in jobs : Takes(w, j)) \/ Delivers(w) \/ Drops(w)
    \/ Receive /\ UNCHANGED numWorkers /\ Kept
    \/ \E r \in Resizers : Spawns(r) \/ Resizes(r)
    \/ Closing
    \/ UNCHANGED allVars

LEMMA StepsSorted == [Next]_allVars => WorkersStep
<1> SUFFICES ASSUME [Next]_allVars PROVE WorkersStep
  OBVIOUS
<1> USE DEF gracefulOnly, dynamicOnly, Kept, SubmitLabels
<1>1. ASSUME NEW j \in Jobs, part' = part, UNCHANGED <<gracefulOnly, dynamicOnly>>,
             Submit(j) \/ SubmitCheck(j) \/ SubmitCancelled(j) \/ SubmitDynamic(j) \/ SendJobPanics(j)
      PROVE  Submits(j)
  BY <1>1 DEF Submit, SubmitCheck, SubmitCancelled, SubmitDynamic, SendJobPanics, Submits, SubmitAt
<1>2. ASSUME NEW w \in Workers, part' = part, UNCHANGED <<gracefulOnly, dynamicOnly>>,
             WorkerCancelled(w) \/ Take(w) \/ Process(w)
      PROVE  Moves(w) \/ \E j \in jobs : Takes(w, j)
  <2>1. CASE WorkerCancelled(w) \/ Process(w)
    <3>1. CASE WorkerCancelled(w)
      BY <1>2, <3>1 DEF WorkerCancelled, Moves, Quits
    <3>2. CASE Process(w)
      BY <1>2, <3>2 DEF Process, Moves, GoesOn
    <3> QED BY <2>1, <3>1, <3>2
  <2>2. CASE Take(w) /\ jobs = {} /\ jobsClosed /\ WorkerAt(w, "leave") /\ UNCHANGED <<jobs, hand>>
    BY <1>2, <2>2 DEF Take, Moves, Quits
  <2>3. ASSUME NEW j \in jobs, Take(w), jobs' = jobs \ {j}, hand' = [hand EXCEPT ![w] = j], WorkerAt(w, "busy")
        PROVE  Takes(w, j)
    BY <1>2, <2>3 DEF Take, Takes
  <2> QED BY <1>2, <2>1, <2>2, <2>3 DEF Take
<1>3. CASE Basic(BasicNext)
  <2>0. part = "basic" /\ BasicNext /\ part' = part /\ UNCHANGED <<gracefulOnly, dynamicOnly>>
    BY <1>3 DEF Basic, Only
  <2>1. ASSUME NEW w \in Workers, BasicWorker(w) PROVE WorkersStep
    <3>1. CASE SendResult(w, "idle")
      BY <2>0, <3>1 DEF WorkersStep, Delivers, SendResult
    <3>2. CASE Leave(w)
      BY <2>0, <3>2 DEF WorkersStep, Leaves, Leave
    <3>3. CASE resultsClosed /\ DropResult(w, "panicked")
      BY <2>0, <3>3 DEF WorkersStep, Drops, DropResult
    <3> QED BY <2>0, <2>1, <1>2, <3>1, <3>2, <3>3 DEF BasicWorker, WorkersStep
  <2>2. ASSUME NEW j \in Jobs, SendJob(j) PROVE WorkersStep
    BY <2>0, <2>2 DEF WorkersStep, SendJob
  <2>3. CASE Receive
    BY <2>0, <2>3 DEF WorkersStep, Receive
  <2> QED BY <2>0, <1>1, <2>1, <2>2, <2>3 DEF BasicNext, WorkersStep, Closing, BasicClosing
<1>4. CASE Graceful(GracefulNext)
  <2>0. part = "graceful" /\ GracefulNext /\ part' = part /\ UNCHANGED dynamicOnly
    BY <1>4 DEF Graceful, Only
  <2>1. ASSUME NEW w \in Workers, GracefulWorker(w) PROVE WorkersStep
    <3>0. UNCHANGED <<gracefulOnly, dynamicOnly>>
      BY <2>0, <2>1 DEF GracefulWorker
    <3>1. CASE SendResult(w, "idle")
      BY <2>0, <3>0, <3>1 DEF WorkersStep, Delivers, SendResult
    <3>2. CASE Leave(w)
      BY <2>0, <3>0, <3>2 DEF WorkersStep, Leaves, Leave
    <3>3. CASE (ctxDone \/ resultsClosed) /\ DropResult(w, "leave")
      BY <2>0, <3>0, <3>3 DEF WorkersStep, Drops, DropResult
    <3> QED BY <2>0, <2>1, <3>0, <1>2, <3>1, <3>2, <3>3 DEF GracefulWorker, WorkersStep
  <2>2. ASSUME NEW j \in Jobs, SendJob(j), UNCHANGED gracefulOnly PROVE WorkersStep
    BY <2>0, <2>2 DEF WorkersStep, SendJob
  <2>3. ASSUME Receive, UNCHANGED gracefulOnly PROVE WorkersStep
    BY <2>0, <2>3 DEF WorkersStep, Receive
  <2>4. ASSUME NEW j \in Jobs,
               SubmitCheck(j) \/ SubmitCancelled(j) \/ (SendJobPanics(j) /\ UNCHANGED gracefulOnly)
        PROVE  WorkersStep
    <3>1. UNCHANGED <<gracefulOnly, dynamicOnly>>
      BY <2>0, <2>4 DEF SubmitCheck, SubmitCancelled
    <3> QED BY <2>0, <2>4, <3>1, <1>1 DEF WorkersStep
  <2> QED BY <2>0, <2>1, <2>2, <2>3, <2>4 DEF GracefulNext, WorkersStep, Closing, GracefulClosing
<1>5. CASE Dynamic(DynamicNext)
  <2>0. part = "dynamic" /\ DynamicNext /\ part' = part /\ UNCHANGED gracefulOnly
    BY <1>5 DEF Dynamic, Only
  <2>1. ASSUME NEW w \in Workers, DynamicWorker(w) PROVE WorkersStep
    <3>0. UNCHANGED <<resize, overlapped, late>>
      BY <2>1 DEF DynamicWorker
    <3>1. CASE SendResult(w, "check") /\ UNCHANGED numWorkers
      BY <2>0, <3>0, <3>1 DEF WorkersStep, Delivers, SendResult
    <3>2. CASE Leave(w) /\ numWorkers' = numWorkers - 1
      BY <2>0, <3>0, <3>2 DEF WorkersStep, Leaves, Leave
    <3>3. CASE resultsClosed /\ DropResult(w, "panicked") /\ numWorkers' = numWorkers - 1
      BY <2>0, <3>0, <3>3 DEF WorkersStep, Drops, DropResult
    <3>4. CASE Check(w)
      <4>1. Moves(w)
        BY <2>0, <3>0, <3>4 DEF Check, Moves, Quits, GoesOn
      <4> QED BY <4>1 DEF WorkersStep
    <3>5. CASE (WorkerCancelled(w) \/ Take(w) \/ Process(w)) /\ UNCHANGED numWorkers
      BY <2>0, <3>0, <3>5, <1>2 DEF WorkersStep
    <3> QED BY <2>1, <3>1, <3>2, <3>3, <3>4, <3>5 DEF DynamicWorker
  <2>2. ASSUME NEW j \in Jobs, SendJob(j), UNCHANGED dynamicOnly PROVE WorkersStep
    BY <2>0, <2>2 DEF WorkersStep, SendJob
  <2>3. ASSUME Receive, UNCHANGED dynamicOnly PROVE WorkersStep
    BY <2>0, <2>3 DEF WorkersStep, Receive
  <2>4. ASSUME NEW j \in Jobs, SubmitDynamic(j) \/ (SendJobPanics(j) /\ UNCHANGED dynamicOnly)
        PROVE  WorkersStep
    <3>1. UNCHANGED <<gracefulOnly, dynamicOnly>>
      BY <2>0, <2>4 DEF SubmitDynamic
    <3> QED BY <2>0, <2>4, <3>1, <1>1 DEF WorkersStep
  <2> QED BY <2>0, <2>1, <2>2, <2>3, <2>4
          DEF DynamicNext, WorkersStep, Closing, DynamicClosing, Spawns, Resizes
<1>6. CASE UNCHANGED allVars
  BY <1>6 DEF WorkersStep
<1> QED BY <1>3, <1>4, <1>5, <1>6 DEF Next

-----------------------------------------------------------------------------
(***************************************************************************)
(* The channels: a job is in one place, and the buffers are finite.        *)
(***************************************************************************)
\* Shutting a pool down moves no job and no worker, and closes and cancels for good.
LEMMA ClosingKeepsChannels ==
    ASSUME Closing, {jobsClosed, resultsClosed, ctxDone} \subseteq BOOLEAN
    PROVE  /\ UNCHANGED <<part, jobs, results, received, worker, hand, submit, numWorkers, resize, overlapped>>
           /\ {jobsClosed, resultsClosed, ctxDone}' \subseteq BOOLEAN
           /\ (jobsClosed => jobsClosed') /\ (resultsClosed => resultsClosed') /\ (ctxDone => ctxDone')
<1>1. CASE BasicClosing
  <2>0. part' = part /\ UNCHANGED <<numWorkers, resize, overlapped>>
    BY <1>1 DEF BasicClosing, dynamicOnly
  <2>1. CASE CancelContext
    BY <2>0, <2>1 DEF CancelContext
  <2>2. ASSUME NEW c \in Closers, Close(c)
        PROVE  UNCHANGED <<jobs, results, received, worker, hand, submit, resultsClosed, ctxDone>> /\ jobsClosed' = TRUE
    BY <2>2 DEF Close
  <2>3. ASSUME NEW c \in Closers, Wait(c)
        PROVE  UNCHANGED <<jobs, results, received, worker, hand, submit, jobsClosed, ctxDone>> /\ resultsClosed' = TRUE
    BY <2>3 DEF Wait
  <2> QED BY <1>1, <2>0, <2>1, <2>2, <2>3 DEF BasicClosing
<1>2. CASE GracefulClosing
  <2>1. PICK c \in Closers : Drain(c) \/ ShutDown(c)
    BY <1>2 DEF GracefulClosing
  <2>2. part' = part /\ UNCHANGED dynamicOnly
    BY <1>2 DEF GracefulClosing
  <2>3. ASSUME NEW from, NEW s, NEW label, Store(c, from, s, label)
        PROVE  UNCHANGED <<jobs, results, received, worker, hand, submit, jobsClosed, resultsClosed, ctxDone>>
    BY <2>3 DEF Store
  <2>4. ASSUME NEW from, NEW label, CloseJobs(c, from, label)
        PROVE  UNCHANGED <<jobs, results, received, worker, hand, submit, resultsClosed, ctxDone>> /\ jobsClosed' = TRUE
    BY <2>4 DEF CloseJobs
  <2>5. ASSUME NEW from, NEW label, AwaitWorkers(c, from, label)
        PROVE  UNCHANGED <<jobs, results, received, worker, hand, submit, jobsClosed, resultsClosed, ctxDone>>
    BY <2>5 DEF AwaitWorkers
  <2>6. ASSUME NEW from, NEW label, CancelPool(c, from, label)
        PROVE  UNCHANGED <<jobs, results, received, worker, hand, submit, jobsClosed, resultsClosed>> /\ ctxDone' = TRUE
    BY <2>6 DEF CancelPool
  <2>7. ASSUME CloseResults(c)
        PROVE  UNCHANGED <<jobs, results, received, worker, hand, submit, jobsClosed, ctxDone>> /\ resultsClosed' = TRUE
    BY <2>7 DEF CloseResults
  <2>8. CASE Drain(c)
    BY <2>2, <2>3, <2>4, <2>8 DEF Drain, dynamicOnly
  <2>9. CASE GracefulShutdown(c)
    BY <2>2, <2>3, <2>4, <2>5, <2>6, <2>9 DEF GracefulShutdown, WorkersDone, TimesOut, dynamicOnly
  <2>10. CASE ForceShutdown(c)
    BY <2>2, <2>3, <2>4, <2>5, <2>6, <2>10 DEF ForceShutdown, dynamicOnly
  <2>11. CASE CloseResults(c)
    BY <2>2, <2>7, <2>11 DEF dynamicOnly
  <2> QED BY <2>1, <2>8, <2>9, <2>10, <2>11 DEF ShutDown
<1>3. CASE DynamicClosing
  <2>1. ASSUME NEW c \in Closers, CloseDynamic(c)
        PROVE  UNCHANGED <<jobs, results, received, worker, hand, submit, numWorkers, resize, overlapped,
                           resultsClosed, ctxDone>> /\ jobsClosed' = TRUE
    BY <2>1 DEF CloseDynamic
  <2>2. ASSUME NEW c \in Closers, Shutdown(c)
        PROVE  /\ UNCHANGED <<jobs, results, received, worker, hand, submit, numWorkers, resize, overlapped,
                              jobsClosed>>
               /\ resultsClosed' = TRUE /\ ctxDone' \in {ctxDone, TRUE}
    BY <2>2 DEF Shutdown
  <2> QED BY <1>3, <2>1, <2>2 DEF DynamicClosing
<1> QED BY <1>1, <1>2, <1>3 DEF Closing

LEMMA StepChanInv == ChanInv /\ WorkersStep => ChanInv'
<1> SUFFICES ASSUME ChanInv, WorkersStep PROVE ChanInv'
  OBVIOUS
<1> DEFINE Typed ==
             /\ {jobsClosed, resultsClosed, ctxDone} \subseteq BOOLEAN
             /\ worker \in [Workers -> WorkerLabels] /\ submit \in [Jobs -> SubmitLabels]
             /\ hand \in [Workers -> Jobs \cup {NoJob}]
             /\ \A w \in Workers : worker[w] \in {"busy", "send"} <=> hand[w] # NoJob
           Buffered == /\ jobs \subseteq Jobs /\ results \subseteq Jobs /\ received \subseteq Jobs
                       /\ IsFiniteSet(jobs) /\ IsFiniteSet(results)
                       /\ Cardinality(jobs) <= BufferSize /\ Cardinality(results) <= BufferSize
           Apart ==
             /\ jobs \cup results \cup received \subseteq Accepted
             /\ jobs \cap results = {} /\ jobs \cap received = {} /\ results \cap received = {}
             /\ \A w \in Workers : hand[w] = NoJob \/
                  (hand[w] \in Accepted /\ hand[w] \notin jobs \cup results \cup received)
             /\ \A v, w \in Workers : hand[v] = hand[w] => v = w \/ hand[v] = NoJob
<1>0. Typed /\ Buffered /\ Apart
  BY DEF ChanInv, ChanTypeOK, WorkerLabels, SubmitLabels, InHand
<1>a. Typed' /\ Buffered' /\ Apart' => ChanInv'
  BY DEF ChanInv, ChanTypeOK, WorkerLabels, SubmitLabels, InHand
<1>b. BufferSize \in Nat /\ NoJob \notin Jobs
  BY PoolChannelsAssumption
<1> USE DEF SubmitAt, WorkerAt, Kept, Accepted
<1>1. ASSUME NEW j \in Jobs, Submits(j) PROVE Typed' /\ Buffered' /\ Apart'
  BY <1>0, <1>1 DEF Submits, SubmitLabels
<1>2. ASSUME NEW j \in Jobs, SendJob(j), Kept PROVE Typed' /\ Buffered' /\ Apart'
  <2>1. submit[j] = "sending" /\ j \notin jobs \cup results \cup received
    BY <1>0, <1>2 DEF SendJob
  <2>2. IsFiniteSet(jobs \cup {j}) /\ Cardinality(jobs \cup {j}) = Cardinality(jobs) + 1
        /\ Cardinality(jobs) \in Nat
    BY <1>0, <2>1, FS_AddElement, FS_CardinalityType
  <2>3. Buffered'
    BY <1>0, <1>b, <1>2, <2>2 DEF SendJob
  <2>4. Typed'
    BY <1>0, <1>2 DEF SendJob, SubmitLabels
  <2>5. Apart'
    BY <1>0, <1>b, <1>2, <2>1 DEF SendJob, SubmitLabels
  <2> QED BY <2>3, <2>4, <2>5
<1>3. ASSUME NEW w \in Workers, Moves(w) \/ (Leaves(w) /\ Leave(w)) PROVE Typed' /\ Buffered' /\ Apart'
  BY <1>0, <1>3 DEF Moves, Quits, GoesOn, Leaves, Leave, WorkerLabels
<1>4. ASSUME NEW w \in Workers, NEW j \in jobs, Takes(w, j) PROVE Typed' /\ Buffered' /\ Apart'
  <2>1. IsFiniteSet(jobs \ {j}) /\ Cardinality(jobs \ {j}) = Cardinality(jobs) - 1
        /\ Cardinality(jobs) \in Nat
    BY <1>0, FS_RemoveElement, FS_CardinalityType
  <2>2. Buffered'
    BY <1>0, <1>b, <1>4, <2>1 DEF Takes
  <2>3. Typed'
    BY <1>0, <1>b, <1>4 DEF Takes, WorkerLabels
  <2>4. Apart'
    BY <1>0, <1>b, <1>4 DEF Takes
  <2> QED BY <2>2, <2>3, <2>4
<1>5. ASSUME NEW w \in Workers, Delivers(w) PROVE Typed' /\ Buffered' /\ Apart'
  <2>0. worker[w] = "send" /\ hand[w] \in Jobs /\ hand[w] \notin results
        /\ Cardinality(results) < BufferSize /\ results' = results \cup {hand[w]}
        /\ UNCHANGED <<jobs, received, submit>>
    BY <1>0, <1>b, <1>5 DEF Delivers, SendResult
  <2>1. IsFiniteSet(results \cup {hand[w]}) /\ Cardinality(results) \in Nat
        /\ Cardinality(results \cup {hand[w]}) = Cardinality(results) + 1
    BY <1>0, <2>0, FS_AddElement, FS_CardinalityType
  <2>2. Buffered'
    BY <1>0, <1>b, <2>0, <2>1
  <2>3. Typed'
    BY <1>0, <1>b, <1>5 DEF Delivers, SendResult, WorkerLabels
  <2>4. Apart'
    BY <1>0, <1>b, <1>5, <2>0 DEF Delivers, SendResult
  <2> QED BY <2>2, <2>3, <2>4
<1>6. ASSUME NEW w \in Workers, Drops(w) PROVE Typed' /\ Buffered' /\ Apart'
  BY <1>0, <1>b, <1>6 DEF Drops, DropResult, WorkerLabels
<1>7. ASSUME Receive, Kept PROVE Typed' /\ Buffered' /\ Apart'
  <2>1. PICK j \in results : results' = results \ {j} /\ received' = received \cup {j}
    BY <1>7 DEF Receive
  <2>2. IsFiniteSet(results \ {j}) /\ Cardinality(results \ {j}) = Cardinality(results) - 1
        /\ Cardinality(results) \in Nat
    BY <1>0, FS_RemoveElement, FS_CardinalityType
  <2>3. Buffered'
    BY <1>0, <1>b, <1>7, <2>1, <2>2 DEF Receive
  <2>4. Typed'
    BY <1>0, <1>7 DEF Receive
  <2>5. Apart'
    BY <1>0, <1>7, <2>1 DEF Receive
  <2> QED BY <2>3, <2>4, <2>5
<1>8. ASSUME NEW r \in Resizers, Spawns(r) PROVE Typed' /\ Buffered' /\ Apart'
  BY <1>0, <1>8 DEF Spawns, Spawn, WorkerLabels
<1>9. ASSUME NEW r \in Resizers, Resizes(r) PROVE Typed' /\ Buffered' /\ Apart'
  BY <1>0, <1>9 DEF Resizes, Resize, chanVars
<1>10. ASSUME UNCHANGED <<jobs, results, received, worker, hand, submit>>,
              {jobsClosed, resultsClosed, ctxDone}' \subseteq BOOLEAN
       PROVE  Typed' /\ Buffered' /\ Apart'
  BY <1>0, <1>10
<1>11. CASE Closing
  BY <1>0, <1>a, <1>10, <1>11, ClosingKeepsChannels
<1>12. CASE UNCHANGED allVars
  BY <1>0, <1>a, <1>10, <1>12 DEF allVars, chanVars
<1> QED BY <1>a, <1>1, <1>2, <1>3, <1>4, <1>5, <1>6, <1>7, <1>8, <1>9, <1>11, <1>12
        DEF WorkersStep, Leaves

-----------------------------------------------------------------------------
(***************************************************************************)
(* No job is lost, and the results are closed when there are no more.      *)
(***************************************************************************)
LEMMA ChanTyped == ChanInv =>
    /\ {jobsClosed, resultsClosed, ctxDone} \subseteq BOOLEAN
    /\ worker \in [Workers -> WorkerLabels] /\ submit \in [Jobs -> SubmitLabels]
    /\ hand \in [Workers -> Jobs \cup {NoJob}]
    /\ \A w \in Workers : worker[w] \in {"busy", "send"} <=> hand[w] # NoJob
BY DEF ChanInv, ChanTypeOK, WorkerLabels, SubmitLabels

\* A worker gives a result up only when the context is cancelled or calls of Resize
\* have overlapped.
LEMMA DropsUnclean ==
    ASSUME WorkersInv, NEW w \in Workers, Drops(w)
    PROVE  ~Clean /\ part # "basic" /\ (part = "dynamic" => late \/ overlapped)
<1>1. worker[w] = "send"
  BY DEF Drops, DropResult
<1>2. Alive(w)
  BY <1>1 DEF Alive
<1>3. ~AllExited
  BY <1>2 DEF AllExited
<1> QED BY <1>1, <1>3 DEF WorkersInv, Drops, ClosedWhenDone, ClosedAfterWorkers, OwnWays, Clean

\* Cancelling and overlapping are for good, and only a resize and a shutdown do it.
LEMMA CleanBefore ==
    ASSUME ChanInv, WorkersShape, WorkersStep
    PROVE  (Clean' => Clean) /\ (~Closing => (resultsClosed' <=> resultsClosed) /\ (jobsClosed' <=> jobsClosed))
<1> USE DEF Clean
<1>1. CASE Closing
  BY <1>1, ClosingKeepsChannels, ChanTyped
<1>2. ASSUME Kept PROVE UNCHANGED <<ctxDone, overlapped, jobsClosed, resultsClosed>>
  BY <1>2 DEF Kept
<1>3. ASSUME NEW r \in Resizers, Spawns(r) PROVE UNCHANGED <<ctxDone, overlapped, jobsClosed, resultsClosed>>
  BY <1>3 DEF Spawns, Spawn
<1>4. ASSUME NEW r \in Resizers, Resizes(r)
      PROVE  UNCHANGED <<ctxDone, jobsClosed, resultsClosed>> /\ (~overlapped' => ~overlapped)
  BY <1>4 DEF Resizes, Resize, chanVars, WorkersShape
<1>5. CASE UNCHANGED allVars
  BY <1>5 DEF allVars, chanVars, dynamicOnly
<1> QED BY <1>1, <1>2, <1>3, <1>4, <1>5 DEF WorkersStep, Submits, Moves, Leaves, Takes, Delivers, Drops

\* Receive, by the job.
LEMMA Received == Receive /\ Kept => \E j \in results :
    /\ results' = results \ {j} /\ received' = received \cup {j}
    /\ UNCHANGED <<jobs, worker, hand, submit>>
BY DEF Receive

LEMMA StepNothingLost == WorkersInv /\ WorkersStep => NothingLost'
<1> SUFFICES ASSUME WorkersInv, WorkersStep, Clean',
                    NEW j \in Jobs, submit'[j] = "accepted"
             PROVE  j \in jobs' \cup results' \cup received' \cup InHand'
  BY DEF NothingLost, Accepted
<1> DEFINE Somewhere == j \in jobs \cup results \cup received \/ \E w \in Workers : hand[w] = j
<1>0. Clean /\ NoJob \notin Jobs
  BY CleanBefore, PoolChannelsAssumption DEF WorkersInv
<1>a. submit[j] = "accepted" => Somewhere
  BY <1>0 DEF WorkersInv, NothingLost, Accepted, InHand
<1>b. Somewhere' => j \in jobs' \cup results' \cup received' \cup InHand'
  BY <1>0 DEF InHand
<1>c. /\ worker \in [Workers -> WorkerLabels] /\ submit \in [Jobs -> SubmitLabels]
      /\ hand \in [Workers -> Jobs \cup {NoJob}]
      /\ \A w \in Workers : worker[w] \in {"busy", "send"} <=> hand[w] # NoJob
  BY ChanTyped DEF WorkersInv
<1> USE DEF SubmitAt, WorkerAt
<1>1. ASSUME NEW i \in Jobs, Submits(i) PROVE Somewhere'
  BY <1>a, <1>c, <1>1 DEF Submits
<1>2. ASSUME NEW i \in Jobs, SendJob(i) PROVE Somewhere'
  BY <1>a, <1>c, <1>2 DEF SendJob
<1>3. ASSUME NEW w \in Workers, Moves(w) \/ Leave(w) PROVE Somewhere'
  BY <1>a, <1>3 DEF Moves, Leave
<1>4. ASSUME NEW w \in Workers, NEW i \in jobs, Takes(w, i) PROVE Somewhere'
  BY <1>0, <1>a, <1>c, <1>4 DEF Takes
<1>5. ASSUME NEW w \in Workers, Delivers(w) PROVE Somewhere'
  BY <1>a, <1>c, <1>5 DEF Delivers, SendResult
<1>6. ASSUME Receive, Kept PROVE Somewhere'
  BY <1>a, <1>6, Received
<1>7. ASSUME UNCHANGED <<jobs, results, received, hand, submit>> PROVE Somewhere'
  BY <1>a, <1>7
<1>8. ASSUME NEW r \in Resizers, Spawns(r) \/ Resizes(r) PROVE Somewhere'
  <2>1. UNCHANGED <<jobs, results, received, hand, submit>>
    BY <1>8 DEF Spawns, Spawn, Resizes, Resize, chanVars
  <2> QED BY <2>1, <1>7
<1>9. CASE Closing
  BY <1>7, <1>9, <1>b, ClosingKeepsChannels, ChanTyped DEF WorkersInv
<1>10. CASE UNCHANGED allVars
  BY <1>7, <1>10, <1>b DEF allVars, chanVars
<1>11. ASSUME NEW w \in Workers, Drops(w) PROVE FALSE
  BY <1>0, <1>11, DropsUnclean
<1> QED BY <1>b, <1>1, <1>2, <1>3, <1>4, <1>5, <1>6, <1>8, <1>9, <1>10, <1>11 DEF WorkersStep, Leaves

\* No worker of a clean pool finds too many.
LEMMA NeverTooMany == WorkersInv /\ Clean /\ part = "dynamic" => ~TooMany
<1> SUFFICES ASSUME WorkersInv, Clean, part = "dynamic" PROVE ~TooMany
  OBVIOUS
<1>1. numWorkers \in Int /\ numWorkers <= MaxWorkers /\ MaxWorkers \in Nat
  BY DynamicAssumption DEF WorkersInv, SizeInv, Clean
<1> QED BY <1>1 DEF TooMany

LEMMA StepLeftWhenDone == WorkersInv /\ WorkersStep => LeftWhenDone'
<1> SUFFICES ASSUME WorkersInv, WorkersStep, Clean', NEW v \in Workers, worker'[v] \in {"leave", "exit"}
             PROVE  jobs' = {} /\ jobsClosed'
  BY DEF LeftWhenDone
<1>0. Clean
  BY CleanBefore DEF WorkersInv
<1>a. worker[v] \in {"leave", "exit"} => jobs = {} /\ jobsClosed
  BY <1>0 DEF WorkersInv, LeftWhenDone
<1>c. worker \in [Workers -> WorkerLabels] /\ {jobsClosed, resultsClosed, ctxDone} \subseteq BOOLEAN
  BY ChanTyped DEF WorkersInv
<1> USE DEF WorkerAt, Kept
<1>1. ASSUME NEW i \in Jobs, Submits(i) PROVE jobs' = {} /\ jobsClosed'
  BY <1>a, <1>1 DEF Submits
<1>2. ASSUME NEW i \in Jobs, SendJob(i) PROVE jobs' = {} /\ jobsClosed'
  BY <1>a, <1>2 DEF SendJob
<1>3. ASSUME NEW w \in Workers, Moves(w) PROVE jobs' = {} /\ jobsClosed'
  BY <1>0, <1>a, <1>c, <1>3, NeverTooMany DEF Moves, Quits, GoesOn, Clean
<1>4. ASSUME NEW w \in Workers, Leaves(w) PROVE jobs' = {} /\ jobsClosed'
  <2>1. worker[w] = "leave"
    BY <1>4 DEF Leaves, Leave
  <2> QED BY <2>1, <1>0, <1>4 DEF Leaves, Leave, WorkersInv, LeftWhenDone
<1>5. ASSUME NEW w \in Workers, NEW i \in jobs, Takes(w, i) PROVE jobs' = {} /\ jobsClosed'
  BY <1>a, <1>c, <1>5 DEF Takes
<1>6. ASSUME NEW w \in Workers, Delivers(w) PROVE jobs' = {} /\ jobsClosed'
  BY <1>a, <1>c, <1>6 DEF Delivers, SendResult
<1>7. ASSUME Receive, Kept PROVE jobs' = {} /\ jobsClosed'
  BY <1>a, <1>7, Received
<1>8. ASSUME NEW r \in Resizers, Spawns(r) \/ Resizes(r) PROVE jobs' = {} /\ jobsClosed'
  <2>1. CASE Spawns(r)
    BY <1>a, <1>c, <2>1 DEF Spawns, Spawn
  <2>2. CASE Resizes(r)
    BY <1>a, <2>2 DEF Resizes, Resize, chanVars
  <2> QED BY <1>8, <2>1, <2>2
<1>9. CASE Closing
  BY <1>a, <1>c, <1>9, ClosingKeepsChannels
<1>10. CASE UNCHANGED allVars
  BY <1>a, <1>10 DEF allVars, chanVars
<1>11. ASSUME NEW w \in Workers, Drops(w) PROVE FALSE
  BY <1>0, <1>11, DropsUnclean
<1> QED BY <1>1, <1>2, <1>3, <1>4, <1>5, <1>6, <1>7, <1>8, <1>9, <1>10, <1>11 DEF WorkersStep

\* When all workers of a clean pool have left, nothing is left to do.
LEMMA AllDone ==
    ASSUME WorkersInv, Clean, AllExited, ~Crashed
    PROVE  jobs = {} /\ jobsClosed /\ \A w \in Workers : worker[w] \notin {"busy", "send"}
<1>1. PICK w \in Workers : worker[w] # "none"
  BY DEF WorkersInv, SomeWorker
<1>2. worker[w] = "exit"
  BY <1>1, ChanTyped DEF AllExited, Alive, Crashed, WorkerLabels, WorkersInv
<1> QED BY <1>2 DEF WorkersInv, LeftWhenDone, AllExited, Alive

\* p.results is closed by one of three calls.
LEMMA ClosingResults ==
    ASSUME WorkersInv, Closing, ~resultsClosed, resultsClosed'
    PROVE  \/ part = "basic" /\ AllExited
           \/ part = "graceful" /\ \E c \in Closers : closer[c] = "closeResults"
           \/ part = "dynamic" /\ ~Crashed /\ (AllExited \/ (ctxDone' /\ late'))
<1>1. CASE BasicClosing
  BY <1>1 DEF BasicClosing, CancelContext, Close, Wait
<1>2. CASE GracefulClosing
  <2>1. PICK c \in Closers : Drain(c) \/ ShutDown(c)
    BY <1>2 DEF GracefulClosing
  <2>2. \A from, s, label : Store(c, from, s, label) => UNCHANGED resultsClosed
    BY DEF Store
  <2>3. \A from, label : CloseJobs(c, from, label) \/ AwaitWorkers(c, from, label)
                         \/ CancelPool(c, from, label) => UNCHANGED resultsClosed
    BY DEF CloseJobs, AwaitWorkers, CancelPool
  <2>4. CloseResults(c)
    BY <2>1, <2>2, <2>3 DEF Drain, ShutDown, GracefulShutdown, ForceShutdown, WorkersDone, TimesOut
  <2> QED BY <1>2, <2>4 DEF GracefulClosing, CloseResults
<1>3. CASE DynamicClosing
  BY <1>3 DEF DynamicClosing, CloseDynamic, Shutdown
<1> QED BY <1>1, <1>2, <1>3 DEF Closing

LEMMA StepClosedWhenDone == WorkersInv /\ WorkersStep => ClosedWhenDone'
<1> SUFFICES ASSUME WorkersInv, WorkersStep, Clean', resultsClosed'
             PROVE  (jobs = {} /\ jobsClosed /\ \A w \in Workers : worker[w] \notin {"busy", "send"})'
  BY DEF ClosedWhenDone
<1> DEFINE Done == jobs = {} /\ jobsClosed /\ \A w \in Workers : worker[w] \notin {"busy", "send"}
<1>0. Clean
  BY CleanBefore DEF WorkersInv
<1>a. resultsClosed => Done
  BY <1>0 DEF WorkersInv, ClosedWhenDone
<1>c. worker \in [Workers -> WorkerLabels] /\ {jobsClosed, resultsClosed, ctxDone} \subseteq BOOLEAN
  BY ChanTyped DEF WorkersInv
<1>1. CASE Closing
  <2>1. Done
    <3>1. CASE resultsClosed
      BY <1>a, <3>1
    <3>2. CASE ~resultsClosed
      <4>1. ~ctxDone' /\ (part # "dynamic" => ~Crashed) /\ (part = "graceful" => timedOut = {})
        BY <1>0 DEF Clean, WorkersInv, OwnWays
      <4>2. AllExited /\ ~Crashed
        BY <1>1, <3>2, <4>1, ClosingResults DEF WorkersInv, ClosedAfterWorkers
      <4> QED BY <1>0, <4>2, AllDone
    <3> QED BY <3>1, <3>2
  <2> QED BY <1>1, <1>c, <2>1, ClosingKeepsChannels
<1>2. CASE ~Closing
  <2>0. Done /\ jobsClosed'
    BY <1>2, <1>a, CleanBefore DEF WorkersInv
  <2> USE DEF WorkerAt
  <2>1. ASSUME NEW i \in Jobs, Submits(i) PROVE Done'
    BY <2>0, <2>1 DEF Submits
  <2>2. ASSUME NEW i \in Jobs, SendJob(i) PROVE FALSE
    BY <2>0, <2>2 DEF SendJob
  <2>3. ASSUME NEW w \in Workers, Moves(w) PROVE Done'
    BY <1>c, <2>0, <2>3 DEF Moves, Quits, GoesOn
  <2>4. ASSUME NEW w \in Workers, Leaves(w) PROVE Done'
    BY <1>c, <2>0, <2>4 DEF Leaves, Leave
  <2>5. ASSUME NEW w \in Workers, Delivers(w) \/ Drops(w) PROVE FALSE
    BY <2>0, <2>5 DEF Delivers, SendResult, Drops, DropResult
  <2>6. ASSUME Receive, Kept PROVE Done'
    BY <2>0, <2>6, Received
  <2>7. ASSUME NEW r \in Resizers, Spawns(r) PROVE Done'
    BY <1>c, <2>0, <2>7 DEF Spawns, Spawn
  <2>8. ASSUME NEW r \in Resizers, Resizes(r) PROVE Done'
    BY <2>0, <2>8 DEF Resizes, Resize, chanVars
  <2>9. CASE UNCHANGED allVars
    BY <2>0, <2>9 DEF allVars, chanVars
  <2> QED BY <1>2, <2>0, <2>1, <2>2, <2>3, <2>4, <2>5, <2>6, <2>7, <2>8, <2>9 DEF WorkersStep
<1> QED BY <1>1, <1>2

-----------------------------------------------------------------------------
(***************************************************************************)
(* The goroutines that shut a pool down.                                   *)
(***************************************************************************)
CloserLabels == ClosingAt \cup {"idle", "returned", "drained", "panicked"}

\* What a caller of Drain, GracefulShutdown or ForceShutdown goes through.
SameChans == UNCHANGED <<resultsClosed, ctxDone>>
SameState == UNCHANGED <<state, lateDrain>>
GracefulMove(c) ==
    \/ closer[c] = "idle" /\ closer'[c] = "drain" /\ state' = "draining" /\ UNCHANGED timedOut /\ SameChans
       /\ lateDrain' = (lateDrain \/ state = "stopped")
    \/ closer[c] = "idle" /\ closer'[c] = "gDrain" /\ state' = "draining" /\ UNCHANGED timedOut /\ SameChans
       /\ UNCHANGED lateDrain
    \/ closer[c] = "drain" /\ closer'[c] = "drained" /\ SameState /\ UNCHANGED timedOut /\ SameChans
    \/ closer[c] = "gDrain" /\ closer'[c] = "select" /\ SameState /\ UNCHANGED timedOut /\ SameChans
    \/ closer[c] = "select" /\ closer'[c] = "stop" /\ AllExited /\ SameState /\ UNCHANGED timedOut /\ SameChans
    \/ closer[c] = "select" /\ closer'[c] = "stop" /\ timedOut' = timedOut \cup {c} /\ ctxDone' = TRUE
       /\ SameState /\ UNCHANGED resultsClosed
    \/ closer[c] = "stop" /\ closer'[c] = "closeResults" /\ state' = "stopped" /\ UNCHANGED timedOut /\ SameChans
       /\ lateDrain' = FALSE
    \/ closer[c] = "idle" /\ closer'[c] = "cancel" /\ state' = "stopped" /\ UNCHANGED timedOut /\ SameChans
       /\ lateDrain' = FALSE
    \/ closer[c] = "cancel" /\ closer'[c] = "fClose" /\ ctxDone' = TRUE
       /\ SameState /\ UNCHANGED <<timedOut, resultsClosed>>
    \/ closer[c] = "fClose" /\ closer'[c] = "fWait" /\ SameState /\ UNCHANGED timedOut /\ SameChans
    \/ closer[c] = "fWait" /\ closer'[c] = "closeResults" /\ AllExited /\ SameState /\ UNCHANGED timedOut /\ SameChans
    \/ closer[c] = "closeResults" /\ closer'[c] = "returned" /\ resultsClosed' = TRUE
       /\ SameState /\ UNCHANGED <<timedOut, ctxDone>>

OneCloserMoves(c) == closer' \in [Closers -> CloserLabels] /\ \A d \in Closers \ {c} : closer'[d] = closer[d]

LEMMA GracefulMoves ==
    ASSUME closer \in [Closers -> CloserLabels], lateDrain \in BOOLEAN, GracefulClosing
    PROVE  \E c \in Closers :
             OneCloserMoves(c) /\ GracefulMove(c) /\ state' \in {state, "draining", "stopped"} /\ lateDrain' \in BOOLEAN
<1>1. PICK c \in Closers : Drain(c) \/ ShutDown(c)
  BY DEF GracefulClosing
<1> USE DEF CloserAt, CloserLabels, ClosingAt, SameChans, SameState, OneCloserMoves
<1> DEFINE Moved == OneCloserMoves(c) /\ GracefulMove(c) /\ state' \in {state, "draining", "stopped"} /\ lateDrain' \in BOOLEAN
<1>2. CASE Store(c, "idle", "draining", "drain")
  BY <1>2 DEF Store, GracefulMove
<1>3. CASE CloseJobs(c, "drain", "drained")
  BY <1>3 DEF CloseJobs, GracefulMove
<1>4. CASE Store(c, "idle", "draining", "gDrain")
  BY <1>4 DEF Store, GracefulMove
<1>5. CASE CloseJobs(c, "gDrain", "select")
  BY <1>5 DEF CloseJobs, GracefulMove
<1>6. CASE WorkersDone(c)
  BY <1>6 DEF WorkersDone, AwaitWorkers, GracefulMove
<1>7. CASE TimesOut(c)
  BY <1>7 DEF TimesOut, CancelPool, GracefulMove
<1>8. CASE Store(c, "stop", "stopped", "closeResults")
  BY <1>8 DEF Store, GracefulMove
<1>9. CASE Store(c, "idle", "stopped", "cancel")
  BY <1>9 DEF Store, GracefulMove
<1>10. CASE CancelPool(c, "cancel", "fClose") /\ UNCHANGED timedOut
  BY <1>10 DEF CancelPool, GracefulMove
<1>11. CASE CloseJobs(c, "fClose", "fWait")
  BY <1>11 DEF CloseJobs, GracefulMove
<1>12. CASE AwaitWorkers(c, "fWait", "closeResults")
  BY <1>12 DEF AwaitWorkers, GracefulMove
<1>13. CASE CloseResults(c)
  BY <1>13 DEF CloseResults, GracefulMove
<1> QED BY <1>1, <1>2, <1>3, <1>4, <1>5, <1>6, <1>7, <1>8, <1>9, <1>10, <1>11, <1>12, <1>13
        DEF Drain, ShutDown, GracefulShutdown, ForceShutdown

\* The other two pools.
BasicMove(c) ==
    \/ closer[c] = "idle" /\ closer'[c] \in {"wait", "panicked"} /\ UNCHANGED resultsClosed
    \/ closer[c] = "wait" /\ closer'[c] = "returned" /\ AllExited /\ resultsClosed' = TRUE
DynamicMove(c) ==
    \/ closer[c] = "idle" /\ closer'[c] = "select" /\ jobsClosed' = TRUE /\ UNCHANGED <<late, ctxDone, resultsClosed>>
    \/ closer[c] = "select" /\ closer'[c] \in {"returned", "panicked"} /\ resultsClosed' = TRUE
       /\ UNCHANGED jobsClosed /\ (UNCHANGED <<ctxDone, late>> \/ (late' = TRUE /\ ctxDone' = TRUE))

LEMMA BasicMoves ==
    ASSUME closer \in [Closers -> CloserLabels], BasicClosing
    PROVE  (closer' = closer /\ UNCHANGED resultsClosed)
           \/ \E c \in Closers : OneCloserMoves(c) /\ BasicMove(c)
<1> USE DEF CloserAt, CloserLabels, ClosingAt, OneCloserMoves
<1>1. ASSUME NEW c \in Closers, Close(c) PROVE OneCloserMoves(c) /\ BasicMove(c)
  BY <1>1 DEF Close, BasicMove
<1>2. ASSUME NEW c \in Closers, Wait(c) PROVE OneCloserMoves(c) /\ BasicMove(c)
  BY <1>2 DEF Wait, BasicMove
<1> QED BY <1>1, <1>2 DEF BasicClosing, CancelContext

LEMMA DynamicMoves ==
    ASSUME closer \in [Closers -> CloserLabels], DynamicClosing
    PROVE  \E c \in Closers : OneCloserMoves(c) /\ DynamicMove(c)
<1> USE DEF CloserAt, CloserLabels, ClosingAt, OneCloserMoves
<1>1. ASSUME NEW c \in Closers, CloseDynamic(c) PROVE OneCloserMoves(c) /\ DynamicMove(c)
  BY <1>1 DEF CloseDynamic, DynamicMove
<1>2. ASSUME NEW c \in Closers, Shutdown(c) PROVE OneCloserMoves(c) /\ DynamicMove(c)
  BY <1>2 DEF Shutdown, DynamicMove
<1> QED BY <1>1, <1>2 DEF DynamicClosing

\* What steps that shut nothing down leave alone, and what they do to the workers.
LEMMA NotClosing ==
    ASSUME WorkersInv, WorkersStep, ~Closing
    PROVE  /\ UNCHANGED <<part, closer, state, timedOut, lateDrain, late, jobsClosed, resultsClosed, ctxDone>>
           /\ overlapped' \in BOOLEAN /\ (overlapped => overlapped') /\ resize' \in [Resizers -> Int]
           /\ part # "dynamic" => overlapped' = overlapped
           /\ \A v \in Workers : worker[v] # "none" => worker'[v] # "none"
           /\ part # "dynamic" => \A v \in Workers : ~Alive(v) => worker'[v] = worker[v]
<1>c. /\ worker \in [Workers -> WorkerLabels] /\ resize \in [Resizers -> Int] /\ overlapped \in BOOLEAN
      /\ MinWorkers \in Nat /\ MaxWorkers \in Nat
  BY ChanTyped, DynamicAssumption DEF WorkersInv, WorkersShape
<1> USE DEF WorkerAt, Kept, Alive
<1>1. ASSUME NEW w \in Workers, Moves(w) PROVE Kept /\ \A v \in Workers :
             /\ worker[v] # "none" => worker'[v] # "none"
             /\ ~Alive(v) => worker'[v] = worker[v]
  BY <1>c, <1>1 DEF Moves, Quits, GoesOn
<1>2. ASSUME NEW w \in Workers, Leaves(w) PROVE Kept /\ \A v \in Workers :
             /\ worker[v] # "none" => worker'[v] # "none"
             /\ ~Alive(v) => worker'[v] = worker[v]
  BY <1>c, <1>2 DEF Leaves, Leave
<1>3. ASSUME NEW w \in Workers, Delivers(w) PROVE Kept /\ \A v \in Workers :
             /\ worker[v] # "none" => worker'[v] # "none"
             /\ ~Alive(v) => worker'[v] = worker[v]
  BY <1>c, <1>3 DEF Delivers, SendResult
<1>4. ASSUME NEW w \in Workers, Drops(w) PROVE Kept /\ \A v \in Workers :
             /\ worker[v] # "none" => worker'[v] # "none"
             /\ ~Alive(v) => worker'[v] = worker[v]
  BY <1>c, <1>4 DEF Drops, DropResult
<1>5. ASSUME NEW w \in Workers, NEW j \in jobs, Takes(w, j) PROVE Kept /\ \A v \in Workers :
             /\ worker[v] # "none" => worker'[v] # "none"
             /\ ~Alive(v) => worker'[v] = worker[v]
  BY <1>c, <1>5 DEF Takes
<1>6. ASSUME NEW j \in Jobs, Submits(j) \/ (SendJob(j) /\ Kept) PROVE Kept /\ worker' = worker
  BY <1>6 DEF Submits, SendJob
<1>7. ASSUME Receive, Kept PROVE worker' = worker
  BY <1>7 DEF Receive
<1>8. CASE \E r \in Resizers : Spawns(r)
  BY <1>c, <1>8 DEF Spawns, Spawn, gracefulOnly
<1>9. CASE \E r \in Resizers : Resizes(r)
  <2>1. PICK r \in Resizers : Resizes(r)
    BY <1>9
  <2>2. \A n \in 0..MaxWorkers + 1 : Clamp(n) \in Int
    BY <1>c DEF Clamp
  <2>3. part = "dynamic" /\ numWorkers \in Int
    BY <2>1 DEF Resizes, WorkersInv, SizeInv
  <2>4. resize' \in [Resizers -> Int]
    BY <1>c, <2>1, <2>2, <2>3 DEF Resizes, Resize
  <2> QED BY <1>c, <2>1, <2>3, <2>4 DEF Resizes, Resize, gracefulOnly, chanVars
<1>10. CASE UNCHANGED allVars
  BY <1>c, <1>10 DEF allVars, chanVars, gracefulOnly, dynamicOnly
<1>11. CASE Kept /\ \A v \in Workers :
             /\ worker[v] # "none" => worker'[v] # "none"
             /\ ~Alive(v) => worker'[v] = worker[v]
  BY <1>c, <1>11
<1> QED BY <1>1, <1>2, <1>3, <1>4, <1>5, <1>6, <1>7, <1>8, <1>9, <1>10, <1>11 DEF WorkersStep

LEMMA StepClosers == WorkersInv /\ WorkersStep =>
    ClosedAfterWorkers' /\ Returned' /\ StoppedLast' /\ closer' \in [Closers -> CloserLabels]
    /\ state' \in {"running", "draining", "stopped"} /\ lateDrain' \in BOOLEAN
<1> SUFFICES ASSUME WorkersInv, WorkersStep
             PROVE  ClosedAfterWorkers' /\ Returned' /\ StoppedLast' /\ closer' \in [Closers -> CloserLabels]
                    /\ state' \in {"running", "draining", "stopped"} /\ lateDrain' \in BOOLEAN
  OBVIOUS
<1>0. /\ closer \in [Closers -> CloserLabels] /\ state \in {"running", "draining", "stopped"}
      /\ lateDrain \in BOOLEAN
      /\ ClosedAfterWorkers /\ Returned /\ StoppedLast
      /\ part \in {"basic", "graceful", "dynamic"}
      /\ {jobsClosed, resultsClosed, ctxDone} \subseteq BOOLEAN
  BY ChanTyped DEF WorkersInv, WorkersShape, CloserLabels, OwnWays
<1>1. CASE ~Closing
  <2>1. /\ UNCHANGED <<part, closer, state, timedOut, lateDrain, resultsClosed>>
        /\ part # "dynamic" => \A v \in Workers : ~Alive(v) => worker'[v] = worker[v]
    BY <1>1, NotClosing
  <2>2. part # "dynamic" /\ AllExited => AllExited'
    BY <2>1 DEF AllExited, Alive
  <2> QED BY <1>0, <2>1, <2>2 DEF ClosedAfterWorkers, Returned, StoppedLast
<1>2. CASE BasicClosing
  <2>1. part = "basic" /\ part' = part /\ UNCHANGED <<state, timedOut, lateDrain>> /\ timedOut = {}
    BY <1>2 DEF BasicClosing, gracefulOnly, WorkersInv, OwnWays
  <2>2. (AllExited => AllExited') /\ (resultsClosed => resultsClosed')
    BY <1>0, <1>2, ClosingKeepsChannels DEF Closing, AllExited, Alive
  <2>3. CASE closer' = closer /\ UNCHANGED resultsClosed
    BY <1>0, <2>1, <2>2, <2>3 DEF ClosedAfterWorkers, Returned, StoppedLast
  <2>4. ASSUME NEW c \in Closers, OneCloserMoves(c), BasicMove(c)
        PROVE  ClosedAfterWorkers' /\ Returned' /\ closer' \in [Closers -> CloserLabels]
    BY <1>0, <2>1, <2>2, <2>4 DEF OneCloserMoves, BasicMove, ClosedAfterWorkers, Returned
  <2> QED BY <1>0, <1>2, <2>1, <2>3, <2>4, BasicMoves DEF StoppedLast
<1>3. CASE GracefulClosing
  <2>1. part = "graceful" /\ part' = part
    BY <1>3 DEF GracefulClosing
  <2>2. (AllExited => AllExited') /\ (resultsClosed => resultsClosed')
    BY <1>0, <1>3, ClosingKeepsChannels DEF Closing, AllExited, Alive
  <2>3. PICK c \in Closers :
             OneCloserMoves(c) /\ GracefulMove(c) /\ state' \in {state, "draining", "stopped"} /\ lateDrain' \in BOOLEAN
    BY <1>0, <1>3, GracefulMoves
  <2>4. ClosedAfterWorkers'
    BY <1>0, <2>1, <2>2, <2>3 DEF OneCloserMoves, GracefulMove, SameChans, SameState, ClosedAfterWorkers
  <2>5. Returned'
    BY <1>0, <2>2, <2>3 DEF OneCloserMoves, GracefulMove, SameChans, SameState, Returned
  <2>6. StoppedLast'
    BY <1>0, <2>1, <2>3 DEF OneCloserMoves, GracefulMove, SameState, StoppedLast
  <2> QED BY <1>0, <2>3, <2>4, <2>5, <2>6 DEF OneCloserMoves
<1>4. CASE DynamicClosing
  <2>1. part = "dynamic" /\ part' = part /\ UNCHANGED <<state, lateDrain>>
    BY <1>4 DEF DynamicClosing, gracefulOnly
  <2>2. PICK c \in Closers : OneCloserMoves(c) /\ DynamicMove(c)
    BY <1>0, <1>4, DynamicMoves
  <2> QED BY <1>0, <2>1, <2>2 DEF OneCloserMoves, DynamicMove, ClosedAfterWorkers, Returned, StoppedLast
<1> QED BY <1>1, <1>2, <1>3, <1>4 DEF Closing

LEMMA StepSomeWorker == WorkersInv /\ WorkersStep => SomeWorker'
<1> SUFFICES ASSUME WorkersInv, WorkersStep PROVE SomeWorker'
  OBVIOUS
<1>1. \A v \in Workers : worker[v] # "none" => worker'[v] # "none"
  BY NotClosing, ClosingKeepsChannels, ChanTyped DEF WorkersInv
<1> QED BY <1>1 DEF WorkersInv, SomeWorker

\* A worker panics when it drops a result, and never otherwise.
LEMMA StepCrashed ==
    ASSUME WorkersInv, WorkersStep, Crashed'
    PROVE  part = "dynamic" /\ (late \/ overlapped)
<1>c. worker \in [Workers -> WorkerLabels]
  BY ChanTyped DEF WorkersInv
<1>0. Crashed => part = "dynamic" /\ (late \/ overlapped)
  BY DEF WorkersInv, OwnWays
<1>1. ASSUME NEW w \in Workers, NEW l \in WorkerLabels \ {"panicked"}, WorkerAt(w, l)
      PROVE  part = "dynamic" /\ (late \/ overlapped)
  BY <1>0, <1>c, <1>1 DEF WorkerAt, Crashed
<1>2. CASE worker' = worker
  BY <1>0, <1>2 DEF Crashed
<1>3. ASSUME NEW w \in Workers, Drops(w) PROVE part = "dynamic" /\ (late \/ overlapped)
  <2>1. CASE part = "graceful"
    <3>1. WorkerAt(w, "leave")
      BY <1>3, <2>1 DEF Drops, DropResult
    <3> QED BY <1>1, <3>1 DEF WorkerLabels
  <2>2. CASE part # "graceful"
    BY <1>3, <2>2, DropsUnclean DEF WorkersInv, OwnWays
  <2> QED BY <2>1, <2>2
<1>4. ASSUME NEW w \in Workers, Moves(w) \/ Leaves(w) \/ (\E j \in jobs : Takes(w, j)) \/ Delivers(w)
      PROVE  part = "dynamic" /\ (late \/ overlapped)
  <2>1. \E l \in WorkerLabels \ {"panicked"} : WorkerAt(w, l)
    BY <1>4 DEF Moves, Quits, GoesOn, Leaves, Leave, Takes, Delivers, SendResult, WorkerLabels
  <2> QED BY <1>1, <2>1
<1>5. CASE Closing
  BY <1>2, <1>5, ClosingKeepsChannels, ChanTyped DEF WorkersInv
<1>6. ASSUME NEW r \in Resizers, Spawns(r) PROVE part = "dynamic" /\ (late \/ overlapped)
  <2>1. \E w \in Workers : WorkerAt(w, "idle")
    BY <1>6 DEF Spawns, Spawn
  <2> QED BY <1>1, <2>1 DEF WorkerLabels
<1> QED BY <1>2, <1>3, <1>4, <1>5, <1>6
        DEF WorkersStep, Submits, SendJob, Receive, Resizes, Resize, allVars, chanVars

LEMMA StepOwnWays == WorkersInv /\ WorkersStep => OwnWays' /\ timedOut' \subseteq Closers
                                                   /\ {overlapped, late}' \subseteq BOOLEAN
                                                   /\ resize' \in [Resizers -> Int]
<1> SUFFICES ASSUME WorkersInv, WorkersStep
             PROVE  OwnWays' /\ timedOut' \subseteq Closers /\ {overlapped, late}' \subseteq BOOLEAN
                    /\ resize' \in [Resizers -> Int]
  OBVIOUS
<1>0. /\ closer \in [Closers -> CloserLabels] /\ timedOut \subseteq Closers /\ lateDrain \in BOOLEAN
      /\ {jobsClosed, resultsClosed, ctxDone, overlapped, late} \subseteq BOOLEAN
      /\ resize \in [Resizers -> Int] /\ OwnWays
  BY ChanTyped DEF WorkersInv, WorkersShape, CloserLabels
<1>1. Crashed' => part = "dynamic" /\ (late \/ overlapped)
  BY StepCrashed
<1>2. CASE ~Closing
  BY <1>0, <1>1, <1>2, NotClosing DEF OwnWays
<1>3. ASSUME Closing
      PROVE  /\ UNCHANGED <<part, overlapped, resize>>
             /\ {jobsClosed, resultsClosed, ctxDone}' \subseteq BOOLEAN
             /\ (jobsClosed => jobsClosed') /\ (resultsClosed => resultsClosed') /\ (ctxDone => ctxDone')
  BY <1>0, <1>3, ClosingKeepsChannels
<1>4. CASE BasicClosing
  <2>1. part = "basic" /\ UNCHANGED <<timedOut, late>>
    BY <1>4 DEF BasicClosing, gracefulOnly, dynamicOnly
  <2> QED BY <1>0, <1>1, <1>3, <1>4, <2>1 DEF OwnWays, Closing
<1>5. CASE GracefulClosing
  <2>1. part = "graceful" /\ late' = late
    BY <1>5 DEF GracefulClosing, dynamicOnly
  <2>2. timedOut' \subseteq Closers /\ (timedOut' # {} => ctxDone')
    BY <1>0, <1>5, GracefulMoves DEF GracefulMove, SameChans, SameState, OwnWays
  <2> QED BY <1>0, <1>1, <1>3, <1>5, <2>1, <2>2 DEF OwnWays, Closing
<1>6. CASE DynamicClosing
  <2>1. part = "dynamic" /\ UNCHANGED timedOut
    BY <1>6 DEF DynamicClosing, gracefulOnly
  <2>2. PICK c \in Closers : OneCloserMoves(c) /\ DynamicMove(c)
    BY <1>0, <1>6, DynamicMoves
  <2>3. (ctxDone' => late') /\ late' \in BOOLEAN /\ (late => late')
    <3>1. (ctxDone => late) /\ late \in BOOLEAN
      BY <1>0, <2>1 DEF OwnWays
    <3>2. (ctxDone' = ctxDone /\ late' = late) \/ (late' = TRUE /\ ctxDone' = TRUE)
      BY <2>2 DEF DynamicMove
    <3>3. CASE ctxDone' = ctxDone /\ late' = late
      BY <3>1, <3>3, Zenon
    <3>4. CASE late' = TRUE /\ ctxDone' = TRUE
      BY <3>4
    <3> QED BY <3>2, <3>3, <3>4
  <2>4. (resultsClosed' \/ late' => jobsClosed') /\ \A d \in Closers : closer'[d] # "idle" => jobsClosed'
    <3>1. jobsClosed => jobsClosed'
      BY <1>3, <1>6 DEF Closing
    <3>2. closer[c] # "idle" => jobsClosed
      BY <1>0, <2>1 DEF OwnWays
    <3>3. jobsClosed'
      BY <2>2, <3>1, <3>2 DEF DynamicMove
    <3> QED BY <3>3
  <2> QED BY <1>0, <1>1, <1>3, <1>6, <2>1, <2>3, <2>4 DEF OwnWays, Closing
<1> QED BY <1>2, <1>4, <1>5, <1>6 DEF Closing

-----------------------------------------------------------------------------
(***************************************************************************)
(* The size of the dynamic pool.                                           *)
(***************************************************************************)
LEMMA LivingFinite == part = "dynamic" => IsFiniteSet(Living) /\ Cardinality(Living) \in Nat
<1>1. IsFiniteSet(Workers) /\ Living \in SUBSET Workers
  BY DynamicAssumption DEF Living
<1> QED BY <1>1, FS_Subset, FS_CardinalityType

LEMMA StepSizeInv == WorkersInv /\ WorkersStep => SizeInv'
<1> SUFFICES ASSUME WorkersInv, WorkersStep, part' = "dynamic" PROVE SizeInv'
  BY DEF SizeInv
<1>0. /\ worker \in [Workers -> WorkerLabels] /\ {jobsClosed, resultsClosed, ctxDone} \subseteq BOOLEAN
      /\ resize \in [Resizers -> Int] /\ overlapped \in BOOLEAN
      /\ MinWorkers \in Nat /\ MaxWorkers \in Nat /\ MinWorkers <= MaxWorkers
  BY ChanTyped, DynamicAssumption DEF WorkersInv, WorkersShape
<1>p. part = "dynamic"
  BY NotClosing, ClosingKeepsChannels, <1>0
<1>f. /\ IsFiniteSet(Living) /\ Cardinality(Living) \in Nat
      /\ numWorkers \in Int /\ numWorkers = Cardinality(Living)
      /\ ~overlapped =>
         /\ numWorkers <= MaxWorkers
         /\ \A r \in Resizers : resize[r] > 0 =>
              numWorkers + resize[r] <= MaxWorkers /\ \A q \in Resizers \ {r} : resize[q] <= 0
         /\ ~jobsClosed => MinWorkers <= numWorkers /\ \A w \in Workers : worker[w] # "leave"
  BY <1>p, LivingFinite DEF WorkersInv, SizeInv
<1>o. ~jobsClosed => ~ctxDone /\ ~resultsClosed
  BY <1>p, <1>0 DEF WorkersInv, OwnWays
<1>s. ASSUME Living' = Living, UNCHANGED <<numWorkers, resize, overlapped>>,
             ~overlapped /\ ~jobsClosed' => ~jobsClosed /\ \A w \in Workers : worker'[w] # "leave"
      PROVE  SizeInv'
  BY <1>f, <1>s DEF SizeInv
<1> USE DEF WorkerAt
<1>1. ASSUME NEW w \in Workers, Moves(w) PROVE SizeInv'
  <2>1. Living' = Living
    BY <1>0, <1>1 DEF Moves, Quits, GoesOn, Living, Alive
  <2>2. ~overlapped /\ ~jobsClosed' => ~jobsClosed /\ \A v \in Workers : worker'[v] # "leave"
    <3>1. ~overlapped /\ ~jobsClosed => ~TooMany
      BY <1>o, <1>p, NeverTooMany DEF Clean
    <3> QED BY <1>0, <1>f, <1>o, <1>1, <3>1 DEF Moves, Quits, GoesOn, Kept
  <2> QED BY <1>s, <1>1, <2>1, <2>2 DEF Moves, Kept
<1>2. ASSUME NEW w \in Workers, Leaves(w) PROVE SizeInv'
  <2>1. Living' = Living \ {w} /\ w \in Living /\ worker[w] = "leave"
    BY <1>0, <1>2 DEF Leaves, Leave, Living, Alive
  <2>2. Cardinality(Living \ {w}) = Cardinality(Living) - 1
    BY <1>f, <2>1, FS_RemoveElement
  <2>3. numWorkers' = numWorkers - 1 /\ UNCHANGED <<jobsClosed, resize, overlapped>>
    BY <1>p, <1>2 DEF Leaves, Kept
  <2> QED BY <1>0, <1>f, <2>1, <2>2, <2>3 DEF SizeInv
<1>3. ASSUME NEW w \in Workers, Drops(w) PROVE SizeInv'
  <2>1. Living' = Living \ {w} /\ w \in Living /\ resultsClosed
    BY <1>0, <1>p, <1>3 DEF Drops, DropResult, Living, Alive
  <2>2. Cardinality(Living \ {w}) = Cardinality(Living) - 1
    BY <1>f, <2>1, FS_RemoveElement
  <2>3. numWorkers' = numWorkers - 1 /\ UNCHANGED <<jobsClosed, resize, overlapped>>
    BY <1>p, <1>3 DEF Drops, Kept
  <2> QED BY <1>0, <1>f, <1>o, <2>1, <2>2, <2>3 DEF SizeInv
<1>4. ASSUME NEW w \in Workers, Delivers(w) PROVE SizeInv'
  <2>1. Living' = Living
    BY <1>0, <1>4 DEF Delivers, SendResult, Living, Alive
  <2> QED BY <1>0, <1>f, <1>s, <1>4, <2>1 DEF Delivers, SendResult, Kept
<1>5. ASSUME NEW w \in Workers, NEW j \in jobs, Takes(w, j) PROVE SizeInv'
  <2>1. Living' = Living
    BY <1>0, <1>5 DEF Takes, Living, Alive
  <2> QED BY <1>0, <1>f, <1>s, <1>5, <2>1 DEF Takes, Kept
<1>6. ASSUME UNCHANGED <<worker, numWorkers, resize, overlapped>>, jobsClosed => jobsClosed' PROVE SizeInv'
  <2>1. Living' = Living
    BY <1>6 DEF Living, Alive
  <2> QED BY <1>f, <1>s, <1>6, <2>1
<1>7. CASE Closing
  BY <1>0, <1>6, <1>7, ClosingKeepsChannels
<1>8. ASSUME NEW r \in Resizers, Spawns(r) PROVE SizeInv'
  <2>1. PICK w \in Workers : worker[w] = "none" /\ worker' = [worker EXCEPT ![w] = "idle"]
    BY <1>8 DEF Spawns, Spawn
  <2>2. Living' = Living \cup {w} /\ w \notin Living
    BY <1>0, <2>1 DEF Living, Alive
  <2>3. Cardinality(Living \cup {w}) = Cardinality(Living) + 1
    BY <1>f, <2>2, FS_AddElement
  <2>4. /\ resize[r] > 0 /\ numWorkers' = numWorkers + 1 /\ UNCHANGED <<jobsClosed, overlapped>>
        /\ resize'[r] = resize[r] - 1 /\ \A q \in Resizers \ {r} : resize'[q] = resize[q]
    BY <1>0, <1>8 DEF Spawns, Spawn
  <2>5. ~overlapped => /\ numWorkers + resize[r] <= MaxWorkers
                       /\ \A q \in Resizers \ {r} : resize'[q] <= 0
    BY <1>f, <2>4
  <2>6. ~overlapped /\ ~jobsClosed => \A v \in Workers : worker'[v] # "leave"
    BY <1>0, <1>f, <2>1
  <2>7. numWorkers' = Cardinality(Living') /\ numWorkers' \in Int
    BY <1>f, <2>2, <2>3, <2>4
  <2>8. ~overlapped => numWorkers' <= MaxWorkers
    BY <1>0, <1>f, <2>4, <2>5
  <2>9. ~overlapped => \A p \in Resizers : resize'[p] > 0 =>
            numWorkers' + resize'[p] <= MaxWorkers /\ \A q \in Resizers \ {p} : resize'[q] <= 0
    BY <1>0, <1>f, <2>4, <2>5
  <2>10. ~overlapped /\ ~jobsClosed => MinWorkers <= numWorkers'
    BY <1>0, <1>f, <2>4
  <2> QED BY <2>4, <2>6, <2>7, <2>8, <2>9, <2>10 DEF SizeInv
<1>9. ASSUME NEW r \in Resizers, Resizes(r) PROVE SizeInv'
  <2>1. PICK n \in 0..MaxWorkers + 1 :
          resize' = [resize EXCEPT ![r] = IF Clamp(n) > numWorkers THEN Clamp(n) - numWorkers ELSE 0]
    BY <1>9 DEF Resizes, Resize
  <2>2. Clamp(n) \in Int /\ Clamp(n) <= MaxWorkers
    BY <1>0 DEF Clamp
  <2>3. overlapped' = (overlapped \/ \E q \in Resizers \ {r} : resize[q] > 0)
        /\ UNCHANGED <<worker, jobsClosed, numWorkers>>
    BY <1>9 DEF Resizes, Resize, chanVars
  <2>4. Living' = Living
    BY <2>3 DEF Living, Alive
  <2>5. \A q \in Resizers \ {r} : resize'[q] = resize[q]
    BY <1>0, <2>1
  <2>6. ~overlapped' => ~overlapped /\ \A q \in Resizers \ {r} : resize'[q] <= 0
    <3> SUFFICES ASSUME ~overlapped' PROVE ~overlapped /\ \A q \in Resizers \ {r} : resize'[q] <= 0
      OBVIOUS
    <3>1. ~overlapped /\ \A q \in Resizers \ {r} : ~(resize[q] > 0)
      BY <2>3, Zenon
    <3>2. \A q \in Resizers \ {r} : resize[q] \in Int
      BY <1>0
    <3> QED BY <2>5, <3>1, <3>2
  <2>7. resize'[r] \in Int /\ (resize'[r] > 0 => numWorkers + resize'[r] <= MaxWorkers)
    BY <1>0, <1>f, <2>1, <2>2
  <2>8. ~overlapped' => \A p \in Resizers : resize'[p] > 0 =>
            numWorkers' + resize'[p] <= MaxWorkers /\ \A q \in Resizers \ {p} : resize'[q] <= 0
    <3> SUFFICES ASSUME ~overlapped', NEW p \in Resizers, resize'[p] > 0
                 PROVE  numWorkers' + resize'[p] <= MaxWorkers /\ \A q \in Resizers \ {p} : resize'[q] <= 0
      OBVIOUS
    <3>1. \A q \in Resizers \ {r} : resize'[q] <= 0 /\ resize'[q] \in Int
      BY <1>0, <2>5, <2>6
    <3>2. p = r
      BY <3>1
    <3> QED BY <2>3, <2>7, <3>1, <3>2
  <2> QED BY <1>f, <2>3, <2>4, <2>6, <2>8 DEF SizeInv
<1>10. CASE UNCHANGED allVars
  BY <1>6, <1>10 DEF allVars, chanVars, dynamicOnly
<1>11. ASSUME NEW j \in Jobs, Submits(j) \/ (SendJob(j) /\ UNCHANGED numWorkers /\ Kept) PROVE SizeInv'
  BY <1>6, <1>11 DEF Submits, SendJob, Kept
<1>12. ASSUME Receive, UNCHANGED numWorkers, Kept PROVE SizeInv'
  BY <1>6, <1>12 DEF Receive, Kept
<1> QED BY <1>1, <1>2, <1>3, <1>4, <1>5, <1>7, <1>8, <1>9, <1>10, <1>11, <1>12 DEF WorkersStep

-----------------------------------------------------------------------------
(***************************************************************************)
(* The theorems.                                                           *)
(***************************************************************************)
LEMMA InitWorkersInv == Init => WorkersInv
<1> SUFFICES ASSUME Init PROVE WorkersInv
  OBVIOUS
<1>1. PICK started \in SUBSET Workers : started # {} /\ ChanInit(started)
  BY DEF Init, GracefulInit
<1>2. /\ jobs = {} /\ results = {} /\ received = {}
      /\ jobsClosed = FALSE /\ resultsClosed = FALSE /\ ctxDone = FALSE
      /\ worker = [w \in Workers |-> IF w \in started THEN "idle" ELSE "none"]
      /\ hand = [w \in Workers |-> NoJob] /\ submit = [j \in Jobs |-> "new"]
      /\ closer = [c \in Closers |-> "idle"]
  BY <1>1 DEF ChanInit
<1>3. InHand = {} /\ Accepted = {} /\ ~Crashed /\ Living = started
  BY <1>1, <1>2 DEF InHand, Accepted, Crashed, Living, Alive
<1>4. /\ part \in {"basic", "graceful", "dynamic"} /\ state = "running" /\ timedOut = {} /\ lateDrain = FALSE
      /\ numWorkers = MinWorkers /\ resize = [r \in Resizers |-> -1] /\ overlapped = FALSE /\ late = FALSE
  BY DEF Init, GracefulInit, Sized
<1>5. ChanInv
  <2>1. Cardinality({}) = 0 /\ IsFiniteSet({}) /\ BufferSize \in Nat
    BY FS_EmptySet, PoolChannelsAssumption
  <2>2. /\ Cardinality(jobs) <= BufferSize /\ Cardinality(results) <= BufferSize
        /\ IsFiniteSet(jobs) /\ IsFiniteSet(results)
    BY <1>2, <2>1
  <2>3. {jobsClosed, resultsClosed, ctxDone} \subseteq BOOLEAN
    BY <1>2
  <2>4. \A w \in Workers : worker[w] \in {"idle", "none"} /\ hand[w] = NoJob
    BY <1>2
  <2>5. worker \in [Workers -> WorkerLabels] /\ hand \in [Workers -> Jobs \cup {NoJob}]
        /\ submit \in [Jobs -> SubmitLabels]
    BY <1>2 DEF WorkerLabels, SubmitLabels
  <2> QED BY <1>2, <1>3, <2>2, <2>3, <2>4, <2>5
          DEF ChanInv, ChanTypeOK, WorkerLabels, SubmitLabels
<1>6. NothingLost /\ LeftWhenDone /\ ClosedWhenDone /\ ClosedAfterWorkers /\ Returned /\ SomeWorker
  BY <1>1, <1>2, <1>3, <1>4
     DEF NothingLost, LeftWhenDone, ClosedWhenDone, ClosedAfterWorkers, Returned, SomeWorker
<1>7. OwnWays /\ StoppedLast /\ WorkersShape
  <2>1. OwnWays
    BY <1>2, <1>3, <1>4 DEF OwnWays
  <2>2. StoppedLast
    BY <1>2, <1>4 DEF StoppedLast
  <2>3. WorkersShape
    <3>1. closer \in [Closers -> ClosingAt \cup {"idle", "returned", "drained", "panicked"}]
      BY <1>2
    <3>2. resize \in [Resizers -> Int]
      BY <1>4
    <3>3. {overlapped, late} \subseteq BOOLEAN
      BY <1>4
    <3> QED BY <1>4, <3>1, <3>2, <3>3 DEF WorkersShape
  <2> QED BY <2>1, <2>2, <2>3
<1>8. SizeInv
  <2> SUFFICES ASSUME part = "dynamic" PROVE SizeInv
    BY DEF SizeInv
  <2>1. PICK first \in SUBSET Workers : Cardinality(first) = MinWorkers /\ ChanInit(first)
    BY DEF Init, DynamicInit
  <2>2. Living = first
    BY <2>1 DEF ChanInit, Living, Alive
  <2> QED BY <1>2, <1>4, <2>1, <2>2, DynamicAssumption DEF SizeInv
<1> QED BY <1>5, <1>6, <1>7, <1>8 DEF WorkersInv

LEMMA StepWorkersInv == WorkersInv /\ [Next]_allVars => WorkersInv'
<1> SUFFICES ASSUME WorkersInv, [Next]_allVars PROVE WorkersInv'
  OBVIOUS
<1>1. WorkersStep
  BY StepsSorted
<1>2. ChanInv' /\ NothingLost' /\ LeftWhenDone' /\ ClosedWhenDone'
  BY <1>1, StepChanInv, StepNothingLost, StepLeftWhenDone, StepClosedWhenDone DEF WorkersInv
<1>3. ClosedAfterWorkers' /\ Returned' /\ StoppedLast' /\ SomeWorker' /\ OwnWays' /\ SizeInv'
  BY <1>1, StepClosers, StepSomeWorker, StepOwnWays, StepSizeInv
<1>4. WorkersShape'
  BY <1>1, StepClosers, StepOwnWays DEF WorkersShape, CloserLabels
<1> QED BY <1>2, <1>3, <1>4 DEF WorkersInv

LEMMA WorkersAlways == Spec => []WorkersInv
BY InitWorkersInv, StepWorkersInv, PTL DEF Spec

\* The variables stay in their types, an accepted job is in one place at a time, and
\* numWorkers counts the workers of the dynamic pool (dynamic_pool.go:101-127).
THEOREM WorkersTypes == Spec => []TypeOK
<1>1. WorkersInv => TypeOK
  BY DEF WorkersInv, ChanInv, WorkersShape, SizeInv, Living, TypeOK
<1> QED BY <1>1, WorkersAlways, PTL

\* A shutdown that was not cut short loses no accepted job, however submissions,
\* workers, resizes and other shutdowns interleave with it (pool.go:98-109,
\* graceful_pool.go:173-208, dynamic_pool.go:223-241).
THEOREM NoJobIsLost == Spec => []CleanShutdownDelivers
<1>1. WorkersInv => CleanShutdownDelivers
  <2> SUFFICES ASSUME WorkersInv, ShutDownReturned, Clean PROVE Accepted \subseteq results \cup received
    BY DEF CleanShutdownDelivers, Clean
  <2>1. resultsClosed
    BY DEF ShutDownReturned, WorkersInv, Returned
  <2>2. jobs = {} /\ \A w \in Workers : hand[w] = NoJob
    BY <2>1, ChanTyped DEF WorkersInv, ClosedWhenDone
  <2> QED BY <2>2 DEF WorkersInv, NothingLost, InHand
<1> QED BY <1>1, WorkersAlways, PTL

\* Workers that send to a closed p.results, and die of it in two of the pools, are the
\* price of a timeout, or of calls of Resize that overlap, and of nothing else.
THEOREM ResultsAreClosedLast == Spec => []ResultsClosedLast
<1>1. WorkersInv => ResultsClosedLast
  <2> SUFFICES ASSUME WorkersInv, timedOut = {}, ~late, ~overlapped
               PROVE  ~Crashed /\ (resultsClosed => InHand = {})
    BY DEF ResultsClosedLast
  <2>1. ~Crashed
    BY DEF WorkersInv, OwnWays
  <2>2. ASSUME resultsClosed PROVE \A w \in Workers : worker[w] \notin {"busy", "send"}
    <3>1. CASE part = "dynamic"
      BY <2>2, <3>1 DEF WorkersInv, OwnWays, ClosedWhenDone, Clean
    <3>2. CASE part # "dynamic"
      BY <2>2, <3>2 DEF WorkersInv, ClosedAfterWorkers, AllExited, Alive
    <3> QED BY <3>1, <3>2
  <2>3. ASSUME resultsClosed PROVE InHand = {}
    BY <2>2, <2>3, ChanTyped DEF WorkersInv, InHand
  <2> QED BY <2>1, <2>3
<1> QED BY <1>1, WorkersAlways, PTL

\* Resizing an open pool, up or down, never takes it below its minimum of workers, as
\* long as one call follows the other (dynamic_pool.go:81-98, 186-189).
THEOREM MinimumIsKept == Spec => []KeepsMinimum
<1>1. WorkersInv => KeepsMinimum
  <2> SUFFICES ASSUME WorkersInv, part = "dynamic", ~jobsClosed, ~overlapped
               PROVE  MinWorkers <= Cardinality({w \in Workers : Alive(w) /\ worker[w] # "leave"})
    BY DEF KeepsMinimum
  <2>1. {w \in Workers : Alive(w) /\ worker[w] # "leave"} = Living
    BY DEF WorkersInv, SizeInv, Living
  <2> QED BY <2>1 DEF WorkersInv, SizeInv
<1> QED BY <1>1, WorkersAlways, PTL

\* However any number of drains, graceful and forced shutdowns interleave: when all have
\* ended and one of them shut the pool down, it is stopped, unless a Drain that found it
\* stopped has taken it back to draining (graceful_pool.go:161, 200, 212).
THEOREM ShutdownsEndStopped == Spec => []EndsStopped
<1>1. WorkersInv => EndsStopped
  BY DEF WorkersInv, WorkersShape, StoppedLast, EndsStopped, ShutDownReturned
<1> QED BY <1>1, WorkersAlways, PTL
=============================================================================
