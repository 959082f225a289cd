---------------------------- MODULE PoolChannels ----------------------------
(***************************************************************************)
(* What the three worker pools of stage1/02-worker-pool/pool have in       *)
(* common: a channel of jobs, a channel of results, a context, goroutines  *)
(* that take from the one and send to the other, and the panics of sending *)
(* to a closed channel.  A channel is the set of what it buffers: nothing  *)
(* below depends on the order.                                             *)
(***************************************************************************)
EXTENDS Integers, FiniteSets

CONSTANTS
    Jobs,         \* the jobs, each submitted by a goroutine of its own
    Workers,      \* identities for worker goroutines
    Closers,      \* goroutines that shut the pool down
    BufferSize,   \* capacity of either channel
    NoJob         \* a worker's hand is empty

ASSUME PoolChannelsAssumption == BufferSize \in Nat \ {0} /\ NoJob \notin Jobs

VARIABLES
    jobs, jobsClosed,         \* p.jobs
    results, resultsClosed,   \* p.results, by the jobs they are the results of
    received,                 \* the results the consumer has taken
    ctxDone,                  \* the context is cancelled
    worker, hand,             \* where a worker is, and its job
    submit,                   \* where the Submit of a job is
    closer                    \* where a goroutine that shuts the pool down is

chanVars == <<jobs, jobsClosed, results, resultsClosed, received, ctxDone, worker, hand, submit, closer>>

\* A pool whose workers `started` have been spawned.
ChanInit(started) ==
    /\ jobs = {} /\ results = {} /\ received = {}
    /\ jobsClosed = FALSE /\ resultsClosed = FALSE /\ ctxDone = FALSE
    /\ worker = [w \in Workers |-> IF w \in started THEN "idle" ELSE "none"]
    /\ hand = [w \in Workers |-> NoJob]
    /\ submit = [j \in Jobs |-> "new"]
    /\ closer = [c \in Closers |-> "idle"]

WorkerAt(w, label) == worker' = [worker EXCEPT ![w] = label]
SubmitAt(j, label) == submit' = [submit EXCEPT ![j] = label]
CloserAt(c, label) == closer' = [closer EXCEPT ![c] = label]

Accepted == {j \in Jobs : submit[j] = "accepted"}
InHand == {hand[w] : w \in Workers} \ {NoJob}
Alive(w) == worker[w] \notin {"none", "exit", "panicked"}
AllExited == \A w \in Workers : ~Alive(w)

\* A panic in a worker that nobody recovers: the program ends.
Crashed == \E w \in Workers : worker[w] = "panicked"

-----------------------------------------------------------------------------
\* p.jobs <- job, with room in the buffer.
SendJob(j) ==
    /\ submit[j] = "sending"
    /\ ~jobsClosed
    /\ Cardinality(jobs) < BufferSize
    /\ jobs' = jobs \cup {j}
    /\ SubmitAt(j, "accepted")
    /\ UNCHANGED <<jobsClosed, results, resultsClosed, received, ctxDone, worker, hand, closer>>

\* p.jobs <- job after, or blocked in it while, the channel is closed.
SendJobPanics(j) ==
    /\ submit[j] = "sending"
    /\ jobsClosed
    /\ SubmitAt(j, "panicked")
    /\ UNCHANGED <<jobs, jobsClosed, results, resultsClosed, received, ctxDone, worker, hand, closer>>

\* case <-ctx.Done() of the worker's loop.
WorkerCancelled(w) ==
    /\ worker[w] = "idle"
    /\ ctxDone
    /\ WorkerAt(w, "leave")
    /\ UNCHANGED <<jobs, jobsClosed, results, resultsClosed, received, ctxDone, hand, submit, closer>>

\* Faulty variant: ok is not tested, and the zero job of a closed channel is worked on.
TakeUntested(w) ==
    /\ worker[w] = "idle"
    /\ \/ \E j \in jobs : jobs' = jobs \ {j} /\ hand' = [hand EXCEPT ![w] = j]
       \/ jobs = {} /\ jobsClosed /\ UNCHANGED <<jobs, hand>>
    /\ WorkerAt(w, "busy")
    /\ UNCHANGED <<jobsClosed, results, resultsClosed, received, ctxDone, submit, closer>>
\* case job, ok := <-p.jobs: a job, or nothing more to come.
Take(w) ==
    /\ worker[w] = "idle"
    /\ \/ \E j \in jobs :
            /\ jobs' = jobs \ {j}
            /\ hand' = [hand EXCEPT ![w] = j]
            /\ WorkerAt(w, "busy")
       \/ jobs = {} /\ jobsClosed /\ WorkerAt(w, "leave") /\ UNCHANGED <<jobs, hand>>
    /\ UNCHANGED <<jobsClosed, results, resultsClosed, received, ctxDone, submit, closer>>

\* p.process(job) returns, panics, or is given up on: there is a result to send.
Process(w) ==
    /\ worker[w] = "busy"
    /\ WorkerAt(w, "send")
    /\ UNCHANGED <<jobs, jobsClosed, results, resultsClosed, received, ctxDone, hand, submit, closer>>

\* p.results <- result, with room in the buffer; the worker goes on to label.
SendResult(w, label) ==
    /\ worker[w] = "send"
    /\ ~resultsClosed
    /\ Cardinality(results) < BufferSize
    /\ results' = results \cup {hand[w]}
    /\ hand' = [hand EXCEPT ![w] = NoJob]
    /\ WorkerAt(w, label)
    /\ UNCHANGED <<jobs, jobsClosed, resultsClosed, received, ctxDone, submit, closer>>

\* The job's result is lost and the worker ends up at label.
DropResult(w, label) ==
    /\ worker[w] = "send"
    /\ hand' = [hand EXCEPT ![w] = NoJob]
    /\ WorkerAt(w, label)
    /\ UNCHANGED <<jobs, jobsClosed, results, resultsClosed, received, ctxDone, submit, closer>>

\* The deferred wg.Done().
Leave(w) ==
    /\ worker[w] = "leave"
    /\ WorkerAt(w, "exit")
    /\ UNCHANGED <<jobs, jobsClosed, results, resultsClosed, received, ctxDone, hand, submit, closer>>

\* The consumer of Results().
Receive ==
    /\ \E j \in results : results' = results \ {j} /\ received' = received \cup {j}
    /\ UNCHANGED <<jobs, jobsClosed, resultsClosed, ctxDone, worker, hand, submit, closer>>

-----------------------------------------------------------------------------
\* The type invariant of the three pools; a worker has a job in its hand exactly
\* while it works on it, and an accepted job is in at most one place.
ChanTypeOK ==
    /\ jobs \subseteq Jobs /\ results \subseteq Jobs /\ received \subseteq Jobs
    /\ Cardinality(jobs) <= BufferSize /\ Cardinality(results) <= BufferSize
    /\ {jobsClosed, resultsClosed, ctxDone} \subseteq BOOLEAN
    /\ worker \in [Workers -> {"none", "idle", "busy", "send", "check", "leave", "exit", "panicked"}]
    /\ hand \in [Workers -> Jobs \cup {NoJob}]
    /\ \A w \in Workers : worker[w] \in {"busy", "send"} <=> hand[w] # NoJob
    /\ submit \in [Jobs -> {"new", "sending", "accepted", "refused", "panicked"}]
    /\ jobs \cup results \cup received \cup InHand \subseteq Accepted
    /\ jobs \cap (results \cup received \cup InHand) = {}
    /\ results \cap (received \cup InHand) = {} /\ received \cap InHand = {}
    /\ \A v, w \in Workers : hand[v] = hand[w] => v = w \/ hand[v] = NoJob
=============================================================================
