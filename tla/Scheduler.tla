----------------------------- MODULE Scheduler -----------------------------
(***************************************************************************)
(* stage2/07-task-scheduler/scheduler/scheduler.go: tasks that run once,   *)
(* or again and again (at an interval or by a cron expression, which       *)
(* differ only in how NextRunAt is computed), with dependencies and        *)
(* retries.  Every task has a main goroutine, counted by s.wg, and one     *)
(* more goroutine for every retry, which nobody counts.                    *)
(***************************************************************************)
EXTENDS Integers, FiniteSets

CONSTANTS
    Tasks,       \* *Task values, each under an id of its own
    Once,        \* those scheduled by ScheduleOnce; the others repeat
    Deps,        \* DependsOn of each task, once its owner has set it
    MaxRetries,  \* Retry.MaxRetries of each task, once its owner has set it; 0 without Retry
    Retries,     \* bound: numbers for the retry goroutines of a task
    MaxRuns      \* bound: a repeating task's ticker stops firing after so many runs

Main == 0                      \* the main goroutine of a task
Runners == {Main} \cup Retries \* and the goroutine of its k-th retry

ASSUME SchedulerAssumption ==
    /\ Once \subseteq Tasks
    /\ Deps \in [Tasks -> SUBSET Tasks]
    /\ MaxRetries \in [Tasks -> Nat] /\ MaxRuns \in Nat
    /\ \A t \in Tasks : 1..(2 * MaxRetries[t] - 1) \subseteq Retries
    /\ Retries \subseteq Nat \ {0}

VARIABLES
    closing,     \* Close: "no" before it is called, "waiting" in s.wg.Wait(), "returned"
    known,       \* s.tasks
    cancelled,   \* tasks whose own context was cancelled
    configured,  \* tasks whose owner has set DependsOn and Retry
    state,       \* task.state
    retries,     \* task.Retry.RetryCount
    runs,        \* task.RunCount
    left,        \* the dependencies a goroutine in areDependenciesMet has still to read
    need,        \* those the main goroutine found completed
    pc           \* where each goroutine of each task is

vars == <<closing, known, cancelled, configured, state, retries, runs, left, need, pc>>
data == <<known, cancelled, configured, state, retries, runs, left, need>>

Init ==
    /\ closing = "no"
    /\ known = {} /\ cancelled = {} /\ configured = {}
    /\ state = [t \in Tasks |-> "none"]
    /\ retries = [t \in Tasks |-> 0] /\ runs = [t \in Tasks |-> 0]
    /\ left = [t \in Tasks |-> [r \in Runners |-> {}]] /\ need = [t \in Tasks |-> {}]
    /\ pc = [t \in Tasks |-> [r \in Runners |-> "none"]]

Closed == closing # "no"
CtxDone(t) == Closed \/ t \in cancelled
Goto(t, r, label) == pc' = [pc EXCEPT ![t][r] = label]
SetState(t, s) == state' = [state EXCEPT ![t] = s]

\* Where executeTask returns to.
Return(r) == IF r = Main THEN "after" ELSE "exit"

-----------------------------------------------------------------------------
(***************************************************************************)
(* Schedule, Cancel, Remove, and the fields the owner sets afterwards.     *)
(***************************************************************************)
\* atomic.LoadInt32(&s.closed)
ScheduleCheck(t) ==
    /\ pc[t][Main] = "none"
    /\ ~Closed
    /\ Goto(t, Main, "checked")
    /\ UNCHANGED <<closing, data>>

\* Under s.mu, like Remove: nobody reads dependencies.
WriteLock == \A t \in Tasks, r \in Runners : pc[t][r] # "reading"

ScheduleRegister(t) ==
    /\ WriteLock
    /\ pc[t][Main] = "checked"
    /\ known' = known \cup {t}
    /\ SetState(t, "pending")
    /\ Goto(t, Main, "registered")
    /\ UNCHANGED <<closing, cancelled, configured, retries, runs, left, need>>

\* s.wg.Add(1) and the go statement.
ScheduleStart(t) ==
    /\ pc[t][Main] = "registered"
    /\ Goto(t, Main, "wait")
    /\ UNCHANGED <<closing, data>>

\* The owner can set the fields only when Schedule has returned the task, which
\* may be running already.
Configure(t) ==
    /\ pc[t][Main] \notin {"none", "checked", "registered"}
    /\ t \notin configured
    /\ configured' = configured \cup {t}
    /\ UNCHANGED <<closing, known, cancelled, state, retries, runs, left, need, pc>>

Cancel(t) ==
    /\ t \in known
    /\ cancelled' = cancelled \cup {t}
    /\ SetState(t, "cancelled")
    /\ UNCHANGED <<closing, known, configured, retries, runs, left, need, pc>>

Remove(t) ==
    /\ WriteLock
    /\ t \in known
    /\ known' = known \ {t}
    /\ cancelled' = cancelled \cup {t}
    /\ SetState(t, "cancelled")
    /\ UNCHANGED <<closing, configured, retries, runs, left, need, pc>>

-----------------------------------------------------------------------------
(***************************************************************************)
(* The goroutines: runOnce, runInterval and runCron for Main, the function *)
(* in scheduleRetry for the others.                                        *)
(***************************************************************************)
\* Faulty variant: a retry goroutine does not watch ctx.
StopMainOnly(t, r) ==
    /\ pc[t][r] = "wait" /\ CtxDone(t) /\ r = Main
    /\ SetState(t, "cancelled") /\ Goto(t, r, "exit")
    /\ UNCHANGED <<closing, known, cancelled, configured, retries, runs, left, need>>
\* case <-ctx.Done()
Stop(t, r) ==
    /\ pc[t][r] = "wait"
    /\ CtxDone(t)
    /\ IF r = Main THEN SetState(t, "cancelled") ELSE UNCHANGED state
    /\ Goto(t, r, "exit")
    /\ UNCHANGED <<closing, known, cancelled, configured, retries, runs, left, need>>

\* case <-timer.C or <-ticker.C, which the select may choose although ctx is done.
Fire(t, r) ==
    /\ pc[t][r] = "wait"
    /\ r = Main /\ t \notin Once => runs[t] < MaxRuns
    /\ Goto(t, r, "deps")
    /\ UNCHANGED <<closing, data>>

\* Faulty variant: a dependency that is not completed does not hold a task back.
DependencyIgnored(d) == TRUE
\* A dependency that is still known has completed.
DependencyMet(d) == d \in known => state[d] = "completed"

\* areDependenciesMet copies DependsOn; with dependencies to read it locks s.mu for reading.
CheckDeps(t, r) ==
    /\ pc[t][r] = "deps"
    /\ LET ds == IF t \in configured THEN Deps[t] ELSE {} IN
         /\ left' = [left EXCEPT ![t][r] = ds]
         /\ Goto(t, r, IF ds = {} THEN "start" ELSE "reading")
    /\ need' = IF r = Main THEN [need EXCEPT ![t] = {}] ELSE need
    /\ UNCHANGED <<closing, known, cancelled, configured, state, retries, runs>>

\* The loop over the dependencies, which reads one state after the other.
ReadDep(t, r, d) ==
    /\ pc[t][r] = "reading" /\ d \in left[t][r]
    /\ LET rest == IF DependencyMet(d) THEN left[t][r] \ {d} ELSE {} IN
         /\ left' = [left EXCEPT ![t][r] = rest]
         /\ need' = IF r = Main /\ d \in known /\ DependencyMet(d)
                    THEN [need EXCEPT ![t] = @ \cup {d}] ELSE need
         /\ Goto(t, r, IF ~DependencyMet(d) THEN Return(r)
                       ELSE IF rest = {} THEN "start" ELSE "reading")
    /\ UNCHANGED <<closing, known, cancelled, configured, state, retries, runs>>

AreDependenciesMet(t, r) == CheckDeps(t, r) \/ \E d \in Tasks : ReadDep(t, r, d)

Start(t, r) ==
    /\ pc[t][r] = "start"
    /\ SetState(t, "running")
    /\ runs' = [runs EXCEPT ![t] = @ + 1]
    /\ Goto(t, r, "func")
    /\ UNCHANGED <<closing, known, cancelled, configured, retries, left, need>>

\* task.Func returns; with an error and a retry configuration there is more to do.
FuncReturns(t, r) ==
    /\ pc[t][r] = "func"
    /\ \/ Goto(t, r, Return(r))
       \/ t \in configured /\ MaxRetries[t] > 0 /\ Goto(t, r, "failed")
    /\ UNCHANGED <<closing, data>>

\* Faulty variant: one retry too many, of a task that repeats.
MayRetryOffByOne(t) == IF t \in Once THEN retries[t] < MaxRetries[t] ELSE retries[t] <= MaxRetries[t]
\* retry.RetryCount < retry.MaxRetries, read without task.mu.
MayRetry(t) == retries[t] < MaxRetries[t]

CheckRetry(t, r) ==
    /\ pc[t][r] = "failed"
    /\ Goto(t, r, IF MayRetry(t) THEN "retry" ELSE Return(r))
    /\ UNCHANGED <<closing, data>>

\* Faulty variant: RetryCount is not incremented for the first retry.
CountRetryLate(t) == IF retries[t] = 0 /\ runs[t] = 1 THEN 0 ELSE retries[t] + 1
\* task.Retry.RetryCount++
CountRetry(t) == retries[t] + 1

\* scheduleRetry: the goroutine of the retry is started under task.mu.
ScheduleRetry(t, r) ==
    /\ pc[t][r] = "retry"
    /\ retries' = [retries EXCEPT ![t] = CountRetry(t)]
    /\ SetState(t, "pending")
    /\ pc' = [pc EXCEPT ![t][r] = Return(r), ![t][retries[t] + 1] = "wait"]
    /\ UNCHANGED <<closing, known, cancelled, configured, runs, left, need>>

\* Faulty variant: a one-time task goes round the loop of a repeating one.
AfterLoops(t) ==
    /\ pc[t][Main] = "after" /\ Goto(t, Main, "wait")
    /\ need' = [need EXCEPT ![t] = {}]
    /\ UNCHANGED <<closing, known, cancelled, configured, state, retries, runs, left>>
\* What the main goroutine does after executeTask, whatever came of it.
After(t) ==
    /\ pc[t][Main] = "after"
    /\ IF t \in Once
       THEN SetState(t, "completed") /\ Goto(t, Main, "exit")
       ELSE UNCHANGED state /\ Goto(t, Main, "wait")
    /\ need' = [need EXCEPT ![t] = {}]
    /\ UNCHANGED <<closing, known, cancelled, configured, retries, runs, left>>

-----------------------------------------------------------------------------
\* s.wg counts the main goroutines that were started and have not returned.
Counted(t) == pc[t][Main] \notin {"none", "checked", "registered", "exit"}

\* The swap of s.closed, and s.cancel().
CloseMark ==
    /\ closing = "no"
    /\ closing' = "waiting"
    /\ UNCHANGED <<data, pc>>

CloseReturn ==
    /\ closing = "waiting"
    /\ \A t \in Tasks : ~Counted(t)
    /\ closing' = "returned"
    /\ UNCHANGED <<data, pc>>

-----------------------------------------------------------------------------
Schedule(t) == ScheduleCheck(t) \/ ScheduleRegister(t) \/ ScheduleStart(t)
Execute(t, r) ==
    \/ AreDependenciesMet(t, r) \/ Start(t, r) \/ FuncReturns(t, r)
    \/ CheckRetry(t, r) \/ ScheduleRetry(t, r)

Next ==
    \/ \E t \in Tasks : Schedule(t)
    \/ \E t \in Tasks : Configure(t)
    \/ \E t \in Tasks : Cancel(t)
    \/ \E t \in Tasks : Remove(t)
    \/ \E t \in Tasks, r \in Runners : Stop(t, r)
    \/ \E t \in Tasks, r \in Runners : Fire(t, r)
    \/ \E t \in Tasks, r \in Runners : Execute(t, r)
    \/ \E t \in Tasks : After(t)
    \/ CloseMark
    \/ CloseReturn

Spec == Init /\ [][Next]_vars

(***************************************************************************)
(* Fairness: a started Schedule goes on, task functions return, and Close  *)
(* goes on when it can.  A select chooses at random among its ready cases, *)
(* so the loop of a repeating task, once ctx is done, does not choose the  *)
(* timer for ever: strong fairness of its Stop.  The others select once.   *)
(***************************************************************************)
SchedulerFairness ==
    /\ \A t \in Tasks :
         /\ WF_vars(ScheduleRegister(t) \/ ScheduleStart(t)) /\ WF_vars(After(t))
         /\ \A r \in Runners : WF_vars(Execute(t, r)) /\ WF_vars(Stop(t, r))
    /\ \A t \in Tasks \ Once : SF_vars(Stop(t, Main))
    /\ WF_vars(CloseReturn)

FairSpec == Spec /\ SchedulerFairness

-----------------------------------------------------------------------------
Executing == {"deps", "reading", "start", "func", "failed", "retry"}
Alive(t, r) == pc[t][r] \notin {"none", "checked", "registered", "exit"}

\* The type invariant; the k-th retry goroutine exists once RetryCount reached k.
TypeOK ==
    /\ closing \in {"no", "waiting", "returned"}
    /\ known \subseteq Tasks /\ cancelled \subseteq Tasks /\ configured \subseteq Tasks
    /\ state \in [Tasks -> {"none", "pending", "running", "completed", "cancelled"}]
    /\ retries \in [Tasks -> Nat] /\ runs \in [Tasks -> Nat]
    /\ left \in [Tasks -> [Runners -> SUBSET Tasks]] /\ need \in [Tasks -> SUBSET Tasks]
    /\ pc \in [Tasks -> [Runners -> Executing \cup
                {"none", "checked", "registered", "wait", "after", "exit"}]]
    /\ \A t \in Tasks : \A r \in Retries : pc[t][r] = "none" <=> r > retries[t]

\* A one-time task is retried at most MaxRetries times.  A repeating task can be
\* retried more often, because its main goroutine and its retries test RetryCount
\* before any of them has counted its own retry (scheduler.go:281, 317), but fewer
\* than twice as often.
RetriesBounded == \A t \in Tasks :
    \/ retries[t] <= MaxRetries[t]
    \/ t \notin Once /\ retries[t] < 2 * MaxRetries[t]

\* The function of a one-time task never runs twice at the same time, and no more
\* than once for the timer and once for every retry.
NoOverlap == \A t \in Once :
    /\ \A r, q \in Runners : pc[t][r] \in Executing /\ pc[t][q] \in Executing => r = q
    /\ runs[t] <= 1 + retries[t]

\* While a task reads its dependencies, one after the other, and runs after they were
\* found met, the main goroutine of each that was found completed is over: only a retry
\* of the dependency may still be to come.
DependenciesOver == \A t \in Tasks : pc[t][Main] \in Executing \ {"deps"} =>
    \A d \in need[t] : d \in Once /\ pc[d][Main] = "exit"

\* The state of a one-time task that has not been retried tells where it is: "running"
\* only while its function runs or has just returned, "completed" only when its goroutine
\* is over.  Of a retried one it tells neither: the retry's goroutine sets "running" and
\* nobody takes it back, and the main one sets "completed" before or while the retry
\* runs (scheduler.go:147-149, 262, 331-344).
StateTells == \A t \in Once : retries[t] = 0 =>
    /\ state[t] = "running" => pc[t][Main] \in {"func", "failed", "retry", "after"}
    /\ state[t] = "completed" => pc[t][Main] = "exit"

\* Close returns, and every goroutine of every task ends, retries and tasks whose
\* Schedule overtook Close included ("Every goroutine has exit path via
\* ctx.Done()", scheduler.note:75).
ClosedQuiesces == Closed ~>
    closing = "returned" /\ \A t \in Tasks, r \in Runners : ~Alive(t, r)

\* "sync.WaitGroup ensures all exit before Close() returns" (scheduler.note:74).
AllExitBeforeClose == closing = "returned" => \A t \in Tasks, r \in Runners : ~Alive(t, r)
=============================================================================
