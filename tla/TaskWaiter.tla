----------------------------- MODULE TaskWaiter -----------------------------
(***************************************************************************)
(* stage2/07-task-scheduler/scheduler/waiter.go, TaskWaiter: goroutines    *)
(* wait on one sync.Cond for tasks to be marked complete.  cond.Wait puts  *)
(* the goroutine on the notify list before it unlocks tw.mu.  MarkComplete *)
(* and the goroutines that watch contexts broadcast without holding it.    *)
(***************************************************************************)
EXTENDS FiniteSets

CONSTANTS
    Waiters,   \* goroutines that call Wait, WaitAny or WaitAll
    Markers,   \* goroutines that call MarkComplete
    TaskIDs,   \* the tasks
    Targets,   \* the sets of tasks that are waited for
    NoOne      \* tw.mu is free

ASSUME WaiterAssumption ==
    /\ Targets \subseteq SUBSET TaskIDs /\ {} \notin Targets
    /\ Waiters \cap Markers = {} /\ NoOne \notin Waiters

VARIABLES
    completed,  \* tw.completed
    mu,         \* the waiter that holds tw.mu; other critical sections are one step
    at,         \* where a waiter or a marker is
    ids, any,   \* the tasks a waiter waits for, and whether one of them is enough
    ctxDone,    \* waiters whose context is done
    watcher     \* where the goroutine that watches a waiter's context is

waitVars == <<completed, mu, at, ids, any, ctxDone, watcher>>

WaitInit ==
    /\ completed = {} /\ mu = NoOne
    /\ at = [g \in Waiters \cup Markers |-> "out"]
    /\ ids = [w \in Waiters |-> {}] /\ any = [w \in Waiters |-> FALSE]
    /\ ctxDone = {}
    /\ watcher = [w \in Waiters |-> "none"]

GotoAt(g, label) == at' = [at EXCEPT ![g] = label]
Satisfied(w) == IF any[w] THEN ids[w] \cap completed # {} ELSE ids[w] \subseteq completed

\* cond.Broadcast: whoever is on the notify list is woken.
Woken(g) == IF at[g] = "parked" THEN "woken" ELSE at[g]

-----------------------------------------------------------------------------
\* Wait(ctx, id), WaitAny(ctx, ids...) or WaitAll(ctx, ids...): tw.mu.Lock().
Call(w) ==
    /\ at[w] = "out"
    /\ mu = NoOne
    /\ mu' = w
    /\ \E is \in Targets, one \in BOOLEAN :
         ids' = [ids EXCEPT ![w] = is] /\ any' = [any EXCEPT ![w] = one]
    /\ GotoAt(w, "begin")
    /\ UNCHANGED <<completed, ctxDone, watcher>>

\* What is completed already is returned at once (WaitAll finds it in its loop),
\* else a goroutine that watches the context is started.
Begin(w) ==
    /\ at[w] = "begin"
    /\ IF Satisfied(w)
       THEN GotoAt(w, "returned") /\ mu' = NoOne /\ UNCHANGED watcher
       ELSE GotoAt(w, "test") /\ watcher' = [watcher EXCEPT ![w] = "watching"] /\ UNCHANGED mu
    /\ UNCHANGED <<completed, ids, any, ctxDone>>

\* The tests of the loop, under tw.mu: ctx.Err() and the tasks.  Returning closes
\* the channel done, which ends the watcher.
Test(w) ==
    /\ at[w] = "test"
    /\ IF Satisfied(w) \/ w \in ctxDone
       THEN /\ GotoAt(w, "returned") /\ mu' = NoOne
            /\ watcher' = [watcher EXCEPT ![w] = IF @ = "watching" THEN "none" ELSE @]
       ELSE GotoAt(w, "park") /\ UNCHANGED <<mu, watcher>>
    /\ UNCHANGED <<completed, ids, any, ctxDone>>

\* Faulty variant: tw.mu is unlocked before the goroutine is on the notify list.
ParkLate(w) ==
    /\ \/ at[w] = "park" /\ mu = w /\ mu' = NoOne /\ UNCHANGED at
       \/ at[w] = "park" /\ mu # w /\ GotoAt(w, "parked") /\ UNCHANGED mu
    /\ UNCHANGED <<completed, ids, any, ctxDone, watcher>>
\* cond.Wait: join the notify list, unlock tw.mu, sleep.
Park(w) ==
    /\ at[w] = "park"
    /\ GotoAt(w, "parked") /\ mu' = NoOne
    /\ UNCHANGED <<completed, ids, any, ctxDone, watcher>>

\* The end of cond.Wait: lock tw.mu again.
Relock(w) ==
    /\ at[w] = "woken"
    /\ mu = NoOne
    /\ GotoAt(w, "test") /\ mu' = w
    /\ UNCHANGED <<completed, ids, any, ctxDone, watcher>>

-----------------------------------------------------------------------------
\* The context is cancelled or times out.
ContextDone(w) ==
    /\ at[w] # "out"
    /\ w \notin ctxDone
    /\ ctxDone' = ctxDone \cup {w}
    /\ UNCHANGED <<completed, mu, at, ids, any, watcher>>

\* case <-ctx.Done(): broadcast, without tw.mu.
WatcherBroadcast(w) ==
    /\ watcher[w] = "watching"
    /\ w \in ctxDone
    /\ watcher' = [watcher EXCEPT ![w] = "none"]
    /\ at' = [g \in DOMAIN at |-> Woken(g)]
    /\ UNCHANGED <<completed, mu, ids, any, ctxDone>>

\* MarkComplete: the map under tw.mu, then the broadcast without it.
Mark(m) ==
    /\ at[m] = "out"
    /\ mu = NoOne
    /\ \E id \in TaskIDs : completed' = completed \cup {id}
    /\ GotoAt(m, "broadcast")
    /\ UNCHANGED <<mu, ids, any, ctxDone, watcher>>

\* Faulty variant: cond.Signal instead of cond.Broadcast.
MarkSignal(m) ==
    /\ at[m] = "broadcast"
    /\ \/ \E w \in Waiters : at[w] = "parked" /\ at' = [at EXCEPT ![w] = "woken", ![m] = "out"]
       \/ (\A w \in Waiters : at[w] # "parked") /\ GotoAt(m, "out")
    /\ UNCHANGED <<completed, mu, ids, any, ctxDone, watcher>>
MarkBroadcast(m) ==
    /\ at[m] = "broadcast"
    /\ at' = [g \in DOMAIN at |-> IF g = m THEN "out" ELSE Woken(g)]
    /\ UNCHANGED <<completed, mu, ids, any, ctxDone, watcher>>

Reset(id) ==
    /\ mu = NoOne
    /\ id \in completed
    /\ completed' = completed \ {id}
    /\ UNCHANGED <<mu, at, ids, any, ctxDone, watcher>>

-----------------------------------------------------------------------------
WaitStep(w) == Begin(w) \/ Test(w) \/ Park(w) \/ Relock(w)

WaitNext ==
    \/ \E w \in Waiters : Call(w)
    \/ \E w \in Waiters : WaitStep(w)
    \/ \E w \in Waiters : ContextDone(w)
    \/ \E w \in Waiters : WatcherBroadcast(w)
    \/ \E m \in Markers : Mark(m)
    \/ \E m \in Markers : MarkBroadcast(m)
    \/ \E id \in TaskIDs : Reset(id)

\* A goroutine that can run does, and sync.Mutex lets nobody starve.
WaitFairness ==
    /\ \A w \in Waiters :
         /\ WF_waitVars(WaitStep(w)) /\ SF_waitVars(Relock(w))
         /\ WF_waitVars(WatcherBroadcast(w))
    /\ \A m \in Markers : WF_waitVars(MarkBroadcast(m))

WaitSpec == WaitInit /\ [][WaitNext]_waitVars
WaitFairSpec == WaitSpec /\ WaitFairness

-----------------------------------------------------------------------------
WaitTypeOK ==
    /\ completed \subseteq TaskIDs /\ ctxDone \subseteq Waiters
    /\ at \in [Waiters \cup Markers ->
               {"out", "begin", "test", "park", "parked", "woken", "returned", "broadcast"}]
    /\ watcher \in [Waiters -> {"none", "watching"}]
    /\ mu \in Waiters \cup {NoOne}
    /\ \A w \in Waiters : mu = w <=> at[w] \in {"begin", "test", "park"}

\* No completion is missed: a waiter sleeps although what it waits for is
\* completed only while a MarkComplete is about to broadcast (waiter.go:63-69,
\* 163-169).
NoMissedCompletion == \A w \in Waiters :
    at[w] \in {"park", "parked"} /\ Satisfied(w) => \E m \in Markers : at[m] = "broadcast"

\* A waiter whose tasks are completed returns, unless Reset takes the completion
\* back first.
CompletionServed == \A w \in Waiters :
    at[w] \notin {"out", "returned"} /\ Satisfied(w) ~> at[w] = "returned" \/ ~Satisfied(w)

\* "Wait blocks until the specified task completes or context is cancelled"
\* (waiter.go:40).
CancellationServed == \A w \in Waiters : w \in ctxDone ~> at[w] = "returned"
=============================================================================
