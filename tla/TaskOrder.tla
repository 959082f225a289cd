----------------------------- MODULE TaskOrder -----------------------------
(***************************************************************************)
(* What stage2/07-task-scheduler/scheduler/priority_queue.go promises: a   *)
(* set of tasks of which Pop and Peek give one that no other is to come    *)
(* before.                                                                 *)
(***************************************************************************)
EXTENDS Integers

CONSTANTS QueueTasks, Priorities, NoTask

VARIABLES
    queued,   \* the tasks in the queue
    rank,     \* Priority and NextRunAt of each task
    given     \* what the last Pop or Peek returned, until something else is done

taskVars == <<queued, rank, given>>

\* Higher priority first; if equal, earlier NextRunAt first.
Precedes(ranks, t, u) ==
    \/ ranks[t].priority > ranks[u].priority
    \/ ranks[t].priority = ranks[u].priority /\ ranks[t].at < ranks[u].at

IsFirst(t) == t \in queued /\ \A u \in queued : ~Precedes(rank, u, t)

TaskInit == queued = {} /\ given = NoTask

Add(t) == t \notin queued /\ queued' = queued \cup {t} /\ given' = NoTask /\ UNCHANGED rank
Take(t) == IsFirst(t) /\ queued' = queued \ {t} /\ given' = t /\ UNCHANGED rank
Show(t) == IsFirst(t) /\ given' = t /\ UNCHANGED <<queued, rank>>
Discard(t) == t \in queued /\ queued' = queued \ {t} /\ given' = NoTask /\ UNCHANGED rank
Change(t, p) ==
    /\ t \in queued
    /\ rank' = [rank EXCEPT ![t].priority = p]
    /\ given' = NoTask
    /\ UNCHANGED queued

TaskNext ==
    \/ \E t \in QueueTasks : Add(t)
    \/ \E t \in QueueTasks : Take(t)
    \/ \E t \in QueueTasks : Show(t)
    \/ \E t \in QueueTasks : Discard(t)
    \/ \E t \in QueueTasks, p \in Priorities : Change(t, p)

TaskSpec == TaskInit /\ [][TaskNext]_taskVars
=============================================================================
