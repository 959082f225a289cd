--------------------------- MODULE PriorityQueue ---------------------------
(***************************************************************************)
(* stage2/07-task-scheduler/scheduler/priority_queue.go: a binary heap in  *)
(* a slice, with container/heap (external: Rise, Sink and the four calls   *)
(* that use them).  Indices begin at 1.  A task is in the queue at most    *)
(* once, and its Priority changes only through UpdatePriority while it is  *)
(* there, its NextRunAt not at all.                                        *)
(***************************************************************************)
EXTENDS Integers, Sequences, Functions

CONSTANTS QueueTasks, Priorities, RunTimes, NoTask

ASSUME QueueAssumption == Priorities \subseteq Int /\ RunTimes \subseteq Int /\ NoTask \notin QueueTasks

VARIABLES
    items,   \* pq.items
    rank,    \* Priority and NextRunAt of each task
    given    \* what the last PopTask or PeekTask returned, until something else is done

queueVars == <<items, rank, given>>

Ranks == [priority : Priorities, at : RunTimes]

QueueInit == items = <<>> /\ given = NoTask /\ rank \in [QueueTasks -> Ranks]

-----------------------------------------------------------------------------
\* Faulty variant: the later of two tasks of a priority comes first.
LessLater(ranks, t, u) ==
    \/ ranks[t].priority > ranks[u].priority
    \/ ranks[t].priority = ranks[u].priority /\ ranks[t].at > ranks[u].at
Less(ranks, t, u) ==
    \/ ranks[t].priority > ranks[u].priority
    \/ ranks[t].priority = ranks[u].priority /\ ranks[t].at < ranks[u].at

Swapped(h, i, j) == [h EXCEPT ![i] = h[j], ![j] = h[i]]

\* The loops of container/heap work on a heap and the place of one element in it, which
\* changes places with the one at k.
Places(heap) == [heap : [DOMAIN heap -> QueueTasks], at : DOMAIN heap]
MovedTo(s, k) == [heap |-> Swapped(s.heap, s.at, k), at |-> k]

\* heap.up: the element at start rises while it is less than its parent.
Rises(ranks, s) == s.at > 1 /\ Less(ranks, s.heap[s.at], s.heap[s.at \div 2])
Rise(ranks, heap, start) ==
    LET up[s \in Places(heap)] ==
          IF Rises(ranks, s) THEN up[MovedTo(s, s.at \div 2)] ELSE s.heap
    IN up[[heap |-> heap, at |-> start]]

\* heap.down: the element at start sinks below its lesser child, among the first n.
Child(ranks, s, n) ==
    IF 2 * s.at < n /\ Less(ranks, s.heap[2 * s.at + 1], s.heap[2 * s.at])
    THEN 2 * s.at + 1 ELSE 2 * s.at
Sinks(ranks, s, n) ==
    Child(ranks, s, n) <= n /\ Less(ranks, s.heap[Child(ranks, s, n)], s.heap[s.at])
Sink(ranks, heap, start, n) ==
    LET down[s \in Places(heap)] ==
          IF Sinks(ranks, s, n) THEN down[MovedTo(s, Child(ranks, s, n))] ELSE s.heap
    IN down[[heap |-> heap, at |-> start]]

\* heap.Fix: sink, or rise if it did not move.
Fixed(ranks, h, i, n) ==
    LET sunk == Sink(ranks, h, i, n) IN IF sunk = h THEN Rise(ranks, h, i) ELSE sunk

\* Faulty variant: what takes the place of a removed element only sinks.
WithoutSinks(ranks, h, i) ==
    SubSeq(Sink(ranks, Swapped(h, i, Len(h)), i, Len(h) - 1), 1, Len(h) - 1)
\* heap.Remove, and heap.Pop for i = 1: the last element takes the place.
Without(ranks, h, i) ==
    LET n == Len(h) - 1
        moved == Swapped(h, i, Len(h))
    IN SubSeq(IF i > n THEN moved ELSE Fixed(ranks, moved, i, n), 1, n)

-----------------------------------------------------------------------------
PushTask(t) ==
    /\ t \notin Range(items)
    /\ items' = Rise(rank, Append(items, t), Len(items) + 1)
    /\ given' = NoTask
    /\ UNCHANGED rank

PopTask ==
    /\ items # <<>>
    /\ items' = Without(rank, items, 1)
    /\ given' = items[1]
    /\ UNCHANGED rank

PeekTask ==
    /\ items # <<>>
    /\ given' = items[1]
    /\ UNCHANGED <<items, rank>>

RemoveTask(t) == \E i \in DOMAIN items :
    /\ items[i] = t
    /\ items' = Without(rank, items, i)
    /\ given' = NoTask
    /\ UNCHANGED rank

UpdatePriority(t, p) == \E i \in DOMAIN items :
    /\ items[i] = t
    /\ rank' = [rank EXCEPT ![t].priority = p]
    /\ items' = Fixed(rank', items, i, Len(items))
    /\ given' = NoTask

QueueNext ==
    \/ \E t \in QueueTasks : PushTask(t)
    \/ PopTask
    \/ PeekTask
    \/ \E t \in QueueTasks : RemoveTask(t)
    \/ \E t \in QueueTasks, p \in Priorities : UpdatePriority(t, p)

QueueSpec == QueueInit /\ [][QueueNext]_queueVars

-----------------------------------------------------------------------------
QueueTypeOK ==
    /\ items \in Seq(QueueTasks) /\ IsInjective(items)
    /\ rank \in [QueueTasks -> Ranks] /\ given \in QueueTasks \cup {NoTask}

Order == INSTANCE TaskOrder WITH queued <- Range(items)

\* The heap implements the order: after any pushes, pops, removals from the middle and
\* changes of priority, PopTask and PeekTask return a task that none precedes
\* (priority_queue.go:77, 88, 122-151).
ImplementsTaskOrder == Order!TaskSpec
=============================================================================
