---------------------------- MODULE MCScheduler ----------------------------
\* Instances of Scheduler for TLC.
EXTENDS Scheduler

CONSTANTS a, b, c

ThreeTasks == {a, b, c}
OneTask == {a}
OneEach == [t \in Tasks |-> 1]
\* Two retries for c: its goroutines may then count three.
TwoForC == [t \in Tasks |-> IF t = c THEN 2 ELSE 1]
OneRetry == {1}
ThreeRetries == 1..3
NoDeps == [t \in Tasks |-> {}]
\* b depends on a, and on c, which nobody schedules beside it.
BothBeforeB == [t \in Tasks |-> IF t = b THEN {a, c} ELSE {}]

VARIABLE used   \* bound: the tasks this behaviour schedules
usedVars == <<used, vars>>

\* Either a task and its dependent, or one task whose retries run beside it.
Together == {{a, b}, {c}}
OnlyUsed == UNCHANGED used /\ \A t \in Tasks \ used : pc'[t][Main] = "none"

UsedInit == Init /\ used \in Together
UsedNext == Next /\ OnlyUsed
UsedSpec == UsedInit /\ [][UsedNext]_usedVars /\ SchedulerFairness
=============================================================================
