-------------------------------- MODULE Cron --------------------------------
(***************************************************************************)
(* stage2/07-task-scheduler/scheduler: cron.go, and ScheduleCron and       *)
(* runCron of scheduler.go for one task that nobody cancels and whose      *)
(* function always returns (Scheduler has the rest).  Time is counted in   *)
(* seconds; which values the fields of a second have (the calendar of      *)
(* package time) is a constant.  The wall clock runs with the timers.      *)
(***************************************************************************)
EXTENDS Integers

CONSTANTS
    Fields,     \* second, minute, hour, day, month and weekday
    Lowest, Highest,   \* what a value of each field may be
    Calendar,   \* the value of each field at each second
    Specs,      \* the text of an expression: for each field what one can write there
    Horizon,    \* how many seconds Next looks ahead
    LastSecond  \* bound on the clock

Zero == -1   \* time.Time{}, which is before every other time
Seconds == 0..(LastSecond + Horizon)
Values(f) == Lowest[f]..Highest[f]

ASSUME CronAssumption ==
    /\ Horizon \in Nat \ {0} /\ LastSecond \in Nat
    /\ Lowest \in [Fields -> Nat] /\ Highest \in [Fields -> Nat]
    /\ \A t \in Seconds, f \in Fields : Calendar[t][f] \in Values(f)
    /\ Specs \subseteq [form : {"all"}] \cup [form : {"step"}, n : Int]
                  \cup [form : {"list"}, of : SUBSET Int] \cup [form : {"range"}, from : Int, to : Int]

VARIABLES
    second,     \* time.Now()
    expr,       \* task.CronExpr: the set of values of each field
    nextRun,    \* task.NextRunAt
    cron,       \* where runCron is: "none", "timer", "running", or "invalid"
    first,      \* when the task was scheduled (history)
    fired,      \* the seconds the task was run for, Zero aside (history)
    twice,      \* it was run a second time for one of them (history)
    busy        \* the seconds that began while a run was due or going on (history)

cronVars == <<second, expr, nextRun, cron, first, fired, twice, busy>>

CronInit ==
    /\ second = 0 /\ cron = "none" /\ nextRun = Zero
    /\ expr = [f \in Fields |-> {}]
    /\ first = 0 /\ fired = {} /\ twice = FALSE /\ busy = {}

-----------------------------------------------------------------------------
\* parseField: "*", "*/n", "a,b,...", "a-b" and "a" (a list of one).  The empty set
\* stands for ErrInvalidField.
ParseField(f, spec) ==
    CASE spec.form = "all" -> Values(f)
      [] spec.form = "step" ->
           IF spec.n <= 0 THEN {} ELSE {v \in Values(f) : (v - Lowest[f]) % spec.n = 0}
      [] spec.form = "list" -> IF spec.of \subseteq Values(f) THEN spec.of ELSE {}
      [] spec.form = "range" ->
           IF spec.from < Lowest[f] \/ spec.to > Highest[f] \/ spec.to < spec.from
           THEN {} ELSE spec.from..spec.to

ParseCron(text) == [f \in Fields |-> ParseField(f, text[f])]

Matches(e, t) == \A f \in Fields : Calendar[t][f] \in e[f]

\* Faulty variant: the search begins with the second it is asked at.
SearchFromNow(from) == from..(from + Horizon - 1)
\* The seconds that Next looks at: the next whole one is the first.
Search(from) == (from + 1)..(from + Horizon)

\* CronExpr.Next
NextTime(e, from) ==
    LET hits == {t \in Search(from) : Matches(e, t)} IN
    IF hits = {} THEN Zero ELSE CHOOSE t \in hits : \A u \in hits : t <= u

-----------------------------------------------------------------------------
ScheduleCron(text) ==
    /\ cron = "none"
    /\ LET e == ParseCron(text) IN
         IF \E f \in Fields : e[f] = {}
         THEN cron' = "invalid" /\ UNCHANGED <<expr, nextRun, first>>
         ELSE /\ expr' = e /\ nextRun' = NextTime(e, second)
              /\ cron' = "timer" /\ first' = second
    /\ UNCHANGED <<second, fired, twice, busy>>

\* The timer's delay is 0 when the time has passed, as Zero has.
IsDue == nextRun <= second

\* case <-timer.C
FireCron ==
    /\ cron = "timer" /\ IsDue
    /\ cron' = "running"
    /\ twice' = (twice \/ nextRun \in fired)
    /\ fired' = fired \cup ({nextRun} \ {Zero})
    /\ UNCHANGED <<second, expr, nextRun, first, busy>>

\* executeTask returns, and the next run is computed.
CronReturns ==
    /\ cron = "running"
    /\ nextRun' = NextTime(expr, second)
    /\ cron' = "timer"
    /\ UNCHANGED <<second, expr, first, fired, twice, busy>>

\* A second begins; a run that is due may be late.
CronTick ==
    /\ second < LastSecond
    /\ second' = second + 1
    /\ busy' = IF cron = "running" \/ (cron = "timer" /\ IsDue) THEN busy \cup {second + 1} ELSE busy
    /\ UNCHANGED <<expr, nextRun, cron, first, fired, twice>>

CronNext ==
    \/ \E text \in [Fields -> Specs] : ScheduleCron(text)
    \/ FireCron
    \/ CronReturns
    \/ CronTick

CronSpec == CronInit /\ [][CronNext]_cronVars

-----------------------------------------------------------------------------
CronTypeOK ==
    /\ second \in 0..LastSecond /\ nextRun \in 0..(second + Horizon) \cup {Zero}
    /\ expr \in [Fields -> SUBSET Nat] /\ (\A f \in Fields : expr[f] \subseteq Values(f))
    /\ cron \in {"none", "timer", "running", "invalid"}
    /\ cron \in {"timer", "running"} => \A f \in Fields : expr[f] # {}
    /\ first \in 0..second /\ fired \subseteq 0..second /\ twice \in BOOLEAN
    /\ busy \subseteq 0..second

Due == {t \in (first + 1)..second : Matches(expr, t)}

\* A task runs at most once for a second its expression matches, never before it and
\* for no other; and only a second that began while another run was due or going on
\* goes without its own, or is still to have it (scheduler.go:222-248: NextRunAt is
\* computed when a run is over).
CronExact == cron \in {"timer", "running"} =>
    /\ ~twice /\ (\A t \in fired : Matches(expr, t) /\ first < t /\ t <= second)
    /\ Due \ fired \subseteq busy \cup {nextRun}
=============================================================================
