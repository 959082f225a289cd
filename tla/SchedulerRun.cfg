\* A one-time task with a retry and a repeating task that depends on it and on one nobody
\* scheduled; or a repeating task with two retries, whose goroutines can pass the test of
\* RetryCount together and count a third: against Cancel, Remove and Close.  A scheduler
\* whose tasks are over may stop.
SPECIFICATION UsedSpec
CONSTANTS
    a = a  b = b  c = c
    Tasks <- ThreeTasks
    Once <- OneTask
    Deps <- BothBeforeB
    MaxRetries <- TwoForC
    Retries <- ThreeRetries
    MaxRuns = 2
CHECK_DEADLOCK FALSE
INVARIANTS
    TypeOK
    RetriesBounded
    NoOverlap
    DependenciesOver
    StateTells
PROPERTY
    ClosedQuiesces
