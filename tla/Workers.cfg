\* Three worker pools whose shutdowns race submissions, workers, resizes and each other.
SPECIFICATION FairSpec
CHECK_DEADLOCK FALSE
CONSTANTS
    w1 = w1  w2 = w2  w3 = w3  j1 = j1  j2 = j2  j3 = j3
    c1 = c1  c2 = c2  r1 = r1  r2 = r2
    NoJob = NoJob
    Workers <- ThreeWorkers
    Jobs <- TwoJobs
    Closers <- TwoClosers
    Resizers <- TwoResizers
    BufferSize = 1
    MinWorkers = 1
    MaxWorkers = 2
INVARIANTS
    TypeOK
    CleanShutdownDelivers
    ResultsClosedLast
    KeepsMinimum
    EndsStopped
PROPERTY ShutdownEnds
