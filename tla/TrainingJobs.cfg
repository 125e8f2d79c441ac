\* Two jobs, two requests, two tasks, one worker process (--concurrency=1).
SPECIFICATION Spec
CONSTANTS
    j1 = j1  j2 = j2  q1 = q1  q2 = q2  q3 = q3  w1 = w1
    t1 = t1  t2 = t2  v1 = v1  v2 = v2  m1 = m1  a1 = a1
    NoJob = NoJob  NoTask = NoTask  NoVersion = NoVersion
    Jobs <- TwoJobs
    Requests <- TwoRequests
    Workers <- OneWorker
    Tasks <- TwoTasks
    Versions <- TwoVersions
    RequestedScopes <- AllData
    ManualSpans <- OneManual
    AutomatedSpans <- NoSpan
INVARIANTS
    CompletedJobNamesItsVersion
    ConsumptionIsEarned
    RetryGuard
    TrainedIsConsumed
SYMMETRY Symmetry
CONSTRAINT OneJobMeanwhile
\* Requests and task ids are finite in number.
CHECK_DEADLOCK FALSE
