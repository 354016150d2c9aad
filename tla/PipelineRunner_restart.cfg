\* Crashes at any point, restart from the store, failing saves and failing
\* graph construction.
CONSTANTS
    p1 = p1  p2 = p2  p3 = p3
    j1 = j1  j2 = j2  j3 = j3  j4 = j4  j5 = j5
    NoLimit = NoLimit
    Pipelines <- RestartPipelines
    Concurrency <- RestartConcurrency
    QueueLimit <- RestartQueueLimit
    QueueStrategy <- RestartStrategy
    JobIds <- RestartJobIds
    GraphFails <- RestartGraphFails
    SaveMayFail = TRUE
    MaxRestarts = 1
SPECIFICATION Spec
\* The service idles once the bounded pool of job ids is used up.
CHECK_DEADLOCK FALSE
INVARIANT WaitListIsPending
INVARIANT StoredWaitListIsPending
INVARIANT ConcurrencyLimit
INVARIANT RunningMeansExecuting
INVARIANT WorkConserving
PROPERTY StartsInFifoOrder
