\* Admission, task execution, persistence and one crash at any point.
CONSTANTS
    p1 = p1
    j1 = j1
    j2 = j2
    NoLimit = NoLimit
    NoOutput = NoOutput
    Pipelines <- LifecyclePipelines
    Concurrency <- LifecycleConcurrency
    QueueLimit <- LifecycleQueueLimit
    QueueStrategy <- LifecycleStrategy
    JobIds <- LifecycleJobIds
    GraphFails = {}
    SaveMayFail = FALSE
    MaxRestarts = 1
    TaskNames <- PairNames
    DependsOn <- PairDeps
    AllowFailure <- NoNames
    ScriptLen = 1
    MayExitNonZero = TRUE
    WriterMayFail = FALSE
SPECIFICATION Spec
\* The service idles once the bounded pool of job ids is used up.
CHECK_DEADLOCK FALSE
INVARIANT TerminalJobsSettled
PROPERTY EveryJobSettles
