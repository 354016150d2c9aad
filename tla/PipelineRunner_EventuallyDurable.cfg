\* Restarts from an up-to-date store, saves never fail.
CONSTANTS
    p1 = p1  p2 = p2  p3 = p3
    j1 = j1  j2 = j2  j3 = j3  j4 = j4  j5 = j5
    NoLimit = NoLimit
    Pipelines <- RestartPipelines
    Concurrency <- RestartConcurrency
    QueueLimit <- RestartQueueLimit
    QueueStrategy <- RestartStrategy
    JobIds <- AdmissionJobIds
    GraphFails = {}
    SaveMayFail = FALSE
    MaxRestarts = 1
SPECIFICATION Spec
CHECK_DEADLOCK FALSE
PROPERTY EventuallyDurable
