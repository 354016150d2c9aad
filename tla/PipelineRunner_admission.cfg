\* Admission, queueing, completion and the debounced writer without crashes.
CONSTANTS
    p1 = p1  p2 = p2  p3 = p3
    j1 = j1  j2 = j2  j3 = j3  j4 = j4  j5 = j5
    NoLimit = NoLimit
    Pipelines <- AdmissionPipelines
    Concurrency <- AdmissionConcurrency
    QueueLimit <- AdmissionQueueLimit
    QueueStrategy <- AdmissionStrategy
    JobIds <- AdmissionJobIds
    GraphFails = {}
    SaveMayFail = FALSE
    MaxRestarts = 0
SPECIFICATION Spec
\* The service idles once the bounded pool of job ids is used up.
CHECK_DEADLOCK FALSE
INVARIANT TypeOK
INVARIANT WaitListIsPending
INVARIANT ConcurrencyLimit
INVARIANT WorkConserving
INVARIANT WaitListBound
 
PROPERTY CanceledNeverStarts
PROPERTY JobsEventuallyTerminate
PROPERTY EventuallyDurable
PROPERTY RefinesPipelineQueue
