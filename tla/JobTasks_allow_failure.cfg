\* Spec scenario S5: a allows failure and may exit non-zero, b depends on a.
CONSTANTS
    j1 = j1
    j2 = j2
    NoOutput = NoOutput
    Jobs = {j1}
    JobOrder <- OneJob
    JobConcurrency = 1
    TaskNames <- PairNames
    DependsOn <- PairDeps
    AllowFailure <- OnlyA
    ScriptLen = 1
    MayExitNonZero = TRUE
    WriterMayFail = FALSE
SPECIFICATION Spec
INVARIANT FailedTaskReported
CHECK_DEADLOCK FALSE
