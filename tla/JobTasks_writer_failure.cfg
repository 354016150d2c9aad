\* Two jobs of one pipeline with concurrency 1, each running a -> b -> c;
\* a allows failure, and opening a task's log file may fail.
CONSTANTS
    j1 = j1
    j2 = j2
    NoOutput = NoOutput
    Jobs = {j1, j2}
    JobOrder <- TwoJobs
    JobConcurrency = 1
    TaskNames <- ChainNames
    DependsOn <- ChainDeps
    AllowFailure <- OnlyA
    ScriptLen = 1
    MayExitNonZero = FALSE
    WriterMayFail = TRUE
SPECIFICATION Spec
INVARIANT OwnDependencyOutput
CHECK_DEADLOCK FALSE
