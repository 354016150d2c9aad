\* Two jobs running a -> b at the same time (a pipeline with concurrency 2,
\* or two pipelines with the same task names) on the shared TaskRunner.
CONSTANTS
    j1 = j1
    j2 = j2
    NoOutput = NoOutput
    Jobs = {j1, j2}
    JobOrder <- TwoJobs
    JobConcurrency = 2
    TaskNames <- PairNames
    DependsOn <- PairDeps
    AllowFailure <- NoNames
    ScriptLen = 1
    MayExitNonZero = FALSE
    WriterMayFail = FALSE
SPECIFICATION Spec
INVARIANT OwnDependencyOutput
CHECK_DEADLOCK FALSE
