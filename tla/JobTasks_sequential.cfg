\* Two jobs of one pipeline with concurrency 1 (the default), each running
\* the diamond a -> {b, c} -> d with two commands per script: b and c run
\* at once. a allows failure, and every command may exit non-zero.
CONSTANTS
    j1 = j1
    j2 = j2
    NoOutput = NoOutput
    Jobs = {j1, j2}
    JobOrder <- TwoJobs
    JobConcurrency = 1
    TaskNames <- DiamondNames
    DependsOn <- DiamondDeps
    AllowFailure <- OnlyA
    ScriptLen = 2
    MayExitNonZero = TRUE
    WriterMayFail = FALSE
SPECIFICATION Spec
INVARIANT TypeOK
INVARIANT OwnDependencyOutput
\* Once both jobs have completed, nothing is left to do.
CHECK_DEADLOCK FALSE
