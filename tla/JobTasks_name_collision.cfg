\* One job with tasks "a-b" -> c and "a_b", which export under the same
\* environment variable name.
CONSTANTS
    j1 = j1
    j2 = j2
    NoOutput = NoOutput
    Jobs = {j1}
    JobOrder <- OneJob
    JobConcurrency = 1
    TaskNames <- CollisionNames
    DependsOn <- CollisionDeps
    AllowFailure <- NoNames
    ScriptLen = 1
    MayExitNonZero = FALSE
    WriterMayFail = FALSE
SPECIFICATION Spec
INVARIANT OwnDependencyOutput
CHECK_DEADLOCK FALSE
