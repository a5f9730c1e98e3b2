SPECIFICATION FnSpec
CONSTANTS
    Unset = Unset
    NoValue = NoValue
    NoJob = NoJob
    BadIndex = BadIndex
    FunctionsDir = 1
    Jobs <- MCJobs
    MaxRuns = 2
INVARIANTS RunIsWhole CloudDataOfRun OwnComponents
PROPERTIES PhaseEnds
CHECK_DEADLOCK FALSE
