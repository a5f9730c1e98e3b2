SPECIFICATION Spec
CONSTANTS
    a = a
    b = b
    Phases <- MCPhases
    Known <- MCPhases
    Plans <- MCPlans
    NoPhase = NoPhase
    Typo = Typo
    MaxCmds = 2
INVARIANTS RunsInOrder SuccessMeansAll NoTempLeft CacheGone
