SPECIFICATION Spec
CONSTANTS
    Configs <- MCConfigs
    NeedsPassword <- MCNeedsPassword
    Nothing = Nothing
    MaxPulls = 2
    MaxCommit = 2
    MaxEdits = 1
    MaxFaults = 1
INVARIANTS SuccessIsFresh FailureExplained
PROPERTY EditsKept
