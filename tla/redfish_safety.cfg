SPECIFICATION FairSpec
CONSTANTS
    N = 2
    CDMedia <- MCCDMedia
    SystemActionRetries = 2
    Dell = FALSE
    ClientErrs = TRUE
    CDBootable = TRUE
    ISO = ISO
    NoISO = NoISO
    OldImage = OldImage
    NoImage = NoImage
    MaxOps = 3
    MaxOutside = 1
INVARIANTS RemoteDirectBootsISO PowerPromise FailureHasCause
PROPERTIES NoEarlyBoot OperationEnds ImplementsHostOp
