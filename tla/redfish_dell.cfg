SPECIFICATION Spec
CONSTANTS
    N = 2
    CDMedia <- MCBothCD
    SystemActionRetries = 1
    Dell = TRUE
    ClientErrs = TRUE
    CDBootable = TRUE
    ISO = ISO
    NoISO = NoISO
    OldImage = OldImage
    NoImage = NoImage
    MaxOps = 2
    MaxOutside = 0
PROPERTY NoOldImageBoot
