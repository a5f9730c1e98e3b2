SPECIFICATION Spec
CONSTANTS
    Objects = {"host", "map", "local"}
    Deployed = {"host", "map"}
    Versioned = {"host"}
    KindOf <- MCKindOf
    Requests <- MCRequests
    UnitsPerSecond = 8
    HalfWidth = 128
    NoFlag = NoFlag
    NoValue = NoValue
    MaxChanges = 2
INVARIANTS SuccessWasReached StatusNotTooOld
 
