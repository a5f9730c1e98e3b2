SPECIFICATION Spec
CONSTANTS
    Objects = {"host"}
    Deployed = {"host"}
    Versioned = {"host"}
    KindOf <- MCKindOf
    Requests <- FlagRequests
    UnitsPerSecond = 8
    HalfWidth = 128
    NoFlag = NoFlag
    NoValue = NoValue
    MaxChanges = 0
INVARIANT WaitsAsLongAsAsked
