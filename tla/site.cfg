SPECIFICATION SiteSpec
CONSTANTS
    Unset = Unset
    NoValue = NoValue
    Bundles <- MCBundles
    BaseURLs = {"url"}
    RemoteTypes = {"redfish", "redfish-dell", "other"}
    Selectors <- MCSelectors
    MaxCommands = 1
    PhaseBundles <- MCPhaseBundles
    Requests <- MCRequests
    MaxRequests = 1
    MaxEdits = 1
INVARIANTS SuccessCoversAll TouchedOnlyIfSound FailureSplitsBatch OwnCredentials
           RunFollowsPlan ListAgreesWithRun
PROPERTY CommandEnds
