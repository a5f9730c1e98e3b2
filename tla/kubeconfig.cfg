SPECIFICATION FairSpec
CONSTANTS
    r = r
    x = x
    y = y
    Stranger = Stranger
    Clusters <- MCClusters
    Maps <- HubChainOrCycle
    Namings <- MCNamings
    Requests <- MCRequests
    Orders <- MCOrders
    NoCluster = NoCluster
    Wrong = Wrong
    MaxStack = 4
INVARIANTS Complete Genuine CurrentIsBuilt
PROPERTY BuildEnds
