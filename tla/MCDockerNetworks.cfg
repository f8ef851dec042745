SPECIFICATION FairSpec
CONSTANTS
    edge = edge
    app = app
    Nets <- MCNets
    Edge = edge
    Syncs <- MCSyncs
    MaxEvents = 2
PROPERTY LeavesKnowingly
CHECK_DEADLOCK FALSE
PROPERTY NetworksConverge
