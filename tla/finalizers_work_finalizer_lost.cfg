\* One creation of the cluster is enough.
SPECIFICATION FairSpec
CONSTANTS
    Foreign = {}
    MaxConcurrentReconciles = 1
    MaxIncarnations = 1
    MaxDisturbances = 0
PROPERTY WorkFinalizerRestored
CHECK_DEADLOCK FALSE
