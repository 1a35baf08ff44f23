\* A KlusterletConfig with the kubeconfigs of several hubs.
SPECIFICATION FairSpec
CONSTANTS
    Hubs <- OneHub
    Configs <- MultipleHubs
    ManagedClusters <- OneCluster
    HostedGate = TRUE
    TokenLife = 10
    ResyncPeriod = 1
    MaxDelay = 1
    MaxConcurrentReconciles = 1
    MaxEdits = 0
PROPERTY TokenIsKept
CHECK_DEADLOCK FALSE
