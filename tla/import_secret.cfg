\* One edit, failure or restart of any kind, two workers.
SPECIFICATION FairSpec
CONSTANTS
    Hubs <- TwoHubs
    Configs <- SomeConfigs
    ManagedClusters <- SomeClusters
    HostedGate = TRUE
    TokenLife = 10
    ResyncPeriod = 1
    MaxDelay = 1
    MaxConcurrentReconciles = 2
    MaxEdits = 1
INVARIANTS TypeOK NeverExpired
PROPERTIES KeepsPromise SecretFollows BundlesAreTrusted BuiltTrustsBundles TokenIsAccepted TokenIsKept
CHECK_DEADLOCK FALSE
