\* A deployment kept in sync and the hub imported once, under fairness.
SPECIFICATION FairSpec
CONSTANTS
    Settings <- HiveSyncedAndSelfOnce
    MaxVersions = 2
    MaxDisturbances = 1
INVARIANT
    TypeOK
PROPERTIES
    ImportCompletes
    ConditionSettles
    DeploymentGoes
    HiveFinalizerKept
CHECK_DEADLOCK FALSE
