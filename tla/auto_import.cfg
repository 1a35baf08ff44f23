\* One cluster under fairness, every kind of secret, one edit or failure.
SPECIFICATION FairSpec
CONSTANTS
    Clusters = {c1}
    Secrets <- EveryKind
    Strategy = "ImportOnly"
    MaxConcurrentReconciles = 1
    TotalRetryTimes = 1
    MaxDisturbances = 1
INVARIANTS
    TypeOK
    NeverFalselyInvalid
    SecretIsUsedUp
    AdministratorIsRemoved
PROPERTIES
    ImportCompletes
    AvailableIsReported
CHECK_DEADLOCK FALSE
