\* Two clusters with usable secrets of different kinds, two workers.
SPECIFICATION Spec
CONSTANTS
    Clusters = {c1, c2}
    Secrets <- UsableSecrets
    Strategy = "ImportOnly"
    MaxConcurrentReconciles = 2
    TotalRetryTimes = 1
    MaxDisturbances = 0
INVARIANT
    NeverFalselyInvalid
CHECK_DEADLOCK FALSE
