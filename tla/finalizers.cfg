\* Two workers per controller; a restart of the manager, a loss of the works or
\* another component's finalizer.
SPECIFICATION FairSpec
CONSTANTS
    Foreign = {registration}
    MaxConcurrentReconciles = 2
    MaxIncarnations = 1
    MaxDisturbances = 1
INVARIANT TypeOK
PROPERTIES
    CleanupKeepsForeign
    ImportFinalizerRestored
    WorksRestored
    DetachCompletes
CHECK_DEADLOCK FALSE
