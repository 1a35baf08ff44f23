\* The strategy ImportOnly; the klusterlet is removed from the managed cluster,
\* then a user requests an immediate import.
SPECIFICATION FairSpec
CONSTANTS
    Settings <- SelfOnce
    MaxVersions = 1
    MaxDisturbances = 2
PROPERTY
    ImmediateImportHappens
CHECK_DEADLOCK FALSE
