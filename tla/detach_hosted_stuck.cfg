\* Hosted mode; the cluster is not accepted.
SPECIFICATION FairSpec
CONSTANT Settings <- HostedPending
PROPERTIES DetachCompletes
CHECK_DEADLOCK FALSE
