\* Every way a detach may go, under fairness.
SPECIFICATION FairSpec
CONSTANT Settings <- EveryWayOut
INVARIANTS NamespaceKeptForWorks
PROPERTIES NothingLeft KeepsPromise
CHECK_DEADLOCK FALSE
