\* Hosted mode with addons; the managed cluster may become unreachable.
SPECIFICATION Spec
CONSTANT Settings <- HostedWithAddons
INVARIANTS TypeOK DetachedIsClean
PROPERTIES HostingWorkOrder
CHECK_DEADLOCK FALSE
