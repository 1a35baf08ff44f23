\* A device or another cluster, with two disturbances.
SPECIFICATION FairSpec
CONSTANTS
    Endpoints = {"api", "api2"}
    Requests <- SomeRequests
    DeviceRequests <- SomeDeviceRequests
    Profiles = {"old", "modern"}
    TokenDays = 3
    MaxDisturbances = 2
INVARIANTS TypeOK RepositoryStaysFresh
PROPERTIES
    ApprovesWhatItRead
    AcceptingKeepsEdits
    DeviceIsAccepted
    RequestIsApproved
    
CHECK_DEADLOCK FALSE
