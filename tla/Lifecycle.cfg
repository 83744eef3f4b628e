SPECIFICATION Spec
CONSTANTS
    Address <- NoAddress
    House <- NoAddress
    HouseOf <- NoTable
    Configured <- NoAddress
    Config <- NoTable
    AllowedHouses <- NoAddress
    OptimisticUpdates = TRUE
INVARIANTS
    TypeOK
    CleanShutdown
    StoppedIsUnhealthy
PROPERTIES
    StopEndsRun
    HealthFollows
