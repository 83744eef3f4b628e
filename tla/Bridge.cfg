SPECIFICATION Spec
CONSTANTS
    Address <- MCAddress
    House <- MCHouse
    HouseOf <- MCHouseOf
    Configured <- MCConfigured
    Config <- MCConfig
    AllowedHouses <- MCNoFilter
    OptimisticUpdates = TRUE
INVARIANTS
    TypeOK
    SyncedUnlessDisturbed
PROPERTIES
    DownBecomesVisible
