SPECIFICATION CallsSpec
CONSTANTS
    Address <- MCAddress
    House <- MCHouse
    HouseOf <- MCHouseOf
    Configured <- MCConfigured
    Config <- MCConfig
    AllowedHouses <- MCFilter
    OptimisticUpdates = TRUE
INVARIANTS
    ManagerTypeOK
    StatelessHasNoState
    FilteredHousesUnknown
    MirrorInSync
    DiscoveredIsAnnounced
PROPERTIES
    StatePublishedOnlyOnChange
VIEW View
