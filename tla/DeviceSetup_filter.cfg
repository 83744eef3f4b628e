SPECIFICATION Spec
CONSTANTS
    Address = {"A1", "F1"}
    HouseFiltered = {"F1"}
    BaseTopic <- MCBase
    DiscoveryPrefix <- MCPrefix
    Env <- MCEnv
    Document <- MCDocument
    OptimisticUpdates = TRUE
    Command = {"ON", "BRIGHT"}
    MaxEdits = 2
    MaxBusy = 1
INVARIANTS
    FilteredNotDiscovered
CHECK_DEADLOCK FALSE
