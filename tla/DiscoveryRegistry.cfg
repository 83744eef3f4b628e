SPECIFICATION Spec
CONSTANTS
    Device = {1}
    MaxBusy = 2
INVARIANTS
    TypeOK
    StaleIsTracked
    NothingStale
    RegistryWhole
VIEW Linked
