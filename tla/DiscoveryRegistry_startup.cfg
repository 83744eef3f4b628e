SPECIFICATION Spec
CONSTANTS
    Device = {1}
    MaxBusy = 1
INVARIANTS
    PruneOnStartup
VIEW Linked
