SPECIFICATION Spec
CONSTANTS
    MaxSockets = 2
    ConfigReload = TRUE
PROPERTIES
    StopReturns
CHECK_DEADLOCK FALSE
