SPECIFICATION ReaderSpec
CONSTANTS
    MaxSockets = 2
    ConfigReload = TRUE
    House = {"A"}
    MaxEvents = 2
INVARIANTS
    TypeOK
    StoppedStaysDown
    NoSocketLeak
    CallbacksPaired
    EveryReportReturned
    ViewFollows
PROPERTIES
    KeepsRetrying
    StopEndsThread
    ReportCompletes
CHECK_DEADLOCK FALSE
