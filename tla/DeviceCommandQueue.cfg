SPECIFICATION Spec
CONSTANTS
    MAX_QUEUED_DEVICE_COMMANDS = 2
    MaxCommands = 5
    Repeats <- MCRepeats
    HealthField = {"usb_connected", "transfers_ready"}
INVARIANTS
    TypeOK
    Conservation
    QueueBound
PROPERTIES
    DeliversInOrder
    FlushEnds
    DrainedByHealth
