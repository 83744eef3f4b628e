SPECIFICATION Spec
CONSTANTS
    MAX_QUEUED_DEVICE_COMMANDS = 2
    MaxCommands = 3
    Repeats <- MCRepeats
    HealthField = {"usb_connected"}
PROPERTIES
    QueuedUntilReady
