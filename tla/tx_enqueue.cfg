SPECIFICATION Spec
CONSTANTS
    Callers = {main, relay}
    WINDOW_SIZE = 1
    TX_QUEUE_LENGTH_MAX = 3
    MaxPackets = 2
    MaxTimeouts = 0
INVARIANTS
    WaitsWithNothingToSend
CHECK_DEADLOCK FALSE
