SPECIFICATION Spec
CONSTANTS
    NumHops = 1
    Callers = {main}
    SeqMod = 8
    WINDOW_SIZE = 1
    TX_QUEUE_LENGTH_MAX = 2
    Reorder = 0
    MaxPackets = 10
    MaxIssued = 10
    ChanMax = 1
PROPERTIES
    NoAckAhead
CHECK_DEADLOCK FALSE
