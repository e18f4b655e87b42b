SPECIFICATION Spec
CONSTANTS
    NumHops = 2
    Callers = {main}
    SeqMod = 65536
    WINDOW_SIZE = 1
    TX_QUEUE_LENGTH_MAX = 2
    Reorder = 0
    MaxPackets = 1
    MaxIssued = 2
    ChanMax = 1
INVARIANTS
    NoGapForHop
CHECK_DEADLOCK FALSE
