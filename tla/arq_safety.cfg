SPECIFICATION Spec
CONSTANTS
    NumHops = 1
    Callers = {main, relay}
    SeqMod = 65536
    WINDOW_SIZE = 1
    TX_QUEUE_LENGTH_MAX = 2
    Reorder = 1
    MaxPackets = 2
    MaxIssued = 4
    ChanMax = 2
INVARIANTS
    TypeOK
    DeliveredInOrder
    AckedIsDelivered
    NothingLost
    QueueBound
PROPERTIES
    NoAckAhead
    RefinesFifo
SYMMETRY CallerSymmetry
CHECK_DEADLOCK FALSE
