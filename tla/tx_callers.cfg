SPECIFICATION FairSpec
CONSTANTS
    Callers = {main, relay}
    WINDOW_SIZE = 1
    TX_QUEUE_LENGTH_MAX = 3
    MaxPackets = 2
    MaxTimeouts = 1
INVARIANTS
    EndedIsTaken
PROPERTIES
    TokenComesBack
CHECK_DEADLOCK FALSE
