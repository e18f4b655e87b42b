SPECIFICATION Spec
CONSTANTS
    Callers = {main}
    WINDOW_SIZE = 1
    TX_QUEUE_LENGTH_MAX = 3
    MaxPackets = 3
    MaxTimeouts = 1
INVARIANTS
    TypeOK
    NoUseAfterFree
    FirstSentInOrder
    ReadyAtTail
    EndedIsTaken
CHECK_DEADLOCK FALSE
