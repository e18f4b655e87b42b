SPECIFICATION LoopSpec
CONSTANTS
    a = a
    b = b
    Server = Server
    Clients = {a}
    Parent <- Tree
    ImgMod = 2
    Fragments = 2
    Threads = {1}
    INTERVAL_SEND = 1
    MaxImages <- TwoOfA
    GAMMA1 = 60
    GAMMA2 = 90
    NUM_CYCLE_FOR_EXIT = 2
    MaxList = 3
    PERIOD_FIXED_INTERVAL = 1
    NUM_PETTERN = 2
    IN_ORDER_GAMMA2 = 80
    IN_ORDER_NUM_CYCLE_FOR_EXIT = 1
PROPERTIES
    FreedIsAnnounced
CHECK_DEADLOCK FALSE
