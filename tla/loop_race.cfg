SPECIFICATION LoopSpec
CONSTANTS
    a = a
    b = b
    Server = Server
    Clients = {a, b}
    Parent <- Tree
    ImgMod = 3
    Fragments = 2
    Threads = {1, 2}
    INTERVAL_SEND = 2
    MaxImages <- FourOfB
    GAMMA1 = 60
    GAMMA2 = 90
    NUM_CYCLE_FOR_EXIT = 2
    MaxList = 0
    PERIOD_FIXED_INTERVAL = 1
    NUM_PETTERN = 2
    IN_ORDER_GAMMA2 = 80
    IN_ORDER_NUM_CYCLE_FOR_EXIT = 1
INVARIANTS
    NewestInForce
CHECK_DEADLOCK FALSE
