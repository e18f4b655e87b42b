SPECIFICATION FairSpec
CONSTANTS
    p = p
    c1 = c1
    c2 = c2
    main = main
    relay = relay
    Addresses = {p, c1, c2}
    ParentAddress = p
    ChildAddresses <- Children
    Callers = {main, relay}
    Calls <- SmallCalls
    TX_QUEUE_LENGTH_MAX = 2
    MaxElements = 2
    MaxBreaks <- SmallBreaks
    ACK_RETRY_MAX = 2
    WINDOW_SIZE = 1
    MaxFlight = 1
    MaxNumber = 1
INVARIANTS
    TypeOK
    
    SentOnce
    CopiesBounded
    AckedIsRelayed
PROPERTIES
    EnqueueWakes
    EndedLeaves
CHECK_DEADLOCK FALSE
