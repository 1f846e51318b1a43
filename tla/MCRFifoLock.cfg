SPECIFICATION FairSpec
CONSTANTS
    Threads = {t1, t2, t3}
    Modulus = 4
    MaxNesting = 2
    NoThread = NoThread
INVARIANTS
    TypeOK
    MutualExclusion
    TicketsDistinct
PROPERTIES
    FirstComeFirstServed
    NoStarvation
    ImplementsFifoLock
