SPECIFICATION FairSpec
CONSTANTS
    Coroutines = {c1, c2, c3}
    Shapes <- MCShapes
    MaxRequests = 4
    Cells = 4
    Align = 2
    Cluster = 4
    NoOne = NoOne
INVARIANTS TypeOK ReadModifyWriteAtomic RmwNeverWaits NoWaitCycle InFlightCounts
PROPERTY RequestsEnd
