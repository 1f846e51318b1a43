SPECIFICATION FairSpec
CONSTANTS
    Main = Main
    Vcpu = Vcpu
    Nobody = Nobody
    Items = {i1, i2}
    NoItem = NoItem
    MaxDepth = 2
    StoreBuffer = FALSE
INVARIANTS
    TypeOK
    SleeperIsNotified
PROPERTIES
    WaiterReturns
