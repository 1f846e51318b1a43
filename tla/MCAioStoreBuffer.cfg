SPECIFICATION FairSpec
CONSTANTS
    Main = Main
    Vcpu = Vcpu
    Nobody = Nobody
    Items = {i1, i2}
    NoItem = NoItem
    MaxDepth = 2
    StoreBuffer = TRUE
PROPERTIES
    WaiterReturns
CHECK_DEADLOCK FALSE
