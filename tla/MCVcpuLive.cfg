SPECIFICATION FairSpec
CONSTANTS
    NCpus = 2
    Irqs = {}
    Menu = {"restart"}
    Main = Main
    Nobody = Nobody
INVARIANTS
    PauseIsAnswered
PROPERTIES
    MainReturns
