SPECIFICATION Spec
CONSTANTS
    NCpus = 2
    Irqs = {"HARD", "SIPI"}
    Menu = {"suspend"}
    Main = Main
    Nobody = Nobody
INVARIANTS
    TypeOK
    NoLostWakeup
    RegistersExclusive
    ApRunsOnlyAfterSipi
PROPERTIES
    NoExecWhilePaused
