SPECIFICATION Spec
CONSTANTS
    NCpus = 1
    Irqs = {"HARD"}
    Menu = {}
    Main = Main
    Nobody = Nobody
INVARIANTS
    PausedMeansQuiescent
