SPECIFICATION FairSpec
CONSTANT
    N = 4
CHECK_DEADLOCK FALSE
INVARIANTS
    ZombieNoticed
    HandlerOnlyInLoop
PROPERTIES
    EveryChildReaped
    HandlerReturns
