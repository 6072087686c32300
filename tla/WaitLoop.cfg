\* The parent returns, or waits for children that nobody kills.
CHECK_DEADLOCK FALSE
SPECIFICATION FairSpec
CONSTANT N = 4
INVARIANTS
    ExitsLast
PROPERTIES
    EveryChildReaped
    ParentEnds
