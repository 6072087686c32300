\* The functions return: no step follows.
CHECK_DEADLOCK FALSE
SPECIFICATION FairSpec
CONSTANTS
    MaxLen = 4
    Value = {1, 2, 3, 4}
INVARIANTS
    Sorted
    Permuted
PROPERTIES
    Returns
