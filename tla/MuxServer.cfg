\* The server may exit, or wait when no client is left.
CHECK_DEADLOCK FALSE
SPECIFICATION FairSpec
CONSTANTS
    c1 = c1
    c2 = c2
    c3 = c3
    Client <- ClientDef
    Listen = Listen
    None = None
INVARIANTS
    NeverBlocks
PROPERTIES
    Answered
    Released
