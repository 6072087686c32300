SPECIFICATION FairSpec
CONSTANTS
    c1 = c1
    c2 = c2
    c3 = c3
    Client <- ClientDef
    MaxLen = 2
    None = None
CHECK_DEADLOCK FALSE
PROPERTIES
    ElementReused
