SPECIFICATION FairSpec
CONSTANTS
    c1 = c1
    c2 = c2
    c3 = c3
    Client <- ClientDef
    Main = Main
    None = None
CHECK_DEADLOCK FALSE
PROPERTIES
    ChildReclaimed
