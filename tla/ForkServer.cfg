SPECIFICATION FairSpec
CONSTANTS
    c1 = c1
    c2 = c2
    c3 = c3
    Client <- ClientDef
    Main = Main
    None = None
CHECK_DEADLOCK FALSE
INVARIANTS
    TypeOK
    ReadUninterrupted
    ZombieNoticed
    NoOrphan
PROPERTIES
    Answered
    ZombiesReaped
