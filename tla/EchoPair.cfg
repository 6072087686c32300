\* All the programs end, or a client that is never accepted waits.
CHECK_DEADLOCK FALSE
SPECIFICATION FairSpec
CONSTANTS
    c1 = c1
    c2 = c2
    c3 = c3
    Client <- ClientDef
    None = None
INVARIANTS
    OneInFlight
    NoSigpipe
PROPERTIES
    ServerEnds
    ClientsEnd
