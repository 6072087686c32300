SPECIFICATION FairSpec
CONSTANTS
    p1 = p1
    p2 = p2
    c1 = c1
    c2 = c2
    c3 = c3
    n1 = n1
    n2 = n2
    n3 = n3
    Producer <- ProducerDef
    Consumer <- ConsumerDef
    Node <- NodeDef
    NoThread = NoThread
INVARIANTS
    MemorySafe
    NoLostWakeup
PROPERTIES
    IsStack
    Consumed
