\* A process that the closing of the terminal has ended takes no step.
CHECK_DEADLOCK FALSE
SPECIFICATION FairSpec
INVARIANTS
    TypeOK
    Quiet
PROPERTIES
    Survives
    TimeWritten
