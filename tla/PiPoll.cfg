SPECIFICATION FairSpec
CONSTANTS
    MaxClient = 5
    MaxConn = 3
INVARIANTS
    TypeOK
    NotForgotten
    ReadsOpen
    SlotsPolled
PROPERTY
    EveryMessageRead
CHECK_DEADLOCK FALSE
