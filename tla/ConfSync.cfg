SPECIFICATION FairSpec
CONSTANTS
    PortNum = 2
    UserAge = {60}
    MaxEvents = 2
    MaxRead = 3
INVARIANTS
    TypeOK
    
    Exchanged
PROPERTY
    WatchersEnd
CHECK_DEADLOCK FALSE
