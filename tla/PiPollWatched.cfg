SPECIFICATION FairSpec
CONSTANTS
    MaxClient = 5
    MaxConn = 3
PROPERTY
    EveryClientWatched
CHECK_DEADLOCK FALSE
