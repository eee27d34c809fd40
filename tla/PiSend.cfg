SPECIFICATION SendSpec
CONSTANTS
    MaxClient = 5
    MaxConn = 2
INVARIANT
    SentToClient
CHECK_DEADLOCK FALSE
