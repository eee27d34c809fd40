SPECIFICATION Spec
CONSTANTS
    PortNum = 2
    UserAge = {60}
    MaxEvents = 1
    MaxRead = 3
INVARIANT
    ConfAgrees
CHECK_DEADLOCK FALSE
