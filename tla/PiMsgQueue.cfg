SPECIFICATION FairSpec
CONSTANTS
    MaxMsgs = 4
INVARIANTS
    TypeOK
    FlagTellsQueue
    NoLostWakeup
    DeletesHandled
    EachOnce
    BatchOrder
PROPERTIES
    ImplementsBatchQueue
    EveryMessageHandled
