SPECIFICATION FairSpec
CONSTANTS
    Cap = 3
    Uses = {"controller", "stream", "any"}
    MaxItems = 5
    Nothing = Nothing
INVARIANTS
    TypeOK
    Drained
    NoSlotRace
    InOrder
PROPERTIES
    ImplementsFifo
    PushReturns
    ItemsDelivered
    StopEnds
CHECK_DEADLOCK FALSE
