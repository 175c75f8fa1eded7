SPECIFICATION FairSpec
CONSTANTS
    Item <- MCItem
    Bound = 2
    RingCap = 2
    MaxOpens = 7
    PollMayFail = TRUE
INVARIANTS
    TypeOK
    NothingLost
    LogIsPrefix
    Drained
    NoUseAfterFree
PROPERTIES
    StopReturns
    EventsLogged
CHECK_DEADLOCK FALSE
