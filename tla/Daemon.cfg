SPECIFICATION FairDaemon
CONSTANTS
    c1 = c1
    c2 = c2
    Conn = {c1, c2}
    NoConn = NoConn
    Fd = {1, 2}
    Requests <- StreamAndStop
    QCap = 1
    SockCap = 1
    MaxEvents = 1
INVARIANTS
    TypeOK
    ListsNeverOwn
    DescriptorOwned
PROPERTIES
    StreamReleased
CHECK_DEADLOCK FALSE
