SPECIFICATION FairDaemon
CONSTANTS
    c1 = c1
    c2 = c2
    Conn = {c1}
    NoConn = NoConn
    Fd = {1}
    Requests <- AnyRequest
    QCap = 2
    SockCap = 1
    MaxEvents = 4
INVARIANTS
    StreamOrdered
PROPERTIES
    FeedEnds
    StopCompletes
CHECK_DEADLOCK FALSE
