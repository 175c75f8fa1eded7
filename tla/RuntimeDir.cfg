SPECIFICATION FairSpec
CONSTANTS
    Proc = {1, 2, 3}
    Nobody = Nobody
    Cmds = {"serve", "load", "stop"}
    MaxFaults = 1
INVARIANTS
    TypeOK
    FilesOwned
    SoleController
PROPERTIES
    ClientReturns
    StopTakesEffect
CHECK_DEADLOCK FALSE
