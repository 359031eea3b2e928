SPECIFICATION FairSpec
CONSTANTS
    Conn = {"c1", "c2"}
    Topic = {"newtxs", "newblock"}
    SpokeCap = 1
    NewTxBufferSize = 2
    Scenarios <- MCScenarios
CHECK_DEADLOCK FALSE
INVARIANTS
    TypeOK
    NoSendOnClosedSpoke
    TxsOnceInOrder
PROPERTIES
    HubStops
    GoneClientLeaves
