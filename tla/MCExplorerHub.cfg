SPECIFICATION FairSpec
CONSTANTS
    Conn = {"c1", "c2"}
    SpokeCap = 2
    XcCap = 1
    SignalCap = 1
    NewTxBufferSize = 2
    Scenarios <- MCScenarios
CHECK_DEADLOCK FALSE
INVARIANTS
    TypeOK
    NoSendOnClosedSpoke
    TxsOnceUnlessReplaced
PROPERTIES
    BufferedTxsLeave
    GoneClientLeaves
    HubStops
