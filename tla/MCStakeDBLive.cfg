SPECIFICATION FairSpec
CONSTANTS
    Block <- MCBlock
    Genesis = "g"
    Parent <- MCParent
    TicketsIn <- MCTicketsIn
    Winners <- MCWinners
    TicketMaturity = 4
    RecoverDepth = 2
    Reach <- CrashReach
    MaxCrashes = 2
    NoBlock = NoBlock
    NoDiff = NoDiff
CHECK_DEADLOCK FALSE
PROPERTIES
    RestartsUnlessStranded
    FollowsNode
