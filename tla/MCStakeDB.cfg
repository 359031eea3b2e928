SPECIFICATION Spec
CONSTANTS
    Block <- MCBlock
    Genesis = "g"
    Parent <- MCParent
    TicketsIn <- MCTicketsIn
    Winners <- MCWinners
    TicketMaturity = 4
    RecoverDepth = 2
    Reach <- MCReach
    MaxCrashes = 2
    NoBlock = NoBlock
    NoDiff = NoDiff
CHECK_DEADLOCK FALSE
INVARIANTS
    TypeOK
    StakeNodeIsTrue
    PoolTracksStakeNode
    TicketCacheIsAccurate
    DiskIsCurrent
    PoolDBLoads
    HeightsAgree
    PoolRecovers
