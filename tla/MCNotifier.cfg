SPECIFICATION FairSpec
CONSTANTS
    Block <- MCBlock
    Genesis = "g"
    Parent <- MCParent
    MaxCatchUp = 2
    MaxOverdue = 1
    Scenarios <- MCScenarios
    DeepBranch <- MCDeepBranch
    NoBlock = NoBlock
CHECK_DEADLOCK FALSE
INVARIANTS
    TypeOK
    MainChainIsBestChain
    OneMainBlockPerHeight
    RecordedIsProcessed
    ReplayCatchesUp
PROPERTIES
    AncestorIsLastShared
    ImplementsFollowedChain
    SuperQueueReturns
    FollowsNode
