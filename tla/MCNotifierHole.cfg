SPECIFICATION Spec
CONSTANTS
    Block <- MCBlock
    Genesis = "g"
    Parent <- MCParent
    MaxCatchUp = 2
    MaxOverdue = 1
    Scenarios <- HoleScenario
    DeepBranch <- MCDeepBranch
    NoBlock = NoBlock
CHECK_DEADLOCK FALSE
INVARIANTS
    NoHoleInDB
