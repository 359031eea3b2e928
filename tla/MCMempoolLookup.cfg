SPECIFICATION Spec
CONSTANTS
    Regular = {"r1"}
    TSpend = {"s1"}
    Vote = {"v1", "v2", "v3"}
    VoteOn <- MCVoteOn
    Ticket <- MCTicket
    Skew = 2
    Scenarios <- LookupScenarios
CHECK_DEADLOCK FALSE
INVARIANTS
    LookupsFindTxs
